------------------------------- MODULE Sync -------------------------------
(***************************************************************************)
(* The upload side of the agent as main.go wires it: the full loop         *)
(* (cacheAndUpload, first run inside main, then every 30 minutes), the     *)
(* ticket loop (refreshTickets, every 30 seconds) and the HTTP handlers    *)
(* that call SyncEntities for every GET.  They meet in WExport.EXE and its *)
(* mutex, in the one copy Export\set1.xml of what WExport wrote, and in    *)
(* the cloud, where the last PUT of an entity wins.                        *)
(*                                                                         *)
(* An agent that is stopped during its first sync goes on with it although *)
(* the service counts as stopped (Execute returns before main looks at the *)
(* stop channel), so that another agent may be started beside it: each has *)
(* a mutex of its own, and they share the files.                           *)
(*                                                                         *)
(* The POS data is a version number that grows with every change; tables   *)
(* stands for what comes through WExport, tickets for what is read from    *)
(* the POS at once.  A file is a version, Torn (truncated or half          *)
(* written) or Missing.                                                    *)
(***************************************************************************)
EXTENDS Naturals, FiniteSets

CONSTANTS
  Agents,      \* processes of the agent that may live at one time
  Handlers,    \* HTTP requests for an entity in progress at one time
  Torn,        \* content of a truncated or half-written file
  Missing,     \* no file, no export
  Empty,       \* an empty list, what every failed read turns into
  Mixed,       \* rows of two different exports
  MaxChanges,  \* bound: changes of the POS data explored
  MaxEnds,     \* bound: deaths of an agent and stops in its first sync explored
  MaxSyncs     \* bound: calls of SyncEntities explored at one time

ASSUME WorkersAssumption ==
  /\ Agents \cap Handlers = {}
  /\ (Agents \cup Handlers) \cap {"ticket", "nobody", "none"} = {}
ASSUME MarkersAssumption ==
  /\ {Torn, Missing, Empty, Mixed} \cap 0..MaxChanges = {}
  /\ Torn # Missing /\ Empty # Mixed
ASSUME BoundsAssumption == MaxChanges \in Nat /\ MaxEnds \in Nat /\ MaxSyncs \in Nat

\* An agent stands for its main goroutine and its full loop, which are one worker
\* as the loop starts when main's first sync is over.
Syncers == Agents \cup Handlers        \* those that call SyncEntities
Workers == Syncers \cup {"ticket"}

Versions == 0..MaxChanges
Snapshot == [tables : Versions \cup {Empty, Mixed}, tickets : Versions \cup {Empty}]
Blank == [tables |-> Empty, tickets |-> Empty]

Stages == {"off", "idle", "lock", "export", "create", "copy", "parse", "reread",
           "tickets", "upload", "rest"}

VARIABLES
  pos,      \* current version of the POS data
  current,  \* the agent the service runs in, or "none"
  stage,    \* stage[w]: where worker w stands
  serving,  \* current's first sync is over: its loops and its HTTP server run
  holder,   \* holder[a]: who holds wexportMu of process a, or "none"
  exes,     \* WExport.EXE processes: started by which agent, for whom
  src,      \* C:\SC\set1.xml
  dst,      \* Export\set1.xml
  copier,   \* who truncated dst last, until its round is over, its export has
            \* failed or it met another agent (history)
  left,     \* agents that were told to stop in their first sync (history)
  own,      \* own[w]: POS version when w's export began, Missing if it failed or
            \* met another agent
  half,     \* half[w]: what the first read of dst gave w
  snap,     \* snap[w]: what w is going to upload or answer
  cloud,    \* the ticket list the cloud has
  ends      \* deaths and stops in a first sync so far

process == <<current, serving, holder, left>>
files == <<src, dst, copier>>
reads == <<own, half, snap>>
vars == <<pos, process, stage, exes, files, reads, cloud, ends>>

TypeOK ==
  /\ pos \in Versions
  /\ current \in Agents \cup {"none"}
  /\ stage \in [Workers -> Stages]
  /\ serving \in BOOLEAN
  /\ holder \in [Agents -> Syncers \cup {"none"}]
  /\ exes \subseteq [by : Agents, for : Syncers \cup {"nobody"}]
  /\ src \in Versions \cup {Torn, Missing}
  /\ dst \in Versions \cup {Torn, Missing}
  /\ copier \in Syncers \cup {"none"}
  /\ left \subseteq Agents
  /\ own \in [Syncers -> Versions \cup {Missing}]
  /\ half \in [Syncers -> Versions \cup {Torn, Missing}]
  /\ snap \in [Workers -> Snapshot]
  /\ cloud \in Versions \cup {Empty}
  /\ ends \in 0..MaxEnds

Init ==
  /\ pos = 0
  /\ current = "none"
  /\ stage = [w \in Workers |-> "off"]
  /\ serving = FALSE
  /\ holder = [a \in Agents |-> "none"]
  /\ exes = {}
  /\ src = Missing
  /\ dst = Missing
  /\ copier = "none"
  /\ left = {}
  /\ own = [w \in Syncers |-> Missing]
  /\ half = [w \in Syncers |-> Missing]
  /\ snap = [w \in Workers |-> Blank]
  /\ cloud = Empty
  /\ ends = 0

Alive(a) == stage[a] # "off"
At(w, s) == stage[w] = s
GoTo(w, s) == stage' = [stage EXCEPT ![w] = s]

\* The calls of SyncEntities in progress.
Syncing == {w \in Syncers : stage[w] \notin {"off", "idle"}}

\* The process w is a goroutine of: only the current agent serves requests.
Process(w) == IF w \in Agents THEN w ELSE current

\* The WExport.EXE that w waits for.
Mine(w) == [by |-> Process(w), for |-> w]

\* Another agent lives beside w's, or left an export running.
Beside(w) == \E b \in Agents \ {Process(w)} : Alive(b) \/ \E x \in exes : x.by = b

\* a names no process; of several such names one will do for the next.
Free(a) == ~Alive(a) /\ a = CHOOSE b \in Agents : ~Alive(b)

\* Its round is over: what it read, and the histories of it, are forgotten.
Forget(w) ==
  /\ own' = [own EXCEPT ![w] = Missing]
  /\ snap' = [snap EXCEPT ![w] = Blank]
  /\ copier' = IF copier = w THEN "none" ELSE copier

-----------------------------------------------------------------------------
(* The processes. *)

\* The histories of a leaving agent's sync end when the next agent is started.
MeetAgents ==
  /\ own' = [w \in Syncers |-> IF w \in Agents THEN Missing ELSE own[w]]
  /\ copier' = IF copier \in Agents THEN "none" ELSE copier

\* Mutant: a WExport.EXE left behind by a previous process is not killed.
StartBesideOrphan(a) ==
  /\ current = "none" /\ Free(a)
  /\ current' = a /\ left' = {b \in left : Alive(b)}
  /\ MeetAgents
  /\ GoTo(a, "lock")
  /\ UNCHANGED <<pos, serving, holder, exes, src, dst, half, snap, cloud, ends>>

\* The service is started: main kills every WExport.EXE on the machine, once,
\* then runs the first sync synchronously.
StartAgent(a) ==
  /\ current = "none" /\ Free(a)
  /\ current' = a /\ left' = {b \in left : Alive(b)}
  /\ exes' = {} /\ src' \in {src} \cup IF exes = {} THEN {} ELSE {Torn}
  /\ MeetAgents
  /\ GoTo(a, "lock")
  /\ UNCHANGED <<pos, serving, holder, dst, half, snap, cloud, ends>>

\* Stop during the first sync: the service is stopped, its process is not.
StopInFirstSync ==
  /\ current # "none" /\ ~serving
  /\ ends < MaxEnds
  /\ ends' = ends + 1
  /\ current' = "none" /\ left' = left \cup {current}
  /\ UNCHANGED <<pos, stage, serving, holder, exes, files, reads, cloud>>

\* Agent a dies, or its main returns; a running WExport.EXE stays behind.
Crash(a) ==
  LET dead == {w \in Workers : Process(w) = a}
  IN  /\ Alive(a)
      /\ ends < MaxEnds
      /\ ends' = ends + 1
      /\ current' = IF a = current THEN "none" ELSE current
      /\ serving' = (serving /\ a # current)
      /\ stage' = [w \in Workers |-> IF w \in dead THEN "off" ELSE stage[w]]
      /\ holder' = [holder EXCEPT ![a] = "none"]
      /\ exes' = {[x EXCEPT !.for = IF x.by = a THEN "nobody" ELSE @] : x \in exes}
      /\ own' = [w \in Syncers |-> IF w \in dead THEN Missing ELSE own[w]]
      /\ half' = [w \in Syncers |-> IF w \in dead THEN Missing ELSE half[w]]
      /\ snap' = [w \in Workers |-> IF w \in dead THEN Blank ELSE snap[w]]
      /\ copier' = IF copier \in dead THEN "none" ELSE copier
      /\ UNCHANGED <<pos, left, src, dst, cloud>>

\* The next round of a loop, or a GET that reaches the HTTP server.
Begin(w) ==
  /\ serving
  /\ w = "ticket" \/ Cardinality(Syncing) < MaxSyncs
  /\ At(w, IF w \in Handlers THEN "off" ELSE "idle")
  /\ GoTo(w, IF w = "ticket" THEN "tickets" ELSE "lock")
  /\ UNCHANGED <<pos, process, exes, files, reads, cloud, ends>>

-----------------------------------------------------------------------------
(* RunWExportAndCopySet1, under the process's wexportMu. *)

\* Take the mutex and start WExport.EXE.
LockAndExport(w) ==
  /\ At(w, "lock") /\ holder[Process(w)] = "none"
  /\ holder' = [holder EXCEPT ![Process(w)] = w]
  /\ exes' = exes \cup {Mine(w)}
  /\ own' = [own EXCEPT ![w] = IF Beside(w) THEN Missing ELSE pos]
  /\ GoTo(w, "export")
  /\ UNCHANGED <<pos, current, serving, left, files, half, snap, cloud, ends>>

\* Return from RunWExportAndCopySet1, releasing the mutex.
Return(w, ok) ==
  /\ holder' = [holder EXCEPT ![Process(w)] = "none"]
  /\ own' = IF ok THEN own ELSE [own EXCEPT ![w] = Missing]
  /\ copier' = IF ~ok /\ copier = w THEN "none" ELSE copier
  /\ GoTo(w, "parse")
  /\ UNCHANGED <<current, serving, left>>

\* What an export leaves in its file: POS data of some moment since it began,
\* unless another export writes the same file.
Began(x) == IF x.for \in Syncers /\ own[x.for] # Missing THEN own[x.for] ELSE 0
Exported(x) == Began(x)..pos \cup IF exes = {x} THEN {} ELSE {Torn}

\* Mutant: the command is started and not waited for.
ExportNotAwaited(w) ==
  /\ At(w, "export") /\ Mine(w) \in exes
  /\ src' \in {src} \cup Exported(Mine(w))
  /\ exes' = exes \ {Mine(w)}
  /\ GoTo(w, "create")
  /\ UNCHANGED <<pos, process, dst, copier, reads, cloud, ends>>

\* WExport.EXE ends well; cmd.Run returns nil.
ExportDone(w) ==
  /\ At(w, "export") /\ Mine(w) \in exes
  /\ src' \in Exported(Mine(w))
  /\ exes' = exes \ {Mine(w)}
  /\ GoTo(w, "create")
  /\ UNCHANGED <<pos, process, dst, copier, reads, cloud, ends>>

\* Mutant: the command has no deadline, so only its own exit or a kill ends it.
ExportFailsIfKilled(w) ==
  /\ At(w, "export") /\ Mine(w) \notin exes
  /\ src' \in {src, Torn}
  /\ exes' = exes \ {Mine(w)}
  /\ Return(w, FALSE)
  /\ UNCHANGED <<pos, dst, half, snap, cloud, ends>>

\* It exits with an error, the 60 second context or a taskkill ends it.
ExportFails(w) ==
  /\ At(w, "export")
  /\ src' \in {src, Torn}
  /\ exes' = exes \ {Mine(w)}
  /\ Return(w, FALSE)
  /\ UNCHANGED <<pos, dst, half, snap, cloud, ends>>

\* os.Open(set1.xml) and os.Create(dst), which truncates; either may fail.
OpenAndCreate(w) ==
  /\ At(w, "create")
  /\ \/ /\ dst' = Torn
        /\ copier' = IF own[w] = Missing THEN "none" ELSE w
        /\ GoTo(w, "copy")
        /\ UNCHANGED <<process, own>>
     \/ Return(w, FALSE) /\ UNCHANGED dst
  /\ UNCHANGED <<pos, exes, src, half, snap, cloud, ends>>

\* What a complete copy may contain: another process may write either file.
Copies(w) ==
  {src} \cup IF exes # {} \/ \E v \in Syncers \ {w} : At(v, "copy") THEN {Torn} ELSE {}

\* Mutant: an error of io.Copy is not returned to the caller.
CopyErrorIgnored(w) ==
  /\ At(w, "copy")
  /\ dst' \in Copies(w) \cup {Torn}
  /\ Return(w, TRUE)
  /\ UNCHANGED <<pos, exes, src, half, snap, cloud, ends>>

\* io.Copy fills the file, or fails half way.
Copy(w) ==
  /\ At(w, "copy")
  /\ \/ dst' \in Copies(w) /\ Return(w, TRUE)
     \/ dst' = Torn /\ Return(w, FALSE)
  /\ UNCHANGED <<pos, exes, src, half, snap, cloud, ends>>

-----------------------------------------------------------------------------
(* The rest of SyncEntities, outside the mutex. *)

\* ParseTablesFromSet1XML opens the copy and decodes its beginning.
ParseHead(w) ==
  /\ At(w, "parse")
  /\ half' = [half EXCEPT ![w] = dst]
  /\ GoTo(w, "reread")
  /\ UNCHANGED <<pos, process, exes, files, own, snap, cloud, ends>>

\* Mutant: a truncated file passes for a decoded one.
DecodedUnchecked(head, tail) == {head, tail}

\* The tables two reads of the copy can decode to; an error gives none.
Decoded(head, tail) ==
  IF {head, tail} \subseteq Versions
  THEN IF head = tail THEN {head} ELSE {Mixed, Empty}
  ELSE {Empty}

\* ... and decodes the rest.
ParseTail(w) ==
  /\ At(w, "reread")
  /\ \E t \in Decoded(half[w], dst) : snap' = [snap EXCEPT ![w].tables = t]
  /\ half' = [half EXCEPT ![w] = Missing]
  /\ GoTo(w, IF w \in Agents THEN "tickets" ELSE "upload")
  /\ UNCHANGED <<pos, process, exes, files, own, cloud, ends>>

\* Mutant: tickets are only read while the cloud has none.
SyncTicketsOnce(w) ==
  /\ At(w, "tickets")
  /\ snap' = [snap EXCEPT ![w].tickets =
                 IF cloud = Empty THEN pos ELSE cloud]
  /\ GoTo(w, "upload")
  /\ UNCHANGED <<pos, process, exes, files, own, half, cloud, ends>>

\* SyncTickets: read the ticket files as they are now.
SyncTickets(w) ==
  /\ At(w, "tickets")
  /\ snap' = [snap EXCEPT ![w].tickets = pos]
  /\ GoTo(w, "upload")
  /\ UNCHANGED <<pos, process, exes, files, own, half, cloud, ends>>

-----------------------------------------------------------------------------
(* Uploads.  A failed PUT is logged and left to the next round.  Tickets are *)
(* the only list that both loops PUT, and the only one cloud stands for.     *)

\* cacheAndUpload's PUT of the tickets, one among those of the other lists.
PutEntities(a) ==
  /\ At(a, "upload")
  /\ cloud' \in {cloud, snap[a].tickets}
  /\ GoTo(a, "rest")
  /\ Forget(a)
  /\ UNCHANGED <<pos, process, exes, src, dst, half, ends>>

\* cacheAndUpload returns; the first time main goes on and starts everything.
\* In an agent that was told to stop it finds the stop channel closed and ends.
EndOfRound(a) ==
  /\ At(a, "rest")
  /\ IF a = current
       THEN /\ serving' = TRUE
            /\ stage' = [stage EXCEPT ![a] = "idle",
                                      !["ticket"] = IF serving THEN @ ELSE "idle"]
            /\ UNCHANGED left
       ELSE GoTo(a, "off") /\ left' = left \ {a} /\ UNCHANGED serving
  /\ UNCHANGED <<pos, current, holder, exes, files, reads, cloud, ends>>

\* refreshTickets' PUT.
PutTickets ==
  /\ At("ticket", "upload")
  /\ cloud' \in {cloud, snap["ticket"].tickets}
  /\ GoTo("ticket", "idle")
  /\ snap' = [snap EXCEPT !["ticket"] = Blank]
  /\ UNCHANGED <<pos, process, exes, files, own, half, ends>>

\* The handler writes its answer.
Respond(h) ==
  /\ At(h, "upload")
  /\ GoTo(h, "off")
  /\ Forget(h)
  /\ UNCHANGED <<pos, process, exes, src, dst, half, cloud, ends>>

-----------------------------------------------------------------------------
(* The environment. *)

\* Staff open a check, change the table layout, ...
PosChanges ==
  /\ pos < MaxChanges
  /\ pos' = pos + 1
  /\ UNCHANGED <<process, stage, exes, files, reads, cloud, ends>>

\* A WExport.EXE nobody waits for finishes its file.
OrphanEnds ==
  \E x \in exes :
    /\ x.for = "nobody"
    /\ exes' = exes \ {x}
    /\ src' \in Exported(x)
    /\ UNCHANGED <<pos, process, stage, dst, copier, reads, cloud, ends>>

Export(w) ==
  \/ LockAndExport(w) \/ ExportDone(w) \/ ExportFails(w) \/ OpenAndCreate(w) \/ Copy(w)

SyncEntities(w) == Export(w) \/ ParseHead(w) \/ ParseTail(w)

Lifecycle(a) == StartAgent(a) \/ Crash(a)

Next ==
  \/ StopInFirstSync \/ PosChanges \/ OrphanEnds \/ PutTickets
  \/ \E w \in Workers : Begin(w) \/ SyncTickets(w)
  \/ \E w \in Syncers : SyncEntities(w)
  \/ \E h \in Handlers : Respond(h)
  \/ \E a \in Agents : Lifecycle(a) \/ PutEntities(a) \/ EndOfRound(a)

Spec == Init /\ [][Next]_vars

\* What w does by itself wherever it stands, but for waiting for the mutex and
\* for WExport.EXE to end.
Proceed(w) ==
  \/ w \in Syncers /\ \/ ExportFails(w) \/ OpenAndCreate(w) \/ Copy(w)
                      \/ ParseHead(w) \/ ParseTail(w)
  \/ SyncTickets(w)
  \/ w \in Handlers /\ Respond(w)
  \/ w \notin Handlers /\ Begin(w)
  \/ w = "ticket" /\ PutTickets
  \/ w \in Agents /\ (PutEntities(w) \/ EndOfRound(w))

\* The scheduler runs every goroutine, sync.Mutex does not starve a waiter
\* (hence strong fairness of taking it), the 60 second context ends a hung
\* WExport, and a PUT that is tried again and again gets through.  Neither
\* the end of a WExport run nor a restart of the agent is taken for granted.
Fairness ==
  /\ \A w \in Syncers : SF_vars(LockAndExport(w))
  /\ \A w \in Workers : WF_vars(Proceed(w))
  /\ SF_vars(PutTickets /\ cloud' = snap["ticket"].tickets)

FairSpec == Spec /\ Fairness

-----------------------------------------------------------------------------
(* Properties. *)

\* "A package-level mutex ensures only one WExport.exe runs at a time"
\* (wexport.go): it does within one agent, over restarts that leave an export
\* running and however many requests ask for one.  A second WExport.EXE on the
\* machine is always that of an agent that was stopped in its first sync.
ExclusiveExport ==
  \A x, y \in exes : x # y => x.by # y.by /\ {x.by, y.by} \cap left # {}

\* A sync whose own export and copy succeeded reports the tables of one
\* export, as new as the POS data were when it asked: the copy is made "so no
\* other process can overwrite it before we read it" (wexport.go).
OwnExportIsRead ==
  \A w \in Syncers : own[w] # Missing /\ stage[w] \in {"tickets", "upload"} =>
    snap[w].tables \in Versions /\ snap[w].tables >= own[w]

\* ... and it does, as long as nobody else truncated the copy since and no other
\* agent was met: neither a restart, nor a half-written copy, nor an export left
\* running gets between.
UndisturbedExportIsRead ==
  \A w \in Syncers : copier = w /\ stage[w] \in {"tickets", "upload"} =>
    snap[w].tables \in Versions /\ snap[w].tables >= own[w]

\* What other requests of its agent do to the copy in between can empty or mix
\* the tables of such a sync, but can never hand it those of an export older
\* than its own.  An agent beside its own can.
NeverAnOlderExport ==
  \A w \in Syncers : own[w] # Missing /\ snap[w].tables \in Versions =>
    snap[w].tables >= own[w]

\* Nobody waits for wexportMu for ever.
MutexIsGranted == \A w \in Syncers : []<>~At(w, "lock")

\* An agent that stays up brings the cloud's tickets up to date.
TicketsCatchUp == <>[]serving => []<>(cloud = pos)
=============================================================================
