------------------------------- MODULE Agent -------------------------------
(***************************************************************************)
(* The in-process agent (agent/agent.go), the cache it fills               *)
(* (cache/cache.go) and the client that uploads the cache's files          *)
(* (cloud/cloud_sync.go).  One refresh reads the lists one after the other *)
(* and writes each to a file of its own; then it replaces what Get returns *)
(* and writes rooam_cache.json.  Errors of all these writes are dropped.   *)
(*                                                                         *)
(* The POS data is a version number that grows.  A list is the version it  *)
(* was read at, or Empty; a file may also be Torn or Missing.              *)
(***************************************************************************)
EXTENDS Naturals, Sequences, FiniteSets

CONSTANTS
  Order,       \* the lists, in the order in which refresh reads them
  Exported,    \* those that come through WExport's copy of set1.xml
  CacheFiles,  \* those written to <list>.cache; the others go to <list>.json
  Requests,    \* sequences of lists the client is asked to upload
  Empty,       \* no rows, what every failed read turns into
  Torn,        \* content of a truncated or half-written file
  Missing,     \* no file
  Nothing,     \* a cache that was never filled
  MaxChanges,  \* bound: changes of the POS data explored
  MaxFaults   \* bound: failures and ends of the process explored

Entities == {Order[i] : i \in 1..Len(Order)}
Versions == 0..MaxChanges
Lists == Versions \cup {Empty}
Files == Lists \cup {Torn, Missing}
Snapshots == [Entities -> Lists]

ASSUME OrderAssumption ==
  /\ Order \in Seq(Entities) /\ Len(Order) > 0
  /\ \A i, j \in 1..Len(Order) : Order[i] = Order[j] => i = j
ASSUME ListsAssumption ==
  /\ CacheFiles \subseteq Entities
  /\ \A q \in Requests : q \in Seq(Entities) /\ Len(q) > 0
ASSUME MarkersAssumption ==
  /\ {Empty, Torn, Missing} \cap Versions = {}
  /\ Empty # Torn /\ Empty # Missing /\ Torn # Missing
  /\ Nothing \notin Snapshots \cup {Torn, Missing}
  /\ {Torn, Missing} \cap Snapshots = {}
ASSUME BoundsAssumption == MaxChanges \in Nat /\ MaxFaults \in Nat

Steps == {"new", "read", "create", "encode", "update", "save", "saving", "select", "done"}
Idle == [q |-> <<>>, i |-> 1, step |-> "idle"]

VARIABLES
  pos,      \* current version of the POS data
  step,     \* where Start stands
  at,       \* position in Order of the list in hand
  hand,     \* the lists read so far
  errs,     \* writes of this refresh that failed, "cache" for rooam_cache.json
  set1,     \* Export\set1.xml
  file,     \* file[e]: the file of list e in data_cache
  mem,      \* what Get returns
  disk,     \* rooam_cache.json
  ticker,   \* the refresh ticker: "off", "idle", or a tick is "due"
  caller,   \* the one who calls Stop: "idle", "waiting", "returned"
  client,   \* the client's call: its lists, the one in hand, what it does
  body,     \* what the client read to send
  held,     \* held[e]: what e's cache file has been since the call began (history)
  cloud,    \* cloud[e]: the list the cloud has
  faults    \* failures and ends of the process so far

refreshing == <<at, hand, errs>>
stored == <<set1, file, mem, disk>>
uploading == <<client, body, held, cloud>>
vars == <<pos, step, refreshing, stored, ticker, caller, uploading, faults>>

TypeOK ==
  /\ pos \in Versions
  /\ step \in Steps
  /\ at \in 1..Len(Order)
  /\ hand \in Snapshots
  /\ errs \subseteq Entities \cup {"cache"}
  /\ set1 \in Versions \cup {Torn, Missing}
  /\ file \in [Entities -> Files]
  /\ mem \in Snapshots \cup {Nothing}
  /\ disk \in Snapshots \cup {Torn, Missing}
  /\ ticker \in {"off", "idle", "due"}
  /\ caller \in {"idle", "waiting", "returned"}
  /\ client \in [q : Requests \cup {<<>>}, i : Nat, step : {"idle", "read", "put", "ok"}]
  /\ client.step # "idle" => client.q \in Requests /\ client.i \in 1..Len(client.q)
  /\ body \in Files
  /\ held \in [Entities -> SUBSET Files]
  /\ cloud \in [Entities -> Files]
  /\ faults \in 0..MaxFaults

NoLists == [e \in Entities |-> Empty]
NoFiles == [e \in Entities |-> Missing]
NothingHeld == [e \in Entities |-> {}]

Init ==
  /\ pos = 0
  /\ step = "new" /\ at = 1 /\ hand = NoLists /\ errs = {}
  /\ set1 = Missing /\ file = NoFiles /\ mem = Nothing /\ disk = Missing
  /\ ticker = "off"
  /\ caller = "idle"
  /\ client = Idle /\ body = Missing /\ held = NothingHeld /\ cloud = NoFiles
  /\ faults = 0

InHand == Order[at]

\* An operation of the system goes well, or fails.
Well == UNCHANGED faults
Fails == faults < MaxFaults /\ faults' = faults + 1

-----------------------------------------------------------------------------
(* Start and refresh. *)

BeginRefresh ==
  /\ step' = "read" /\ at' = 1
  /\ errs' = {}
  /\ UNCHANGED hand

\* go a.Start(), the first pull.
Start ==
  /\ step = "new"
  /\ BeginRefresh
  /\ UNCHANGED <<pos, stored, ticker, caller, uploading, faults>>

\* Mutant: whatever the parser got out of the file is taken.
ParsedUnchecked(content) == content

\* Rows of a file; what does not parse or is not there has none.
Parsed(content) == IF content \in Versions THEN content ELSE Empty

\* runWExportAndCopyForTables exports and copies, does not get so far, or
\* breaks off within the copy.
Export ==
  \/ set1' = pos /\ Well
  \/ set1' \in {set1, Torn} /\ Fails

\* The copy is parsed in any case.
ReadTables ==
  /\ step = "read" /\ InHand \in Exported
  /\ Export
  /\ hand' = [hand EXCEPT ![InHand] = Parsed(set1')]
  /\ step' = "create"
  /\ UNCHANGED <<pos, at, errs, file, mem, disk, ticker, caller, uploading>>

\* Any other list is read straight from the POS's files, or not at all.
ReadList ==
  /\ step = "read" /\ InHand \notin Exported
  /\ \/ hand' = [hand EXCEPT ![InHand] = pos] /\ Well
     \/ hand' = [hand EXCEPT ![InHand] = Empty] /\ Fails
  /\ step' = "create"
  /\ UNCHANGED <<pos, at, errs, stored, ticker, caller, uploading>>

\* On to the next list, or to the cache after the last.
Advance ==
  IF at = Len(Order) THEN step' = "update" /\ at' = 1 ELSE step' = "read" /\ at' = at + 1

\* What ReadFile finds under <list>.cache.
CacheFile(e) == IF e \in CacheFiles THEN file[e] ELSE Missing

\* The history of the files while the client's call goes on.
Hold ==
  held' = IF client.step \in {"read", "put"}
          THEN [e \in Entities |-> held[e] \cup {CacheFile(e)'}] ELSE held

\* writeJSON: os.Create truncates the file, or fails (no data_cache directory).
CreateFile ==
  /\ step = "create"
  /\ \/ /\ file' = [file EXCEPT ![InHand] = Torn]
        /\ step' = "encode"
        /\ Well /\ UNCHANGED <<at, errs>>
     \/ /\ errs' = errs \cup {InHand}
        /\ Advance
        /\ Fails /\ UNCHANGED file
  /\ Hold
  /\ UNCHANGED <<pos, hand, set1, mem, disk, ticker, caller, client, body, cloud>>

\* writeJSON: the encoder writes all of the list, or part of it.
EncodeFile ==
  /\ step = "encode"
  /\ \/ file' = [file EXCEPT ![InHand] = hand[InHand]] /\ Well /\ UNCHANGED errs
     \/ errs' = errs \cup {InHand} /\ Fails /\ UNCHANGED file
  /\ Advance
  /\ Hold
  /\ UNCHANGED <<pos, hand, set1, mem, disk, ticker, caller, client, body, cloud>>

\* Mutant: the cache is only updated when every list was written.
UpdateIfWritten ==
  /\ step = "update"
  /\ mem' = IF errs = {} THEN hand ELSE mem
  /\ step' = "save"
  /\ UNCHANGED <<pos, refreshing, set1, file, disk, ticker, caller, uploading, faults>>

\* Cache.Update under its lock ...
Update ==
  /\ step = "update"
  /\ mem' = hand
  /\ step' = "save"
  /\ UNCHANGED <<pos, refreshing, set1, file, disk, ticker, caller, uploading, faults>>

\* refresh returns to the select of Start; the ticker is made when it gets there
\* first.
ToSelect ==
  /\ step' = "select"
  /\ hand' = NoLists
  /\ ticker' = IF ticker = "off" THEN "idle" ELSE ticker

\* ... and save, after the lock: os.WriteFile truncates, or cannot open,
SaveBegins ==
  /\ step = "save"
  /\ \/ disk' = Torn /\ step' = "saving" /\ Well /\ UNCHANGED <<hand, errs, ticker>>
     \/ errs' = errs \cup {"cache"} /\ ToSelect /\ Fails /\ UNCHANGED disk
  /\ UNCHANGED <<pos, at, set1, file, mem, caller, uploading>>

\* and then writes all or part.
SaveEnds ==
  /\ step = "saving"
  /\ \/ disk' = hand /\ Well /\ UNCHANGED errs
     \/ errs' = errs \cup {"cache"} /\ Fails /\ UNCHANGED disk
  /\ ToSelect
  /\ UNCHANGED <<pos, at, set1, file, mem, caller, uploading>>

\* Half an hour is over; a tick nobody took yet is the only one kept.
Tick ==
  /\ ticker = "idle" /\ step # "done"
  /\ ticker' = "due"
  /\ UNCHANGED <<pos, step, refreshing, stored, caller, uploading, faults>>

\* The select takes the tick, be Stop called or not,
TakeTick ==
  /\ step = "select" /\ ticker = "due"
  /\ ticker' = "idle"
  /\ BeginRefresh
  /\ UNCHANGED <<pos, stored, caller, uploading, faults>>

\* Mutant: stop is only looked at when no tick is due.
TicksFirst ==
  /\ step = "select" /\ caller = "waiting" /\ ticker = "idle"
  /\ step' = "done"
  /\ ticker' = "off"
  /\ UNCHANGED <<pos, refreshing, stored, caller, uploading, faults>>

\* or sees that stop is closed, and closes done on the way out.
TakeStop ==
  /\ step = "select" /\ caller = "waiting"
  /\ step' = "done"
  /\ ticker' = "off"
  /\ UNCHANGED <<pos, refreshing, stored, caller, uploading, faults>>

\* Stop closes stop and waits for done.
Stop ==
  /\ caller = "idle" /\ step # "new"
  /\ caller' = "waiting"
  /\ UNCHANGED <<pos, step, refreshing, stored, ticker, uploading, faults>>

\* Mutant: Stop does not wait.
StopAtOnce ==
  /\ caller = "waiting"
  /\ caller' = "returned"
  /\ UNCHANGED <<pos, step, refreshing, stored, ticker, uploading, faults>>

StopReturn ==
  /\ caller = "waiting" /\ step = "done"
  /\ caller' = "returned"
  /\ UNCHANGED <<pos, step, refreshing, stored, ticker, uploading, faults>>

-----------------------------------------------------------------------------
(* The client of the cloud. *)

\* SyncAllEntities of some lists.
BeginSync(q) ==
  /\ client.step \in {"idle", "ok"} /\ step # "new"
  /\ client' = [q |-> q, i |-> 1, step |-> "read"]
  /\ held' = [e \in Entities |-> {CacheFile(e)}]
  /\ UNCHANGED <<pos, step, refreshing, stored, ticker, caller, body, cloud, faults>>

InCall == client.q[client.i]
Answer(s) == client' = [client EXCEPT !.step = s] /\ UNCHANGED held
GiveUp == client' = Idle /\ held' = NothingHeld

\* The next list, or nil after the last.
NextEntity ==
  IF client.i = Len(client.q) THEN Answer("ok")
  ELSE client' = [client EXCEPT !.i = @ + 1, !.step = "read"] /\ UNCHANGED held

\* Mutant: a list that cannot be read is skipped.
ReadOrSkip ==
  /\ client.step = "read"
  /\ IF CacheFile(InCall) = Missing
     THEN NextEntity /\ UNCHANGED body
     ELSE Answer("put") /\ body' = CacheFile(InCall)
  /\ UNCHANGED <<pos, step, refreshing, stored, ticker, caller, cloud, faults>>

\* SyncEntityCache reads the file; the first error ends SyncAllEntities.
ReadCacheFile ==
  /\ client.step = "read"
  /\ IF CacheFile(InCall) = Missing
     THEN GiveUp /\ UNCHANGED body
     ELSE Answer("put") /\ body' = CacheFile(InCall)
  /\ UNCHANGED <<pos, step, refreshing, stored, ticker, caller, cloud, faults>>

\* ... and PUTs it: done and answered, or an error, done or not.
PutCacheFile ==
  /\ client.step = "put"
  /\ \/ cloud' = [cloud EXCEPT ![InCall] = body] /\ NextEntity /\ Well
     \/ cloud' \in {cloud, [cloud EXCEPT ![InCall] = body]} /\ GiveUp /\ Fails
  /\ body' = Missing
  /\ UNCHANGED <<pos, step, refreshing, stored, ticker, caller>>

-----------------------------------------------------------------------------
(* The environment. *)

PosChanges ==
  /\ pos < MaxChanges
  /\ pos' = pos + 1
  /\ UNCHANGED <<step, refreshing, stored, ticker, caller, uploading, faults>>

\* The process ends, at any point, and is started again: cache.New and
\* agent.New start from nothing, the files are what they are.
Restart ==
  /\ step # "new" /\ Fails
  /\ step' = "new" /\ at' = 1 /\ hand' = NoLists /\ errs' = {}
  /\ mem' = Nothing
  /\ ticker' = "off"
  /\ caller' = "idle"
  /\ GiveUp /\ body' = Missing
  /\ UNCHANGED <<pos, set1, file, disk, cloud>>

Refresh ==
  \/ ReadList \/ ReadTables \/ CreateFile \/ EncodeFile
  \/ Update \/ SaveBegins \/ SaveEnds

Next ==
  \/ Start \/ Refresh \/ Tick \/ TakeTick \/ TakeStop
  \/ Stop \/ StopReturn
  \/ \E q \in Requests : BeginSync(q)
  \/ ReadCacheFile \/ PutCacheFile
  \/ PosChanges \/ Restart

Spec == Init /\ [][Next]_vars

\* Both goroutines run; a select that finds a tick and a closed channel again
\* and again takes each of them some time, as it chooses at random.  Nobody has
\* to call Stop, and no tick has to come.
Fairness ==
  /\ WF_vars(Refresh)
  /\ SF_vars(TakeStop)
  /\ WF_vars(StopReturn)

FairSpec == Spec /\ Fairness

-----------------------------------------------------------------------------
(* Properties. *)

\* When a refresh is over, each file and rooam_cache.json hold exactly what Get
\* returns, but for those whose write failed: over restarts within a write, and
\* although save runs outside the cache's lock.
CacheIsPersisted ==
  step = "select" =>
    /\ mem # Nothing
    /\ "cache" \notin errs => disk = mem
    /\ \A e \in Entities \ errs : file[e] = mem[e]

\* SyncAllEntities returns nil only if what the cloud then has of each entity
\* asked for is what its cache file was at some time during the call: nothing
\* older, nothing of another entity, and of none the file was missing.  The
\* content may be Torn, if the file was: it is not looked at before it is sent,
\* although the cloud expects a JSON array.
SuccessfulSyncIsFresh ==
  client.step = "ok" =>
    \A i \in 1..Len(client.q) :
      LET e == client.q[i] IN cloud[e] \in held[e] \ {Missing}

\* "Stop signals the agent to stop and waits for the current operation": once it
\* has returned, nothing of the cache changes, in memory or on disk.
NothingAfterStop ==
  [][caller = "returned" /\ caller' = "returned" => UNCHANGED stored]_vars

\* Stop does return, whatever ticks are due and whatever the readers do.
StopReturns == caller = "waiting" ~> caller # "waiting"
=============================================================================
