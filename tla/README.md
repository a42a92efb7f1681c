# Verification of the POSitouch integration agent

TLA+ models of the agent in this repository, the TLC runs that check them on
small instances, and TLAPS proofs of what matters most for every instance. Each
module is translated from the Go source; `PROJECT.json` maps every definition
to the lines it stands for.

## 1. The system

One process, `main.go`, runs on the POS's Windows machine beside POSitouch. It
talks to the POS through files and one external program, and to a cloud server
through HTTP. It can also serve the billing of the service (Stripe).

| component | state it keeps | operations | interacts with |
|---|---|---|---|
| order and payment pollers (`poller.go`) | none in memory but its goroutines; the queue is the cloud's | GET pending orders / payments, one goroutine per entry, PUT of the result | cloud; the injection directory |
| order injection (`driver/positouch/ordering.go`, `ordering/ordering.go`) | ORDER and OUT files in two directories | write `.tmp` and rename, poll for a confirmation every 2 s up to 30 s, remove it; local `POST /tickets` handler `CreateTicket` | POS, by files; pollers; ticket reader |
| ticket reader (`positouch/ticket_cache.go`) | none | scan open directory, scan closed directory, merge; match an order with its ticket | POS, by files |
| sync and upload loops (`main.go`) | what is still to upload | first sync, full sync every 30 min, tickets every 30 s, GET endpoints, `/api/v1/pos-data` store, shutdown | WExport, readers, cloud |
| WExport (`positouch/wexport.go`) | `wexportMu`, `set1.xml`, its copy | run the exporter with a 60 s limit, copy, parse | the full loop and every GET handler |
| billing server (`billing/`) | none; the cloud has the flag, Stripe the subscription | `POST /checkout`, `POST /webhook`, PATCH of the tenant | Stripe, cloud |
| agent, file cache, cloud client (`agent/`, `cache/`, `cloud/`) | `Cache.data`, `rooam_cache.json`, one cache file per list | Start, Stop, refresh, Update, Get; `SyncAllEntities` uploads cache files | POS, WExport, cloud; not imported by `main.go` at this commit |
| service wrapper, installer (`winsvc_*.go`, `installer/service.go`) | the SCM's view of the service | Execute, install, uninstall | SCM, `main` |
| wizard, config writer (`installer/`) | `rooam_config.json` | ask, write the file, enrol for a subscription, create the service; delete the file | billing server, SCM, the agent's next start |
| configuration (`config/`) | - | Load: parse, refuse, derive paths, defaults from the environment | everything |
| readers (`dbf/`, `positouch/`) | - | parse DBF and XML files | POS, by files; sync |
| MICROS driver, token providers, entities, exporter | - | stateless | - |

Which behaviours are hard:

* **Injection** is at-least-once on both sides. The cloud hands an entry out
  again until it has a result; every fetch starts a goroutine for it; the file
  exchange has no acknowledgement but the OUT file, found by reference number
  only; a timeout says nothing about what the POS did; the process may die
  between any two steps and leaves files behind.
* **Sync**: one external exporter and one copy of its file, shared by a loop and
  any number of HTTP handlers; the mutex covers the export and the copy but not
  the parse; two loops PUT the same entity; an agent stopped in its first sync
  works on beside the next one, with a mutex of its own.
* **Tickets**: two directories are scanned one after the other while the POS
  moves checks between them and rewrites one file in place.
* **Billing**: webhooks are repeated, reordered and concurrent; the PATCH may
  fail and is not retried.
* **Readers**: DBF files are read record by record, without a lock, while the POS
  appends and deletes; two lists come from one file at two moments, and a read that
  fails at any record empties its list.
* **Service and installer**: the service manager believes what `Execute` reports,
  and `Execute` returns before `main` does; install and uninstall are sequences of
  calls that can fail half way.
* **Configuration**: written in place by several programs, each with defaults of
  its own, while a service may be started at any moment and load what is there.
* **Agent**: a ticker and a stop channel that are ready together; cache files
  truncated and refilled while a client reads them; a save outside the lock whose
  error is only logged.

`PROJECT.json` lists each of these hazards at its line, with the properties that
would catch it.

## 2. Modules

| module | what it is |
|---|---|
| `Injection` | pollers, order and payment goroutines, the local handler, the file exchange, the POS, crashes |
| `InjectionContract` | what injection promises its requesters: tries, executions, answers; no files or timers |
| `InjectionProofs` | its invariant, its safety properties and the refinement of the contract |
| `Sync`, `SyncProofs` | loops, GET handlers, WExport, `set1.xml` and its copy, uploads, restarts |
| `Tickets`, `TicketsProofs` | the two scans, the merge, matching an order with a ticket, the POS's files |
| `Billing`, `BillingProofs` | checkout, webhooks, PATCHes, Stripe's deliveries |
| `Readers`, `ReadersProofs` | the DBF reader and the lists made with it, against a POS that writes; tables' revenue centers |
| `Service`, `ServiceProofs` | the SCM, the agent's processes (`Execute` and `main`), the service calls of install and uninstall |
| `Config` | operators: the configuration that each program writes, and what `Load` makes of it |
| `Installation`, `InstallationProofs` | `Service` composed with the configuration file, the wizard, config_writer and the agent that loads the file |
| `Agent`, `AgentProofs` | refreshes, the cache in memory and on disk, Stop, and the client that uploads cache files |
| `MCInjection`, `MCSync`, `MCTickets`, `MCBilling`, `MCReaders`, `MCInstallation`, `MCAgent` | the instances TLC checks; values are in the `.cfg` files |

Operators whose comment begins with "Mutant:" are plausible mistakes of the
code next to the definition they would replace. They take part in no
specification; they show that each property can fail.

### Injection

A request stands for its reference number. `<<r, k>>` is the k-th attempt at
request r: one goroutine, one ORDER file (its random suffix is taken to be
fresh), at most one OUT file. The POS writes the reference number into the OUT
file, not the suffix, so attempts of one request cannot tell their
confirmations apart: `FindConfirmation` returns any of them.

| action | code |
|---|---|
| `Fetch`, `SkipMalformed`, `DispatchOrder`, `DispatchPayment` | `pollPendingOrders`, `pollPendingPayments`; a payment's file is written by the poller, an order's by its goroutine |
| `PostLocal` | `ordering.CreateTicket` |
| `WriteOrderXML` | `.tmp` and rename, either may fail |
| `Poll`, `Timeout`, `RemoveConfirmation` | `FindConfirmation` and the loops of `CreateOrder` and `reportPaymentResult`: the last sleep may end after the deadline, and then nothing looks again |
| `PutResult` | the single PUT; its failure is only logged |
| `PosExecute`, `Crash` | the POS; death of the process or `main` returning without waiting |

`InjectionContract` knows three things: which attempts were `started`, how the POS
`executed` them, and what a requester has `heard`. `Injection` instantiates it
`WITH heard <- answer, started <- tries, executed <- ledger`; directories,
timers and goroutines disappear under the mapping.

`Injection` takes the poll as one step. The directory listing and the reads of
its files are not atomic in the code; files only appear complete (the POS) or
vanish (a scan that took them), and a scan skips what it cannot read, so the
scan may be taken to happen where the file it returns is read.

### Sync

The POS data is a version that grows; a file has a version, or is `Torn` or
`Missing`. `LockAndExport`, `ExportDone`, `ExportFails`, `OpenAndCreate` and
`Copy` are `RunWExportAndCopySet1`; `ParseHead` and `ParseTail` are the two
moments at which the parse reads the shared copy; `SyncTickets`, `PutEntities`,
`PutTickets` and `EndOfRound` are the loops of `main.go`; `Begin` is a tick or a
request, `Respond` the end of one. Both loops and the handlers are in one
instance, because their meeting is the hazard.

`Agents` are the names of the processes alive at one time, `current` the one the
service runs in. `StartAgent` kills every WExport, as `main` does with `taskkill`,
once; `Crash` leaves a running one behind. `StopInFirstSync` is what `Service`
calls a leaver: `Execute` has returned, the service counts as stopped and may be
started again, while the process goes on with its sync until `EndOfRound`. Each
process has its own mutex (`holder[a]`), all share the files: two exports may then
write `set1.xml` together, and what they leave may be torn (`Exported`, `Copies`).
`own`, `copier` and `left` are histories the properties are stated with: `own[w]` is
the version of the POS data when w's export began, as long as w's agent is alone.

### Tickets

Time is counted in ticks; `Skew` is local time minus UTC, because opening times
are written in local time and parsed as UTC. `ScanStart`, `ScanDir` (twice) and
`ScanEnd` are `ReadAllTickets` with `findMatchedTicket` on its result. The POS
rewrites its file of open checks (`PosTruncate` until `PosOpen` or `PosDrop`)
and writes a final file before it drops a check (`PosFinalise`).

### Billing

The k-th thing Stripe reports about tenant t is the event `<<t, k>>`. `Checkout`
is `POST /checkout`; `Accept` and `Handle` are `handleWebhook` up to and after
the signature check; `Handle` either sends the PATCH, fails to (done by the cloud
or not), or has nothing to send. `Answered` gives Stripe the 200 or loses it.
`upToDate[t]` says that the last PATCH for t succeeded and was that of the newest
event that sends one (history). A delivery whose signature is stale or wrong is answered 401 and changes nothing.

### Readers

A record is its position in the file, with the class of its code (`PY`, `CC`),
whether it has a name, and its deletion flag. `OpenFile` is `os.Open` and the
header, `ReadRecord` one turn of the loop of `readFromReader` with the filters of
the reader that called it, `EndOfRecords` its exit (all counted, or `io.EOF`).
A file that is there may still fail to open or to be read in its header
(`OpenFile`), and a read may fail at any record (`ReadFails`): in each case the
error is only logged by the caller and the list is empty; `failed` remembers which
lists of the snapshot met that (history).
`Order` is the order of the calls in `SyncEntities`, `Source` the fallback to
`NAMES.DBF`, `NoEmployees` the early return of `ReadEmployees`. `ParseTables`
takes any export and decides each table as it comes (`Section`): the slot a
position stands for is found by counting the slots that are not blank (`Kept`,
`Place`), which is what dropping the blank ones from a list comes to; `MCReaders`
assumes that it is, and TLC compares the two for every list of its instance. The
POS appends a record and counts it in the header, in
either order (`PosAppend`, `PosCount`), and flags records (`PosDelete`).

### Service

A process has two threads of control: `ReportRunning`, `ReceiveStop` and
`ExecuteReturns` are `Execute`, after which `svc.Run` reports the service as
stopped; `FirstSyncEnds`, `Listen` and `WaitForStop` are `main`, which looks at
the stop channel only after the first sync. `Listen` ends the process when :8080
is taken (`log.Fatalf`). `CreateService`, `StartService`, `ControlStop`,
`WaitStopped` and `DeleteService` are the installer's calls, of which `Start`
and `Control` may fail; `Launch`, `SendStop` and `Stopped` are what the SCM does.

### Config and Installation

A configuration keeps what decides whether an agent can run and under which
identifiers: POS type, location name and id, the path of spcwin.exe, presence of
the MICROS block. `WizardConfig` and `WriterConfig` are what the two programs
make of their answers and flags, `Loads` the errors of `config.Load`, `Load` its
result, `HasDriver` the switch in `main`, `PollId` the id the pollers use.

`Installation` extends `Service`. `RunWizard` and `RunConfigWriter` open the file,
which truncates it (`Torn`); `Write` completes it or ends the command with the
error; `Enroll` asks for a checkout session and passes over a failure; `Confirm`
is the question before `CreateService`; `Abort` is the operator leaving at any
prompt; `Cleanup` the offer of `uninstall` to delete the file. `LoadConfig` comes
before everything else in `main`: a file that is missing, cut off or refused, or
a POS without a driver, ends the process. A user may start the service at any
time, so also in the middle of a write. `ServiceSpec` says that the whole still
behaves as `Service` alone.

### Agent

The POS data is a version, as in `Sync`. `ReadTables`, `ReadList`, `CreateFile`
and `EncodeFile` are one list of `refresh`, in the order of `Order`; `Update`,
`SaveBegins` and `SaveEnds` are `Cache.Update`, whose save comes after its lock.
`Tick`, `TakeTick`, `TakeStop` are the `select`; `Stop` closes the channel and
`StopReturn` is its receipt of `done`. `BeginSync`, `ReadCacheFile` and
`PutCacheFile` are `SyncAllEntities`. `Restart` ends the process anywhere. The
lists written to `.json` are not found by the client, which looks for `.cache`:
a call that names one ends there. `held[e]` is the set of what e's cache file has
been since the client's call began (history).

## 3. Runs

| run | instance | question and result |
|---|---|---|
| `injection_mixed` | two orders, a payment, two local posts, two of them undecodable; 1 attempt, 1 crash | different kinds of request share a directory: answers are genuine, no poll overlooks a confirmation, the exchange refines `InjectionContract` |
| `injection_overlap` | one order and an undecodable one, 2 attempts, 2 polls, 2 crashes | overlapping attempts, lost results, restarts: what a sole attempt may be believed, executions per attempt, no lost verdict, attempts end, the queue drains |
| `injection_payment_dir` | one payment, the documented directories | **violation**: payments look in the wrong directory |
| `sync_loops` | two agents, both loops and a handler, 1 change, 1 death or stop in the first sync | one WExport at a time, but for agents stopped in their first sync; an undisturbed sync reads its own export, a disturbed one nothing older; the mutex is always granted; the cloud's tickets catch up |
| `sync_private_copy` | one agent, without deaths | **violation**: another caller rewrites the copy during the parse |
| `tickets_scan` | 2 checks, 2 tables, 3 instants, local time one ahead of UTC | no check is lost between the scans; the order finds a ticket if its own check is young |
| `tickets_match` | 2 checks at one table | **violation**: an order is answered with somebody else's check |
| `billing_events` | a tenant with 3 events, one event without location_id | who may be active after repeated, reordered and failed deliveries; the newest event decides if its PATCH was the last; every event is acknowledged |
| `billing_payment_failed` | a tenant | **violation**: a failed payment does not deactivate |
| `readers_while_written` | every subset of the files, 3 writes of the POS, a failure of any read, 2 revenue centers | a list whose file could be read has every row that was complete and none that was deleted when its header was read, any other has none; order types have their cost centers, if those could be read; tables get the name of their slot |
| `service_lifecycle` | 2 processes, 3 sets of answers, 3 of flags | who may run beside the current agent, that it leaves, and that a deleted service disappears; that a service is installed only beside a file its agent can run with; that the agent polls with the id that was enrolled; that the composition implements `Service` |
| `agent_stops` | 2 lists, one through WExport; 1 change, 2 failures or restarts | disk and memory agree but for failed writes; a successful upload is what the files were during the call; Stop returns; nothing is written after it |

Why the bounds are enough. Two attempts of one request are the least that can
take each other's confirmation, and two crashes let both die at different
points; one request of each kind is enough for kinds to meet, as no rule relates
more than two files. One handler beside the full loop gives two contenders for
the mutex and the copy, and so does the main goroutine of a second agent; two
versions tell old from new. `MaxEnds` = 1 lets an agent die anywhere, or be stopped
in its first sync and meet the next one; `MaxSyncs` = 2 calls of `SyncEntities` at a
time are the least that meet, and `SyncProofs` needs neither bound. Two checks are the order's and another.
Three events subscribe twice and cancel once. Three writes append, count and
delete one record; the names of revenue centers are interchangeable (`SYMMETRY`,
sound as no liveness is checked there). Two processes overlap, over an uninstall and a new install too;
three take TLC beyond its time, and the theorems hold for any number. The
answers and flags have each way in which the id, the path or the POS type is
left to a default or is wrong. Two lists are enough to put a failure between
them, and two failures let one spoil a file and another end the process. The
proofs drop these bounds for
the safety properties; liveness is checked within them.

Bounds are named `MaxTries`, `MaxCrashes`, `MaxChanges`, `MaxTime`, `MaxEvents`,
`MaxSlots`, `MaxProcesses`, `MaxFaults`, `MaxEnds`, `MaxSyncs`.
`MaxTries` also keeps losses of results and crashes to states where each
pending request has another attempt: with unbounded attempts it always has.
Deadlock is checked in every run but four: those of `Tickets` and `Billing` stop
when time or events run out, and `injection_payment_dir` checks one property only
(`CHECK_DEADLOCK FALSE`).

## 4. Fairness

* Injection: goroutines run, the pollers are called again and their GET works
  in the end. No fairness of the POS, and none of crashes: a request is
  answered by a timeout if the POS is silent.
* Sync: goroutines run; `sync.Mutex` does not starve a waiter (strong fairness
  of `LockAndExport`; Go's mutex hands over to a waiter after 1 ms); the 60 s
  context ends a hung WExport; **a PUT ends**, and one that is tried again and
  again gets through. `http.DefaultClient` has no timeout, so the code does not
  enforce that a PUT ends: it is an assumption. A restart is not assumed.
* Billing: handlers end (the HTTP client has a 10 s timeout), and Stripe delivers
  until a delivery is accepted and an answer arrives.

* Installation: both threads of a process run, and a first sync ends (its PUTs are
  the assumption above). Operators, users, boots, deaths and the installer are not
  fair: it may be left at any prompt.
* Agent: `refresh` and `Stop` go on; `select` chooses at random among the channels
  that are ready, so that it takes a closed one in the end whatever ticks are due
  (strong fairness of `TakeStop`). Nobody has to call Stop, and no tick comes.

## 5. Proofs

Each `...Proofs` module proves an inductive invariant, one lemma per action, and
derives the theorems from it. The assumptions are the `ASSUME`s of the module:
kinds of request are disjoint, bounds are natural numbers, markers differ from
versions, `Unread` is no set of rows.

* **InjectionProofs.** `AnswersAreGenuine` alone is not inductive: it needs to
  know where verdicts come from. `IInv` says that an attempt not yet started has
  no file and no execution (`FreshInv`), an ORDER file has not been executed and
  an OUT file has (`FilesInv`), what an attempt holds is a confirmation of its
  own request (`HeldInv`), a result to be reported is covered by the ledger
  (`ResultInv`), and an answer is one the contract allows (`AnswerInv`). Proved:
  `TypeCorrect`, `Genuine`, `ExecutedOnce`, `VerdictsKept`, `SoleAttempt`,
  `PollsAreReliable` (if the two directories are one, or there are no payments),
  and `Refinement`: every step is a step of `InjectionContract` or a stutter. From
  the same invariant: `PaymentsNeverConfirmed` (if they are two, no payment is ever
  reported as paid or rejected: what `injection_payment_dir` shows of one payment
  holds of all), `MalformedNeverRuns`, and `ExecutionsAreBounded` (the executions
  of a request are mapped one to one into the attempts it was handed out for).
* **SyncProofs.** `IInv`: an agent that lives and is not the current one was told to
  leave (`ProcInv`); each mutex is held by the worker of its process that is between
  export and copy (`HolderInv`); a WExport belongs to a worker that waits for it or to
  a process that is gone, and its agent is the current one or was told to leave
  (`ExesInv`); a worker whose export counts has met no other agent (`CrossInv`); and
  whatever the copy, the half-read and the snapshot of such a worker hold, it is no
  older than its own export (`FreshInv`). `UndisturbedInv` adds whose export is in the
  copy. Proved: `SyncTypeCorrect`, `OneExport` (a second WExport on the machine is
  always that of an agent stopped in its first sync), `NeverOlder`,
  `UndisturbedSyncReadsItsExport`, and `LoneSyncReadsItsExport`: with no handlers the
  property that `sync_private_copy` refutes holds, so the requests alone cause it.
  `MutexNeverLeaks`: a mutex that is held is held by somebody alive.
* **TicketsProofs.** `ScanInv` relates what a scan has found to what existed when
  it began: what is missing from the first directory is in the second. `OursInv`
  follows the order's check: it stays at its table, is listed or final from the
  moment it exists, and was there when the scan of a confirmed order began.
  Proved: `TicketsTypeCorrect`, `NoneLost`, `ClosedWins` (a check that the scan met in
  both directories is reported as closed), `OwnIsFound` where local time is not behind
  UTC, `AloneIsMatched` (when the promise that `tickets_match` refutes is kept),
  `WindowIsShifted` (the window in force is the match window plus the offset), and
  `WestOfUtcNothingMatches`: with local time behind UTC by more than the match window
  no order is ever answered with its ticket, so the assumption `Skew >= 0` of
  `OwnIsFound` is needed, and restaurants in America do not meet it.
* **BillingProofs.** Events that are delivered were reported (`ReportedInv`), so
  the log entry a handler reads is there and stays: enough for
  `BillingTypeCorrect` and `NoFreeTenant`. That the newest event decides needs
  `OrderInv` as well. A reported event is on its way or was handled, and what was
  handled and sends a PATCH is not later than `top` (`HandledInv`). While the last
  PATCH is that of `top`, the flag is what the log says up to it (`FlagInv`). What the
  log says (`Subscribed`: a payment, and no cancellation after it) is related to the
  subscriptions that are paid for (`LiveInv`), and events behind `top` that send
  nothing do not change it (`SubscribedSkip`). Proved from it: `NewestFlagFollowsLog`,
  which gives the exact flag of a tenant who is up to date, and `NewestEventDecides`.
  Failed payments do not occur in `Subscribed`, which is the disagreement of
  `billing_payment_failed` for all logs.
* **ReadersProofs.** A file only grows while it is read, and a deletion is never
  taken back (`Grown`, one lemma for all writes of the POS). `IInv` says what the
  reader knew when it read a header (`KnownInv`), that the rows taken so far are
  the wanted ones among the records behind it (`ReadingInv`), that lists not yet
  read are unknown (`PhaseInv`), and that every order type not deleted since is
  among the records the cost centers are read from (`OrderTypesInv`); reads may fail
  at any record, and a list that failed is empty. `TableInv`
  is about the tables, parsed after the lists: a name stands at one position only,
  as the number of slots kept before it grows with the slot (`KeptIs`, counted with
  cardinalities and no induction). Proved: `ListsStayExact`,
  `OrderTypesHaveCostCenters`, `ReadersTypeCorrect`, `SectionsAreSlots`.
* **ServiceProofs.** Processes are numbered in the order of their start, and those
  to come are fresh (`FreshInv`); `Execute` returns only after it closed the
  channel (`ToldInv`); the SCM stops counting on a living process only after
  `Execute` returned (`LeaverInv`). `ViewInv` adds that the state the SCM believes in
  is where its process's `Execute` stands (`ScmInv`), and that a Stop is sent only to
  an `Execute` that runs (`ChannelInv`). Proved: `ServiceTypeCorrect`,
  `OnlyToldAgentsOverlap`, `ScmKnowsTheLiving`, `NoStopIsForgotten`.
* **InstallationProofs.** First that every step of the installation is a step of
  `Service` or a stutter (`ImplementsService`), so that what is proved of the
  service holds here too (`InstalledAgentsOverlapOnlyLeaving`,
  `InstalledLeaversAreTold`). `SetupInv` then says
  which command holds which draft and that the file is that draft from the write
  to the installation (`CommandInv`), what agents have loaded (`LoadedInv`), and
  that nothing is enrolled while the file is written (`EnrolledInv`);
  `WizardLoads` shows that no answer makes the wizard write what `Load` refuses.
  Proved: `InstallationTypeCorrect`, `InstallIsLoadable`, `EnrolledIdIsPolled`. They
  need a proposed path that is not blank: `detectSpcwinPath` never returns one.
* **AgentProofs.** `WrittenInv` says which files of the running refresh already
  hold what it read; `HeldInv` that what a cache file is now is among what it has been
  in this call of the client, and `ClientInv` that what the client sends and has sent
  is too. Proved: `AgentTypeCorrect`, `Persisted`, `SyncIsFresh`, `StopIsFinal`, for any
  lists, requests and bounds.

The safety half of liveness. Most of the liveness properties rest on two facts that
are safety properties, and those are proved for every value of the constants:
whoever has to go on is never stuck, and each step it takes lowers a bound.

| liveness property | proved of it |
|---|---|
| `AttemptsEnd` | `AttemptsAreNeverStuck`; `AttemptsMoveOn`: at most `Polls` + 5 steps |
| `MutexIsGranted` | `MutexNeverLeaks`; `HolderReleases`: at most three steps of the holder |
| `LeaversLeave`, `UninstallCompletes` | `NoStopIsForgotten`; `ScmKnowsTheLiving`: a marked service has a living process to wait for |
| `StopReturns` | `RefreshEnds`: at most 3 steps for each list and 3 for the cache |

What is left to TLC is that fairness turns them into progress.

Only model-checked: the liveness properties (`AttemptsEnd`, `QueueDrains`,
`MutexIsGranted`, `TicketsCatchUp`, `EveryEventIsAcknowledged`, `LeaversLeave`,
`UninstallCompletes`, `StopReturns`), as the prover reaches neither fairness nor
`ENABLED`; and that `Place` is the position in the list without its blank slots,
which is a statement about `SelectSeq` that needs induction (`PlaceIsPosition` in
`MCReaders`). Every other property of a run that passes is a theorem.

## 6. Disagreements found

1. `poller.go:214` - payments poll the directory they write ORDER files to;
   the POS confirms in another one in the documented configuration.
2. `positouch/wexport.go:59` - the copy of `set1.xml` is made "so no other
   process can overwrite it before we read it", but it is parsed outside the
   mutex and every GET rewrites it.
3. `driver/positouch/ordering.go:112` - the first young ticket of the table in a
   Go map's order is taken for the new one.
4. `billing/server.go:177` - `invoice.payment_failed` has no case.

Met on the way, without a run:

* `positouch/ticket_cache.go:231` - `README.md:288` says of the merge "open wins over
  closed"; in the code the closed entry wins (`ClosedWins`). A check that was
  finalised between the scans is thus reported as closed, as it is by then.
* `positouch/wexport.go:25` - "a package-level mutex ensures only one WExport.exe runs
  at a time": in one process. The agent that was stopped in its first sync (see
  `winsvc_windows.go:74` below) may start another WExport beside the new agent's, after
  the `taskkill` of `main.go:98`, which runs once; both then write `set1.xml` and
  its copy. `ExclusiveExport` names this one exception.
* `billing/server.go:190` - `README.md:380` says that cancellation "deactivates the
  tenant automatically": not when an older event is handled after it (redelivered, or
  handled concurrently) or when its own PATCH failed, which is logged, answered 200 and
  never repeated. `NewestDecides` says what remains true.
* `cloud/cloud_sync.go:38` - "your cloud expects the body to be a JSON array": the body
  is whatever the file holds, and the file is truncated and refilled in place by
  `agent.writeJSON` (`agent/agent.go`) without a lock. Half a list is sent, and reported
  as success if the cloud takes it. `SuccessfulSyncIsFresh` therefore admits `Torn`.
* `positouch/ordertypes_test.go` expects order types from `MENUS.DBF`
  (fields `MenuNumber`, `Title`); `positouch/ordertypes.go` reads `NAMECC.DBF`, and so does
  the model.
* A read error empties a list (`driver/positouch/sync.go:26-44` logs it and goes on), and
  the empty list is uploaded like any other: the cloud cannot tell "none" from
  "not read". `ListsAreExact` says that nothing else than empty comes of it.
* `positouch/tables.go:48` drops blank slots before positions count, so tables get
  a wrong name behind a blank slot (`SectionIsItsSlot` is stated up to it).
* `positouch/ordertypes.go` has no fallback to `NAMES.DBF`, as the other two
  readers of that data have.
* `installer/service.go:64` "stops and removes" the service, but an error of
  `Control` (the service is still starting) skips the stop: the agent runs on in
  a service marked for deletion (`UninstallCompletes` asks for an accepted Stop).
* `winsvc_windows.go:74` - a stop during the first sync makes the service startable
  while its process lives; the new agent then ends itself at the taken port.
* `positouch/tables_test.go` calls `ReadTables`, which does not exist.
* `main.go` starts neither poller nor the `POST /api/v1/tickets` route that
  `README.md` describes (startup step 5, local API).
* The POSitouch configuration of the root `README.md` cannot be loaded: it has no
  `positouch.spcwin_path`, which `config.Load` requires, and its `xml_in_order_dir`
  is `xml_inorder_dir` in `config/config.go:107`.
* `main.go:88` uploads under the location's name; pollers and enrolment use the
  location id (`EnrolledIsPolled` speaks of the pollers).
* `installer/wizard.go:372` offers "leave blank to enroll later", but `prompt` turns
  a blank answer into the default address.
* The wizard (`C:\SC\XMLIN`) and config_writer (`C:\SC\INORDER`) propose different
  directories; config_writer takes any POS type and a blank path, and so writes
  files that `Load` or `main` refuse. `InstalledAgentCanLoad` holds of `install`, not
  of a service that was there before config_writer ran.
* A full preflight of the wizard's configuration always reports an empty `dbf_dir`:
  only `Load` derives it.
* `cache.Update` "atomically replaces all cached data and flushes to disk"; the
  flush is outside the lock and in place. With one writer, the agent's, memory and
  disk agree (`CacheIsPersisted`).
* Nothing creates `data_cache`, so its writes fail unless somebody did; `cache.New`
  does not load `rooam_cache.json`; the client looks for `.cache` files where menu
  items, modifiers and categories are `.json`.
* `agent.go`'s `wexportMu` is another mutex than `positouch`'s: were both in one
  process, they would not exclude each other.
* `mapEmployees` (`driver/positouch/sync.go:75`) drops the status that
  `ReadEmployees` looked up.

## 7. What the models assume of code they do not contain

* The pollers are called again after the previous call returned; neither they nor
  `CreateTicket` has a caller in `main.go`.
* The cloud returns exactly the entries without a result, and the reference
  number in an entry's envelope is the payload's.
* The POS takes an ORDER file once, writes complete OUT files into `XMLDir`,
  never reuses their names, and writes a final check before it drops the open one.
* Renaming is atomic, and `taskkill` ends every WExport.EXE.
* An agent told to stop in its first sync does not come to serve requests: `main`
  starts its HTTP server, but finds the stop channel closed at once and returns (and
  the port is taken if another agent serves). An agent told to stop later ends
  at once, which `Crash` covers. An agent run by hand on a console beside the service
  is not modelled; it would be a second process for good.
* `os.Stat` of a DBF file tells whether it exists; opening and reading it may fail.
* A PATCH is done by the cloud before its handler ends, or never.
* The POS appends one record of a DBF file at a time, never packs a file or takes a
  deletion back while it is read.
* All programs use one `rooam_config.json`, and one installer command runs at a time.
* `Agent.Start` is called once, in a goroutine, and `Stop` once after it.
* The SCM numbers and starts one process at a time, accepts Stop from the moment
  `Execute` reports Running, and removes a marked service when its process stops.

## 8. Not modelled, and what is left

Not modelled, and why:

* **The `/api/v1/pos-data` store** (`main.go:225-265`): a map without a lock that HTTP
  requests of other machines write and read. Its data race is listed as a hazard;
  nothing in this repository writes what it serves, so no property relates
  it to anything else.
* **MICROS 3700**: `odbc_windows.go` and `sybase_entities.go` both define
  `syncEntitiesODBC` under `windows && cgo`, so that build does not compile. The
  other one returns empty lists, and `CreateOrder` always refuses: no state evolves.
* **Menu and employee details in `Readers`**: one parse of one file, and the lookup
  of a status whose result is dropped.
* **Configuration**: derived directories and the choice among Stripe credentials,
  which no modelled decision depends on. Preflight, connectivity, check and
  activate only report.
* The layout of XML and JSON, logging, HMAC arithmetic (a delivery is genuine or
  refused), token providers (a constant, an unimplemented stub), data types, the
  exporter tool.

Left for proofs: abstract specifications of `Sync` and `Agent` like the one of
`Injection` (what a caller of `SyncEntities` or of `SyncAllEntities` is promised).
