----------------------------- MODULE Injection -----------------------------
(***************************************************************************)
(* Order and payment injection into POSitouch: the two cloud pollers       *)
(* (poller.go), the goroutine each pending order or payment gets, the      *)
(* local HTTP order handler (ordering.CreateTicket), and the file exchange *)
(* they all share: ORDER*.XML files dropped into the inbound directory,    *)
(* OUT*.XML confirmations looked up by reference number and removed.       *)
(*                                                                         *)
(* A request stands for its reference number.  The k-th time the agent     *)
(* starts to work on request r is the attempt <<r, k>>; its random file    *)
(* suffix is taken to be fresh, so an attempt also names its ORDER file    *)
(* and the confirmation the POS writes for that file.  A confirmation      *)
(* carries the reference number only: attempts of one request cannot tell  *)
(* their confirmations apart.                                              *)
(***************************************************************************)
EXTENDS Naturals

CONSTANTS
  Orders,         \* requests of the cloud's tickets/pending queue
  Payments,       \* requests of the cloud's payments/pending queue
  Locals,         \* orders posted to the agent's own HTTP handler
  Malformed,      \* requests whose payload does not decode or validate
  XmlDir,         \* cfg.XMLDir, where the POS writes its OUT files
  XmlInOrderDir,  \* cfg.XMLInOrderDir, where ORDER files are dropped
  Polls,          \* confirmation polls before the deadline (30s / 2s in the code)
  MaxTries,       \* bound: attempts explored per request
  MaxCrashes      \* bound: crashes of the agent explored

Requests == Orders \cup Payments \cup Locals

ASSUME RequestsAssumption ==
  /\ Orders \cap Payments = {} /\ Orders \cap Locals = {} /\ Payments \cap Locals = {}
  /\ Malformed \subseteq Requests

ASSUME BoundsAssumption ==
  /\ Polls \in Nat \ {0}
  /\ MaxTries \in Nat \ {0}
  /\ MaxCrashes \in Nat

VARIABLES
  answer,   \* answer[r]: last result the requester received, "none" if none
  batch,    \* entries of a GET .../pending response not yet handed out
  tries,    \* tries[r]: attempts started for r
  job,      \* job[a]: the goroutine (or handler) working on attempt a
  inbox,    \* ORDER files in XmlInOrderDir, by attempt
  outs,     \* OUT files in XmlDir
  ledger,   \* everything the POS executed
  crashes   \* crashes so far

vars == <<answer, batch, tries, job, inbox, outs, ledger, crashes>>

Attempts == Requests \X (1..MaxTries)
Confirmations == [att : Attempts, ok : BOOLEAN]
Phases == {"idle", "write", "poll", "found", "put", "done", "dead"}
Results == {"created", "paid", "rejected", "timeout", "unwritten", "invalid"}
Job == [pc : Phases, left : 0..Polls, held : SUBSET Confirmations,
        result : Results \cup {"none"}]

Request(a) == a[1]

NoJob == [pc |-> "idle", left |-> 0, held |-> {}, result |-> "none"]

TypeOK ==
  /\ answer \in [Requests -> Results \cup {"none"}]
  /\ batch \subseteq Orders \cup Payments
  /\ tries \in [Requests -> 0..MaxTries]
  /\ job \in [Attempts -> Job]
  /\ inbox \subseteq Attempts
  /\ outs \subseteq Confirmations
  /\ ledger \subseteq Confirmations
  /\ crashes \in 0..MaxCrashes

Init ==
  /\ answer = [r \in Requests |-> "none"]
  /\ batch = {}
  /\ tries = [r \in Requests |-> 0]
  /\ job = [a \in Attempts |-> NoJob]
  /\ inbox = {}
  /\ outs = {}
  /\ ledger = {}
  /\ crashes = 0

-----------------------------------------------------------------------------
(* What the code decides from what it reads. *)

\* The directory searched for r's confirmation: the payment poller passes on
\* the directory it wrote the ORDER file to.
SearchDir(r) == IF r \in Payments THEN XmlInOrderDir ELSE XmlDir

\* Mutant: the scan does not compare reference numbers.
AnyConfirmation(dir, r) == {c \in outs : dir = XmlDir}

\* Mutant: the scan gives up at the first file of another request.
FirstFileOnly(dir, r) ==
  {c \in outs : dir = XmlDir /\ \A d \in outs : Request(d.att) = r}

\* The OUT files a scan of dir can return for r: any file with its reference.
FindConfirmation(dir, r) == {c \in outs : dir = XmlDir /\ Request(c.att) = r}

\* Mutant: the response code is not looked at.
AlwaysSuccess(r, c) == IF r \in Payments THEN "paid" ELSE "created"

\* The result reported for a confirmation: ResponseCode 0 is success.
Verdict(r, c) ==
  IF ~c.ok THEN "rejected" ELSE IF r \in Payments THEN "paid" ELSE "created"

\* Starting to poll: the deadline is set once, when the file is written.
Polling == [NoJob EXCEPT !.pc = "poll", !.left = Polls]

\* Reporting that the ORDER file could not be written.
Unwritten == [NoJob EXCEPT !.pc = "put", !.result = "unwritten"]

-----------------------------------------------------------------------------
(* The pollers. *)

\* GET .../pending: the queue's unanswered entries, as of now.
Fetch(queue) ==
  LET pending == {r \in queue : answer[r] = "none" /\ tries[r] < MaxTries}
  IN  /\ batch \cap queue = {}
      /\ pending # {}
      /\ batch' = batch \cup pending
      /\ UNCHANGED <<answer, tries, job, inbox, outs, ledger, crashes>>

\* An entry whose payload does not unmarshal is logged and skipped.
SkipMalformed(r) ==
  /\ r \in batch \cap Malformed
  /\ batch' = batch \ {r}
  /\ UNCHANGED <<answer, tries, job, inbox, outs, ledger, crashes>>

\* The next attempt of r starts as job j.
Start(r, j) ==
  /\ tries[r] < MaxTries
  /\ tries' = [tries EXCEPT ![r] = @ + 1]
  /\ job' = [job EXCEPT ![<<r, tries[r] + 1>>] = j]

\* An order gets its goroutine, which writes the ORDER file itself.
DispatchOrder(r) ==
  /\ r \in (batch \cap Orders) \ Malformed
  /\ Start(r, [NoJob EXCEPT !.pc = "write"])
  /\ batch' = batch \ {r}
  /\ UNCHANGED <<answer, inbox, outs, ledger, crashes>>

\* A payment's file is written by the poller; the goroutine only reports.
DispatchPayment(r) ==
  /\ r \in (batch \cap Payments) \ Malformed
  /\ \/ Start(r, Polling) /\ inbox' = inbox \cup {<<r, tries[r] + 1>>}
     \/ Start(r, Unwritten) /\ inbox' = inbox
  /\ batch' = batch \ {r}
  /\ UNCHANGED <<answer, outs, ledger, crashes>>

\* A local POST is answered 400 at once, or runs like an order.
PostLocal(r) ==
  /\ r \in Locals
  /\ \/ /\ r \in Malformed
        /\ answer' = [answer EXCEPT ![r] = "invalid"]
        /\ UNCHANGED <<tries, job>>
     \/ /\ r \notin Malformed
        /\ Start(r, [NoJob EXCEPT !.pc = "write"])
        /\ UNCHANGED answer
  /\ UNCHANGED <<batch, inbox, outs, ledger, crashes>>

-----------------------------------------------------------------------------
(* One attempt. *)

\* Mutant: the file is in place and an error is reported all the same.
WriteThenFail(a) ==
  /\ job[a].pc = "write"
  /\ job' = [job EXCEPT ![a] = Unwritten]
  /\ inbox' = inbox \cup {a}
  /\ UNCHANGED <<answer, batch, tries, outs, ledger, crashes>>

\* Mutant: the write is repeated after it succeeded.
WriteAgain(a) ==
  /\ job[a].pc = "write"
  /\ job' = [job EXCEPT ![a] = Polling] \/ job' = job
  /\ inbox' = inbox \cup {a}
  /\ UNCHANGED <<answer, batch, tries, outs, ledger, crashes>>

\* Write the temporary file and rename it into place; both can fail.
WriteOrderXML(a) ==
  /\ job[a].pc = "write"
  /\ \/ job' = [job EXCEPT ![a] = Polling] /\ inbox' = inbox \cup {a}
     \/ job' = [job EXCEPT ![a] = Unwritten] /\ inbox' = inbox
  /\ UNCHANGED <<answer, batch, tries, outs, ledger, crashes>>

\* Mutant: the loop does not look at the clock.
PollPastDeadline(a) ==
  LET found == FindConfirmation(SearchDir(Request(a)), Request(a))
  IN  /\ job[a].pc = "poll"
      /\ \/ \E c \in found :
              job' = [job EXCEPT ![a].pc = "found", ![a].held = {c}]
         \/ found = {} /\ job' = [job EXCEPT ![a].left = @ - 1]
      /\ UNCHANGED <<answer, batch, tries, inbox, outs, ledger, crashes>>

\* Mutant: the deadline is computed anew on every pass of the loop.
PollMovingDeadline(a) ==
  LET found == FindConfirmation(SearchDir(Request(a)), Request(a))
  IN  /\ job[a].pc = "poll" /\ job[a].left > 0
      /\ \/ \E c \in found :
              job' = [job EXCEPT ![a].pc = "found", ![a].held = {c}]
         \/ found = {} /\ job' = [job EXCEPT ![a].left = Polls]
      /\ UNCHANGED <<answer, batch, tries, inbox, outs, ledger, crashes>>

\* A poll before the deadline: take the first matching OUT file, or sleep.
Poll(a) ==
  LET found == FindConfirmation(SearchDir(Request(a)), Request(a))
  IN  /\ job[a].pc = "poll" /\ job[a].left > 0
      /\ \/ \E c \in found :
              job' = [job EXCEPT ![a].pc = "found", ![a].held = {c}]
         \/ found = {} /\ job' = [job EXCEPT ![a].left = @ - 1]
      /\ UNCHANGED <<answer, batch, tries, inbox, outs, ledger, crashes>>

\* Mutant: the goroutine returns at the deadline without a report.
SilentTimeout(a) ==
  /\ job[a].pc = "poll" /\ job[a].left = 0
  /\ job' = [job EXCEPT ![a].pc = "done", ![a].result = "timeout"]
  /\ UNCHANGED <<answer, batch, tries, inbox, outs, ledger, crashes>>

\* The deadline passed during the last sleep: no final look at the directory.
Timeout(a) ==
  /\ job[a].pc = "poll" /\ job[a].left = 0
  /\ job' = [job EXCEPT ![a].pc = "put", ![a].result = "timeout"]
  /\ UNCHANGED <<answer, batch, tries, inbox, outs, ledger, crashes>>

\* Mutant: every file with the reference number is removed.
RemoveAllConfirmations(a) ==
  /\ job[a].pc = "found"
  /\ \E c \in job[a].held :
       job' = [job EXCEPT ![a].pc = "put", ![a].result = Verdict(Request(a), c)]
  /\ outs' = {c \in outs : Request(c.att) # Request(a)}
  /\ UNCHANGED <<answer, batch, tries, inbox, ledger, crashes>>

\* os.Remove of the file that was read; its failure is only logged.
RemoveConfirmation(a) ==
  /\ job[a].pc = "found"
  /\ \E c \in job[a].held :
       job' = [job EXCEPT ![a].pc = "put", ![a].result = Verdict(Request(a), c)]
  /\ outs' = outs \ job[a].held \/ outs' = outs
  /\ UNCHANGED <<answer, batch, tries, inbox, ledger, crashes>>

\* One PUT .../result (or HTTP response).  A failed one is logged, never
\* repeated; losses are explored while the bound leaves r another attempt.
PutResult(a) ==
  LET r == Request(a)
  IN  /\ job[a].pc = "put"
      /\ \/ answer' = [answer EXCEPT ![r] = job[a].result]
         \/ tries[r] < MaxTries /\ UNCHANGED answer
      /\ job' = [job EXCEPT ![a].pc = "done"]
      /\ UNCHANGED <<batch, tries, inbox, outs, ledger, crashes>>

Step(a) ==
  \/ WriteOrderXML(a) \/ Poll(a) \/ Timeout(a)
  \/ RemoveConfirmation(a) \/ PutResult(a)

-----------------------------------------------------------------------------
(* The environment. *)

\* The POS takes an ORDER file, executes or rejects it and writes the OUT file.
PosExecute(a, ok) ==
  LET c == [att |-> a, ok |-> ok]
  IN  /\ a \in inbox
      /\ inbox' = inbox \ {a}
      /\ ledger' = ledger \cup {c}
      /\ outs' = outs \cup {c}
      /\ UNCHANGED <<answer, batch, tries, job, crashes>>

Running(a) == job[a].pc \in {"write", "poll", "found", "put"}

\* The process dies or is stopped: main returns without waiting for its
\* goroutines.  Files and the cloud's queue survive.
Crash ==
  /\ crashes < MaxCrashes
  /\ \A r \in Orders \cup Payments : answer[r] = "none" => tries[r] < MaxTries
  /\ crashes' = crashes + 1
  /\ batch' = {}
  /\ job' = [a \in Attempts |-> IF Running(a) THEN [job[a] EXCEPT !.pc = "dead"]
                                              ELSE job[a]]
  /\ UNCHANGED <<answer, tries, inbox, outs, ledger>>

Dispatch(r) == SkipMalformed(r) \/ DispatchOrder(r) \/ DispatchPayment(r)

Next ==
  \/ \E queue \in {Orders, Payments} : Fetch(queue)
  \/ \E r \in Requests : Dispatch(r) \/ PostLocal(r)
  \/ \E a \in Attempts : Step(a)
  \/ \E a \in Attempts, ok \in BOOLEAN : PosExecute(a, ok)
  \/ Crash

Spec == Init /\ [][Next]_vars

\* What the Go scheduler, the poll loop and the HTTP client guarantee.  The
\* POS and crashes are not fair.
Fairness ==
  /\ \A queue \in {Orders, Payments} : WF_vars(Fetch(queue))
  /\ \A r \in Requests : WF_vars(Dispatch(r))
  /\ \A a \in Attempts : WF_vars(Step(a))

FairSpec == Spec /\ Fairness

-----------------------------------------------------------------------------
(* Properties. *)

\* Some attempt of r was executed by the POS with this verdict.
Executed(r, ok) == \E c \in ledger : Request(c.att) = r /\ c.ok = ok

\* A requester that reads "created" or "paid" has a check or a payment in the
\* POS, and one that reads a rejection had a try rejected, however attempts
\* overlapped, confirmations were left behind or the agent crashed.
AnswersAreGenuine ==
  \A r \in Requests :
    /\ answer[r] \in {"created", "paid"} => Executed(r, TRUE)
    /\ answer[r] = "rejected" => Executed(r, FALSE)

\* While the cloud has handed a request out once, its answer is exact: success
\* means the POS executed it and no second copy waits, a rejection or a write
\* error means nothing of it was or ever will be executed.
SoleAttemptIsExact ==
  \A r \in Requests : tries[r] = 1 =>
    LET first == <<r, 1>>
    IN  /\ answer[r] \in {"created", "paid"} =>
             ledger \cap [att : {first}, ok : BOOLEAN] = {[att |-> first, ok |-> TRUE]}
        /\ answer[r] \in {"rejected", "unwritten"} => ~Executed(r, TRUE)
        /\ answer[r] # "none" /\ answer[r] # "timeout" => first \notin inbox

\* The POS never executes one attempt twice, whatever files were left in the
\* inbound directory by attempts that timed out or died.
OneExecutionPerAttempt ==
  \A c, d \in ledger : c.att = d.att => c = d

\* A verdict of the POS is never destroyed unread: its file is still there, or
\* an attempt of the same request took it and reported it unless it was killed.
NoVerdictLost ==
  \A c \in ledger : c \in outs \/ \E a \in Attempts :
    /\ Request(a) = Request(c.att)
    /\ c \in job[a].held
    /\ job[a].pc \in {"found", "dead"} \/ job[a].result = Verdict(Request(a), c)

\* A confirmation poll of a goroutine that has time left does not overlook an
\* OUT file with its reference number.
PollSeesConfirmation ==
  [][\A a \in Attempts :
       job[a].pc = "poll" /\ job'[a].left < job[a].left =>
         \A c \in outs : Request(c.att) # Request(a)]_vars

\* The detailed exchange implements the contract.
Contract == INSTANCE InjectionContract
  WITH heard <- answer, started <- tries, executed <- ledger
ContractSpec == Contract!Spec

\* Every attempt ends: a goroutine reports or dies with the process.
AttemptsEnd ==
  \A a \in Attempts : Running(a) ~> job[a].pc \in {"done", "dead"}

\* Every well-formed queue entry is answered in the end, although results get
\* lost and the agent restarts in between.
QueueDrains ==
  \A r \in (Orders \cup Payments) \ Malformed :
    answer[r] = "none" ~> answer[r] # "none"
=============================================================================
