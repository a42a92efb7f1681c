-------------------------- MODULE InjectionProofs --------------------------
(***************************************************************************)
(* Proofs about Injection: for every set of requests, number of polls,     *)
(* attempts and crashes, and every pair of directories.                    *)
(***************************************************************************)
EXTENDS Injection, FunctionTheorems, FiniteSetTheorems, TLAPS

USE RequestsAssumption, BoundsAssumption

-----------------------------------------------------------------------------
(* Type correctness. *)

LEMMA NoJobType ==
  /\ NoJob \in Job
  /\ Polling \in Job
  /\ Unwritten \in Job
  /\ [NoJob EXCEPT !.pc = "write"] \in Job
<1>1. NoJob \in Job
  BY DEF NoJob, Job, Phases
<1>2. Polling \in Job
  <2> Polls \in 0..Polls
    OBVIOUS
  <2> QED
    BY DEF Polling, NoJob, Job, Phases
<1>3. Unwritten \in Job
  BY <1>1 DEF Unwritten, Job, Phases, Results
<1>4. [NoJob EXCEPT !.pc = "write"] \in Job
  BY <1>1 DEF Job, Phases
<1> QED
  BY <1>1, <1>2, <1>3, <1>4

\* Replacing one job by a well-typed one keeps the jobs well typed.
LEMMA UpdateType ==
  ASSUME TypeOK, NEW a \in Attempts, NEW j \in Job, job' = [job EXCEPT ![a] = j]
  PROVE  job' \in [Attempts -> Job]
BY DEF TypeOK

\* A started job is well typed.
LEMMA StartType ==
  ASSUME TypeOK, NEW r \in Requests, NEW j \in Job, Start(r, j)
  PROVE  /\ <<r, tries[r] + 1>> \in Attempts
         /\ tries' \in [Requests -> 0..MaxTries]
         /\ job' \in [Attempts -> Job]
BY DEF TypeOK, Start, Attempts

LEMMA TypeInit == Init => TypeOK
BY NoJobType DEF Init, TypeOK, Attempts

LEMMA TypeStep == TypeOK /\ [Next]_vars => TypeOK'
<1> SUFFICES ASSUME TypeOK, [Next]_vars PROVE TypeOK'
  OBVIOUS
<1>1. ASSUME NEW queue \in {Orders, Payments}, Fetch(queue)
      PROVE  TypeOK'
  BY <1>1 DEF TypeOK, Fetch
<1>2. ASSUME NEW r \in Requests, SkipMalformed(r)
      PROVE  TypeOK'
  BY <1>2 DEF TypeOK, SkipMalformed
<1>3. ASSUME NEW r \in Requests, DispatchOrder(r)
      PROVE  TypeOK'
  BY <1>3, StartType, NoJobType DEF TypeOK, DispatchOrder
<1>4. ASSUME NEW r \in Requests, DispatchPayment(r)
      PROVE  TypeOK'
  BY <1>4, StartType, NoJobType DEF TypeOK, DispatchPayment
<1>5. ASSUME NEW r \in Requests, PostLocal(r)
      PROVE  TypeOK'
  BY <1>5, StartType, NoJobType DEF TypeOK, PostLocal, Results
<1>6. ASSUME NEW a \in Attempts, WriteOrderXML(a)
      PROVE  TypeOK'
  BY <1>6, NoJobType DEF TypeOK, WriteOrderXML
<1>7. ASSUME NEW a \in Attempts, Poll(a)
      PROVE  TypeOK'
  <2>1. FindConfirmation(SearchDir(Request(a)), Request(a)) \subseteq Confirmations
    BY DEF FindConfirmation, TypeOK
  <2>2. job[a] \in Job
    BY DEF TypeOK
  <2>3. ASSUME NEW c \in Confirmations
        PROVE  [job[a] EXCEPT !.pc = "found", !.held = {c}] \in Job
    BY <2>2 DEF Job, Phases
  <2>4. job[a].left > 0 => [job[a] EXCEPT !.left = @ - 1] \in Job
    BY <2>2 DEF Job
  <2>5. \/ \E c \in Confirmations :
             job' = [job EXCEPT ![a] = [job[a] EXCEPT !.pc = "found", !.held = {c}]]
        \/ /\ job' = [job EXCEPT ![a] = [job[a] EXCEPT !.left = @ - 1]]
           /\ job[a].left > 0
    BY <1>7, <2>1 DEF Poll
  <2> QED
    BY <1>7, <2>3, <2>4, <2>5, UpdateType DEF TypeOK, Poll
<1>8. ASSUME NEW a \in Attempts, Timeout(a)
      PROVE  TypeOK'
  <2>1. [job[a] EXCEPT !.pc = "put", !.result = "timeout"] \in Job
    BY DEF TypeOK, Job, Phases, Results
  <2> QED
    BY <1>8, <2>1, UpdateType DEF TypeOK, Timeout
<1>9. ASSUME NEW a \in Attempts, RemoveConfirmation(a)
      PROVE  TypeOK'
  <2>1. job[a] \in Job /\ job[a].held \subseteq Confirmations
    BY DEF TypeOK, Job
  <2>2. \A c : Verdict(Request(a), c) \in Results
    BY DEF Verdict, Results
  <2>3. PICK c \in Confirmations :
           job' = [job EXCEPT ![a] = [job[a] EXCEPT !.pc = "put",
                                                    !.result = Verdict(Request(a), c)]]
    BY <1>9, <2>1 DEF RemoveConfirmation
  <2>4. [job[a] EXCEPT !.pc = "put", !.result = Verdict(Request(a), c)] \in Job
    BY <2>1, <2>2 DEF Job, Phases
  <2> QED
    BY <1>9, <2>3, <2>4, UpdateType DEF TypeOK, RemoveConfirmation
<1>10. ASSUME NEW a \in Attempts, PutResult(a)
       PROVE  TypeOK'
  <2>1. job[a] \in Job /\ job[a].result \in Results \cup {"none"}
    BY DEF TypeOK, Job
  <2>2. PICK j \in Job : job' = [job EXCEPT ![a] = j]
    BY <1>10, <2>1 DEF PutResult, Job, Phases
  <2>3. answer' \in [Requests -> Results \cup {"none"}]
    BY <1>10, <2>1 DEF TypeOK, PutResult, Attempts, Request
  <2> QED
    BY <1>10, <2>2, <2>3, UpdateType DEF TypeOK, PutResult
<1>11. ASSUME NEW a \in Attempts, NEW ok \in BOOLEAN, PosExecute(a, ok)
       PROVE  TypeOK'
  BY <1>11 DEF TypeOK, PosExecute, Confirmations
<1>12. ASSUME Crash
       PROVE  TypeOK'
  BY <1>12 DEF TypeOK, Crash, Job, Phases
<1>13. CASE UNCHANGED vars
  BY <1>13 DEF TypeOK, vars
<1> QED
  BY <1>1, <1>2, <1>3, <1>4, <1>5, <1>6, <1>7, <1>8, <1>9, <1>10, <1>11, <1>12, <1>13
     DEF Next, Dispatch, Step

-----------------------------------------------------------------------------
(* The inductive invariant. *)

Executions(a) == {c \in ledger : c.att = a}

\* A malformed request is never worked on, and an attempt not started is blank.
FreshInv ==
  /\ \A r \in Malformed : tries[r] = 0
  /\ \A a \in Attempts : a[2] > tries[Request(a)] => job[a] = NoJob

\* Where a file of an attempt can be: nowhere before it is written or when the
\* write failed, and no longer in the inbound directory once executed.
FilesInv ==
  /\ outs \subseteq ledger
  /\ \A c \in ledger : c.att \notin inbox
  /\ \A a \in Attempts :
       job[a].pc \in {"idle", "write"} \/ job[a].result = "unwritten" =>
         a \notin inbox /\ Executions(a) = {}

\* What a job holds is a confirmation of its own request, one once it found one.
HeldInv ==
  \A a \in Attempts :
    /\ job[a].pc \in {"idle", "write", "poll"} => job[a].held = {}
    /\ job[a].pc = "found" => \E c \in ledger : job[a].held = {c}
    /\ \A c \in job[a].held :
         /\ c \in ledger /\ Request(c.att) = Request(a)
         /\ job[a].pc \in {"found", "dead"} \/ job[a].result = Verdict(Request(a), c)

\* Results are set once, on the way to the report, and the contract allows them.
ResultInv ==
  \A a \in Attempts :
    /\ job[a].pc \in {"idle", "write", "poll", "found"} => job[a].result = "none"
    /\ job[a].pc = "put" => job[a].result # "none"
    /\ job[a].result # "none" => Contract!Allowed(Request(a), job[a].result)

\* What a requester heard is allowed, and came from one of its attempts.
AnswerInv ==
  \A r \in Requests : answer[r] # "none" =>
    /\ Contract!Allowed(r, answer[r])
    /\ answer[r] # "invalid" => \E k \in 1..MaxTries : job[<<r, k>>].result = answer[r]

IInv ==
  /\ TypeOK
  /\ FreshInv
  /\ FilesInv
  /\ OneExecutionPerAttempt
  /\ HeldInv
  /\ ResultInv
  /\ AnswerInv
  /\ NoVerdictLost

-----------------------------------------------------------------------------
(* Each action preserves the inductive invariant. *)

\* What the contract allows it goes on allowing: the ledger and the number of
\* tries only grow.
LEMMA AllowedIsStable ==
  ASSUME TypeOK, TypeOK', ledger \subseteq ledger', NEW r \in Requests, NEW result,
         tries'[r] >= tries[r], Contract!Allowed(r, result)
  PROVE  Contract!Allowed(r, result)'
BY DEF TypeOK, Contract!Allowed, Contract!Executed

LEMMA InitInv == Init => IInv
<1> SUFFICES ASSUME Init PROVE IInv
  OBVIOUS
<1>1. TypeOK
  BY TypeInit
<1>2. \A a \in Attempts : job[a] = NoJob
  BY DEF Init
<1>3. FreshInv
  BY <1>2 DEF Init, FreshInv
<1>4. FilesInv
  BY DEF Init, FilesInv, Executions
<1>5. OneExecutionPerAttempt
  BY DEF Init, OneExecutionPerAttempt
<1>6. HeldInv
  BY <1>2 DEF HeldInv, NoJob
<1>7. ResultInv
  BY <1>2 DEF ResultInv, NoJob
<1>8. AnswerInv
  BY DEF Init, AnswerInv
<1>9. NoVerdictLost
  BY DEF Init, NoVerdictLost
<1> QED
  BY <1>1, <1>3, <1>4, <1>5, <1>6, <1>7, <1>8, <1>9 DEF IInv

\* A step that touches no job, file, answer or counter.
LEMMA QuietStep ==
  ASSUME IInv, TypeOK', UNCHANGED <<answer, tries, job, inbox, outs, ledger>>
  PROVE  IInv'
<1>1. FreshInv'
  BY DEF IInv, FreshInv
<1>2. FilesInv'
  BY DEF IInv, FilesInv, Executions
<1>3. OneExecutionPerAttempt'
  BY DEF IInv, OneExecutionPerAttempt
<1>4. HeldInv'
  BY DEF IInv, HeldInv
<1>5. ResultInv'
  BY DEF IInv, ResultInv, Contract!Allowed, Contract!Executed
<1>6. AnswerInv'
  BY DEF IInv, AnswerInv, Contract!Allowed, Contract!Executed
<1>7. NoVerdictLost'
  BY DEF IInv, NoVerdictLost
<1> QED
  BY <1>1, <1>2, <1>3, <1>4, <1>5, <1>6, <1>7 DEF IInv

\* Starting an attempt, with or without its ORDER file in place.
LEMMA StartInv ==
  ASSUME IInv, TypeOK', NEW r \in Requests \ Malformed, NEW j, Start(r, j),
         UNCHANGED <<answer, outs, ledger>>,
         \/ j = [NoJob EXCEPT !.pc = "write"] /\ inbox' = inbox
         \/ j = Unwritten /\ inbox' = inbox
         \/ j = Polling /\ inbox' = inbox \cup {<<r, tries[r] + 1>>}
  PROVE  IInv'
<1> DEFINE a == <<r, tries[r] + 1>>
<1>1. /\ a \in Attempts /\ Request(a) = r
      /\ a[2] > tries[r]
      /\ job[a] = NoJob
      /\ job' = [job EXCEPT ![a] = j]
      /\ tries' = [tries EXCEPT ![r] = @ + 1]
  BY DEF IInv, TypeOK, FreshInv, Start, Attempts, Request
<1>2. /\ j.pc \in {"write", "put", "poll"}
      /\ j.held = {}
      /\ j.pc = "put" => j.result = "unwritten"
      /\ j.pc # "put" => j.result = "none"
  BY DEF NoJob, Unwritten, Polling
<1>3. a \notin inbox /\ Executions(a) = {}
  BY <1>1 DEF IInv, FilesInv, NoJob
<1>4. \A b \in Attempts : b # a => job'[b] = job[b]
  BY <1>1 DEF IInv, TypeOK
<1>5. job'[a] = j
  BY <1>1 DEF IInv, TypeOK
<1>6. \A q \in Requests : tries'[q] >= tries[q]
  BY <1>1 DEF IInv, TypeOK
<1>7. FreshInv'
  <2>1. ASSUME NEW b \in Attempts, b[2] > tries'[Request(b)]
        PROVE  job'[b] = NoJob
    BY <1>1, <1>4, <2>1 DEF IInv, FreshInv, TypeOK, Attempts, Request
  <2>2. \A q \in Malformed : tries'[q] = 0
    BY <1>1 DEF IInv, FreshInv, TypeOK
  <2> QED
    BY <2>1, <2>2 DEF FreshInv
<1>8. FilesInv'
  <2>1. \A c \in ledger' : c.att \notin inbox'
    BY <1>3 DEF IInv, FilesInv, Executions
  <2>2. ASSUME NEW b \in Attempts,
               job'[b].pc \in {"idle", "write"} \/ job'[b].result = "unwritten"
        PROVE  b \notin inbox' /\ Executions(b)' = {}
    <3>1. CASE b = a
      BY <1>2, <1>3, <1>5, <2>2, <3>1 DEF Executions, Polling, NoJob
    <3>2. CASE b # a
      BY <1>4, <2>2, <3>2 DEF IInv, FilesInv, Executions
    <3> QED
      BY <3>1, <3>2
  <2> QED
    BY <2>1, <2>2 DEF IInv, FilesInv
<1>9. OneExecutionPerAttempt'
  BY DEF IInv, OneExecutionPerAttempt
<1>10. HeldInv'
  BY <1>2, <1>4, <1>5 DEF IInv, HeldInv
<1>11. ResultInv'
  <2> SUFFICES ASSUME NEW b \in Attempts
               PROVE  /\ job'[b].pc \in {"idle", "write", "poll", "found"} =>
                           job'[b].result = "none"
                      /\ job'[b].pc = "put" => job'[b].result # "none"
                      /\ job'[b].result # "none" =>
                           Contract!Allowed(Request(b), job[b].result)'
    BY DEF ResultInv
  <2>1. CASE b = a
    <3>1. tries'[r] > 0
      BY <1>1 DEF IInv, TypeOK
    <3> QED
      BY <1>1, <1>2, <1>5, <2>1, <3>1 DEF Contract!Allowed
  <2>2. CASE b # a
    <3>1. Request(b) \in Requests
      BY DEF Attempts, Request
    <3>2. ASSUME job'[b].result # "none"
          PROVE  Contract!Allowed(Request(b), job[b].result)'
      <4>1. PICK x : x = job[b].result
        OBVIOUS
      <4>2. Contract!Allowed(Request(b), x)
        BY <1>4, <2>2, <3>2, <4>1 DEF IInv, ResultInv
      <4>3. Contract!Allowed(Request(b), x)'
        BY <1>6, <3>1, <4>2, AllowedIsStable DEF IInv
      <4> QED
        BY <1>4, <2>2, <4>1, <4>3 DEF Contract!Allowed
    <3> QED
      BY <1>4, <2>2, <3>2 DEF IInv, ResultInv
  <2> QED
    BY <2>1, <2>2
<1>12. AnswerInv'
  <2> SUFFICES ASSUME NEW q \in Requests, answer[q] # "none"
               PROVE  /\ Contract!Allowed(q, answer[q])'
                      /\ answer[q] # "invalid" =>
                           \E k \in 1..MaxTries : job'[<<q, k>>].result = answer[q]
    BY DEF AnswerInv
  <2>1. Contract!Allowed(q, answer[q])'
    BY <1>6, AllowedIsStable DEF IInv, AnswerInv
  <2>2. ASSUME NEW k \in 1..MaxTries, job[<<q, k>>].result = answer[q]
        PROVE  job'[<<q, k>>].result = answer[q]
    BY <1>1, <1>4, <2>2 DEF NoJob, Attempts
  <2> QED
    BY <2>1, <2>2 DEF IInv, AnswerInv
<1>13. NoVerdictLost'
  <2> SUFFICES ASSUME NEW c \in ledger, c \notin outs
               PROVE  \E b \in Attempts :
                        /\ Request(b) = Request(c.att)
                        /\ c \in job'[b].held
                        /\ \/ job'[b].pc \in {"found", "dead"}
                           \/ job'[b].result = Verdict(Request(b), c)
    BY DEF NoVerdictLost
  <2>1. PICK b \in Attempts :
          /\ Request(b) = Request(c.att)
          /\ c \in job[b].held
          /\ job[b].pc \in {"found", "dead"} \/ job[b].result = Verdict(Request(b), c)
    BY DEF IInv, NoVerdictLost
  <2>2. b # a
    BY <1>1, <2>1 DEF NoJob
  <2> QED
    BY <1>4, <2>1, <2>2
<1> QED
  BY <1>7, <1>8, <1>9, <1>10, <1>11, <1>12, <1>13 DEF IInv

\* The invariant's demands on one job, and what a step may do to it.
JobOK(a, j) ==
  /\ j.pc \notin {"idle", "write"}
  /\ j.pc = "poll" => j.held = {}
  /\ j.pc = "found" => \E c \in ledger : j.held = {c}
  /\ \A c \in j.held : c \in ledger /\ Request(c.att) = Request(a)
  /\ j.pc \in {"poll", "found"} => j.result = "none"
  /\ j.pc = "put" => j.result # "none"
  /\ j.result # "none" => Contract!Allowed(Request(a), j.result)
  /\ \A c \in j.held : j.pc \in {"found", "dead"} \/ j.result = Verdict(Request(a), c)

\* A step of one attempt: its job moves on, its files move with it, and its
\* result may reach the requester.
LEMMA JobStep ==
  ASSUME IInv, TypeOK', NEW a \in Attempts, NEW j, JobOK(a, j),
         job[a].pc # "idle", job' = [job EXCEPT ![a] = j],
         UNCHANGED <<tries, ledger>>,
         outs' \subseteq outs, outs \ outs' \subseteq j.held,
         \/ inbox' = inbox
         \/ inbox' = inbox \cup {a} /\ job[a].pc = "write",
         j.result = "unwritten" =>
           /\ inbox' = inbox
           /\ job[a].pc = "write" \/ job[a].result = "unwritten",
         job[a].result # "none" => j.result = job[a].result,
         job[a].held \subseteq j.held,
         \/ answer' = answer
         \/ answer' = [answer EXCEPT ![Request(a)] = job[a].result] /\ job[a].pc = "put"
  PROVE  IInv'
<1>1. /\ \A b \in Attempts : b # a => job'[b] = job[b]
      /\ job'[a] = j
      /\ Request(a) \in Requests
  BY DEF IInv, TypeOK, Attempts, Request
<1>2. FreshInv'
  BY <1>1 DEF IInv, FreshInv, NoJob
<1>3. FilesInv'
  <2>1. \A c \in ledger' : c.att \notin inbox'
    BY DEF IInv, FilesInv, Executions
  <2>2. ASSUME NEW b \in Attempts,
               job'[b].pc \in {"idle", "write"} \/ job'[b].result = "unwritten"
        PROVE  b \notin inbox' /\ Executions(b)' = {}
    BY <1>1, <2>2 DEF IInv, FilesInv, Executions, JobOK
  <2> QED
    BY <2>1, <2>2 DEF IInv, FilesInv
<1>4. OneExecutionPerAttempt'
  BY DEF IInv, OneExecutionPerAttempt
<1>5. HeldInv'
  BY <1>1 DEF IInv, HeldInv, JobOK
<1>6. ResultInv'
  <2>1. ASSUME NEW b \in Attempts
        PROVE  /\ job'[b].pc \in {"idle", "write", "poll", "found"} => job'[b].result = "none"
               /\ job'[b].pc = "put" => job'[b].result # "none"
    BY <1>1 DEF IInv, ResultInv, JobOK
  <2>2. ASSUME NEW b \in Attempts, job'[b].result # "none"
        PROVE  Contract!Allowed(Request(b), job[b].result)'
    <3>1. PICK x : x = job'[b].result
      OBVIOUS
    <3>2. Contract!Allowed(Request(b), x)
      BY <1>1, <2>2, <3>1 DEF IInv, ResultInv, JobOK
    <3> QED
      BY <3>1, <3>2 DEF Contract!Allowed, Contract!Executed
  <2> QED
    BY <2>1, <2>2 DEF ResultInv
<1>7. AnswerInv'
  <2> SUFFICES ASSUME NEW q \in Requests, answer'[q] # "none"
               PROVE  /\ Contract!Allowed(q, answer[q])'
                      /\ answer'[q] # "invalid" =>
                           \E k \in 1..MaxTries : job'[<<q, k>>].result = answer'[q]
    BY DEF AnswerInv
  <2>1. PICK x : x = answer'[q]
    OBVIOUS
  <2>2. ASSUME NEW k \in 1..MaxTries, job[<<q, k>>].result = x
        PROVE  job'[<<q, k>>].result = x
    BY <1>1, <2>1, <2>2 DEF Attempts
  <2>3. CASE answer'[q] = answer[q]
    <3>1. Contract!Allowed(q, x)
      BY <2>1, <2>3 DEF IInv, AnswerInv
    <3> QED
      BY <2>1, <2>2, <2>3, <3>1 DEF IInv, AnswerInv, Contract!Allowed, Contract!Executed
  <2>4. CASE answer'[q] # answer[q]
    <3>1. q = Request(a) /\ x = job[a].result /\ job[a].pc = "put"
      BY <1>1, <2>1, <2>4 DEF IInv, TypeOK
    <3>2. Contract!Allowed(q, x)
      BY <2>1, <3>1 DEF IInv, ResultInv
    <3>3. a = <<q, a[2]>> /\ a[2] \in 1..MaxTries
      BY <3>1 DEF Attempts, Request
    <3>4. \E k \in 1..MaxTries : job'[<<q, k>>].result = x
      BY <2>2, <3>1, <3>3
    <3> QED
      BY <2>1, <3>2, <3>4 DEF Contract!Allowed, Contract!Executed
  <2> QED
    BY <2>3, <2>4
<1>8. NoVerdictLost'
  <2> SUFFICES ASSUME NEW c \in ledger, c \notin outs'
               PROVE  \E b \in Attempts :
                        /\ Request(b) = Request(c.att)
                        /\ c \in job'[b].held
                        /\ \/ job'[b].pc \in {"found", "dead"}
                           \/ job'[b].result = Verdict(Request(b), c)
    BY DEF NoVerdictLost
  <2>1. CASE c \in outs
    BY <1>1, <2>1 DEF JobOK
  <2>2. CASE c \notin outs
    <3>1. PICK b \in Attempts :
            /\ Request(b) = Request(c.att)
            /\ c \in job[b].held
            /\ job[b].pc \in {"found", "dead"} \/ job[b].result = Verdict(Request(b), c)
      BY <2>2 DEF IInv, NoVerdictLost
    <3>2. CASE b = a
      BY <1>1, <3>1, <3>2 DEF JobOK
    <3>3. CASE b # a
      BY <1>1, <3>1, <3>3
    <3> QED
      BY <3>2, <3>3
  <2> QED
    BY <2>1, <2>2
<1> QED
  BY <1>2, <1>3, <1>4, <1>5, <1>6, <1>7, <1>8 DEF IInv

LEMMA WriteInv ==
  ASSUME IInv, TypeOK', NEW a \in Attempts, WriteOrderXML(a)
  PROVE  IInv'
<1>1. tries[Request(a)] > 0
  BY DEF IInv, TypeOK, FreshInv, NoJob, WriteOrderXML, Attempts, Request
<1>2. job[a].held = {} /\ job[a].result = "none"
  BY DEF IInv, HeldInv, ResultInv, WriteOrderXML
<1>3. JobOK(a, Polling)
  BY DEF JobOK, Polling, NoJob
<1>4. JobOK(a, Unwritten)
  BY <1>1 DEF JobOK, Unwritten, NoJob, Contract!Allowed
<1>5. Polling.held = {} /\ Polling.result = "none" /\ Unwritten.held = {}
  BY DEF Polling, Unwritten, NoJob
<1>6. CASE job' = [job EXCEPT ![a] = Polling] /\ inbox' = inbox \cup {a}
  BY <1>2, <1>3, <1>5, <1>6, JobStep DEF WriteOrderXML
<1>7. CASE job' = [job EXCEPT ![a] = Unwritten] /\ inbox' = inbox
  BY <1>2, <1>4, <1>5, <1>7, JobStep DEF WriteOrderXML
<1> QED
  BY <1>6, <1>7 DEF WriteOrderXML

LEMMA PollInv ==
  ASSUME IInv, TypeOK', NEW a \in Attempts, Poll(a)
  PROVE  IInv'
<1>1. job[a] \in Job /\ job[a].pc = "poll" /\ job[a].held = {} /\ job[a].result = "none"
  BY DEF IInv, TypeOK, HeldInv, ResultInv, Poll
<1>2. ASSUME NEW c \in FindConfirmation(SearchDir(Request(a)), Request(a)),
             job' = [job EXCEPT ![a].pc = "found", ![a].held = {c}]
      PROVE  IInv'
  <2> DEFINE j == [job[a] EXCEPT !.pc = "found", !.held = {c}]
  <2>1. c \in ledger /\ Request(c.att) = Request(a)
    BY <1>2 DEF IInv, FilesInv, FindConfirmation
  <2>2. j.pc = "found" /\ j.held = {c} /\ j.result = "none"
    BY <1>1 DEF Job
  <2>3. JobOK(a, j)
    BY <2>1, <2>2 DEF JobOK
  <2>4. job' = [job EXCEPT ![a] = j]
    BY <1>2
  <2> HIDE DEF j
  <2> QED
    BY <1>1, <2>2, <2>3, <2>4, JobStep DEF Poll
<1>3. ASSUME job' = [job EXCEPT ![a].left = @ - 1]
      PROVE  IInv'
  <2> DEFINE j == [job[a] EXCEPT !.left = @ - 1]
  <2>1. j.pc = "poll" /\ j.held = {} /\ j.result = "none"
    BY <1>1 DEF Job
  <2>2. JobOK(a, j)
    BY <2>1 DEF JobOK
  <2>3. job' = [job EXCEPT ![a] = j]
    BY <1>3
  <2> HIDE DEF j
  <2> QED
    BY <1>1, <2>1, <2>2, <2>3, JobStep DEF Poll
<1> QED
  BY <1>2, <1>3 DEF Poll

LEMMA TimeoutInv ==
  ASSUME IInv, TypeOK', NEW a \in Attempts, Timeout(a)
  PROVE  IInv'
<1> DEFINE j == [job[a] EXCEPT !.pc = "put", !.result = "timeout"]
<1>1. job[a] \in Job /\ job[a].pc = "poll" /\ job[a].held = {} /\ job[a].result = "none"
  BY DEF IInv, TypeOK, HeldInv, ResultInv, Timeout
<1>2. j.pc = "put" /\ j.held = {} /\ j.result = "timeout"
  BY <1>1 DEF Job
<1>3. tries[Request(a)] > 0
  BY <1>1 DEF IInv, TypeOK, FreshInv, NoJob, Attempts, Request
<1>4. JobOK(a, j)
  BY <1>2, <1>3 DEF JobOK, Contract!Allowed
<1>5. job' = [job EXCEPT ![a] = j]
  BY DEF Timeout
<1> HIDE DEF j
<1> QED
  BY <1>1, <1>2, <1>4, <1>5, JobStep DEF Timeout

LEMMA RemoveInv ==
  ASSUME IInv, TypeOK', NEW a \in Attempts, RemoveConfirmation(a)
  PROVE  IInv'
<1>1. PICK c \in job[a].held :
        job' = [job EXCEPT ![a].pc = "put", ![a].result = Verdict(Request(a), c)]
  BY DEF RemoveConfirmation
<1> DEFINE j == [job[a] EXCEPT !.pc = "put", !.result = Verdict(Request(a), c)]
<1>2. /\ job[a] \in Job /\ job[a].pc = "found" /\ job[a].result = "none"
      /\ job[a].held = {c} /\ c \in ledger /\ Request(c.att) = Request(a)
  BY DEF IInv, TypeOK, HeldInv, ResultInv, RemoveConfirmation
<1>3. j.pc = "put" /\ j.held = {c} /\ j.result = Verdict(Request(a), c)
  BY <1>2 DEF Job
<1>4. Contract!Allowed(Request(a), Verdict(Request(a), c))
  <2>1. PICK k \in 1..MaxTries : c = [att |-> <<Request(a), k>>, ok |-> c.ok]
    BY <1>2 DEF IInv, TypeOK, Confirmations, Attempts, Request
  <2>2. Contract!Executed(Request(a), c.ok)
    BY <1>2, <2>1 DEF Contract!Executed
  <2>3. Request(a) \in Requests /\ c.ok \in BOOLEAN
    BY <1>2 DEF IInv, TypeOK, Confirmations, Attempts, Request
  <2> QED
    BY <2>2, <2>3 DEF Contract!Allowed, Verdict, Requests
<1>5. JobOK(a, j)
  BY <1>2, <1>3, <1>4 DEF JobOK, Verdict
<1>6. job' = [job EXCEPT ![a] = j]
  BY <1>1
<1>7. j.result # "unwritten"
  BY <1>3 DEF Verdict
<1> HIDE DEF j
<1> QED
  BY <1>2, <1>3, <1>5, <1>6, <1>7, JobStep DEF RemoveConfirmation

LEMMA PutInv ==
  ASSUME IInv, TypeOK', NEW a \in Attempts, PutResult(a)
  PROVE  IInv'
<1> DEFINE j == [job[a] EXCEPT !.pc = "done"]
<1>1. job[a] \in Job /\ job[a].pc = "put"
  BY DEF IInv, TypeOK, PutResult
<1>2. j.pc = "done" /\ j.held = job[a].held /\ j.result = job[a].result
  BY <1>1 DEF Job
<1>3. \A c \in job[a].held : job[a].result = Verdict(Request(a), c)
  BY <1>1 DEF IInv, HeldInv
<1>4. JobOK(a, j)
  BY <1>1, <1>2, <1>3 DEF IInv, HeldInv, ResultInv, JobOK
<1>5. job' = [job EXCEPT ![a] = j]
  BY DEF PutResult
<1> HIDE DEF j
<1> QED
  BY <1>1, <1>2, <1>4, <1>5, JobStep DEF PutResult

LEMMA ExecuteInv ==
  ASSUME IInv, TypeOK', NEW a \in Attempts, NEW ok \in BOOLEAN, PosExecute(a, ok)
  PROVE  IInv'
<1> DEFINE c == [att |-> a, ok |-> ok]
<1>1. /\ a \in inbox /\ inbox' = inbox \ {a}
      /\ ledger' = ledger \cup {c} /\ outs' = outs \cup {c}
      /\ answer' = answer /\ tries' = tries /\ job' = job
  BY DEF PosExecute
<1>2. /\ job[a].pc \notin {"idle", "write"} /\ job[a].result # "unwritten"
      /\ Executions(a) = {}
  BY <1>1 DEF IInv, FilesInv, Executions
<1>3. FreshInv'
  BY <1>1 DEF IInv, FreshInv
<1>4. FilesInv'
  <2>1. outs' \subseteq ledger' /\ \A d \in ledger' : d.att \notin inbox'
    BY <1>1 DEF IInv, FilesInv
  <2>2. ASSUME NEW b \in Attempts,
               job'[b].pc \in {"idle", "write"} \/ job'[b].result = "unwritten"
        PROVE  b \notin inbox' /\ Executions(b)' = {}
    <3>1. b # a
      BY <1>1, <1>2, <2>2
    <3> QED
      BY <1>1, <2>2, <3>1 DEF IInv, FilesInv, Executions
  <2> QED
    BY <2>1, <2>2 DEF FilesInv
<1>5. OneExecutionPerAttempt'
  BY <1>1, <1>2 DEF IInv, OneExecutionPerAttempt, Executions
<1>6. HeldInv'
  BY <1>1 DEF IInv, HeldInv
<1>7. ResultInv'
  BY <1>1 DEF IInv, ResultInv, Contract!Allowed, Contract!Executed
<1>8. AnswerInv'
  BY <1>1 DEF IInv, AnswerInv, Contract!Allowed, Contract!Executed
<1>9. NoVerdictLost'
  BY <1>1 DEF IInv, NoVerdictLost
<1> QED
  BY <1>3, <1>4, <1>5, <1>6, <1>7, <1>8, <1>9 DEF IInv

LEMMA CrashInv ==
  ASSUME IInv, TypeOK', Crash
  PROVE  IInv'
<1>1. ASSUME NEW a \in Attempts
      PROVE  /\ job'[a].held = job[a].held /\ job'[a].result = job[a].result
             /\ \/ job'[a] = job[a] /\ job[a].pc \in {"idle", "done", "dead"}
                \/ job'[a].pc = "dead" /\ job[a].pc # "idle"
  BY DEF IInv, TypeOK, Crash, Running, Job, Phases
<1>2. UNCHANGED <<answer, tries, inbox, outs, ledger>>
  BY DEF Crash
<1>3. FreshInv'
  BY <1>1, <1>2 DEF IInv, FreshInv, NoJob
<1>4. FilesInv'
  BY <1>1, <1>2 DEF IInv, FilesInv, Executions
<1>5. OneExecutionPerAttempt'
  BY <1>2 DEF IInv, OneExecutionPerAttempt
<1>6. HeldInv'
  BY <1>1, <1>2 DEF IInv, HeldInv
<1>7. ResultInv'
  BY <1>1, <1>2 DEF IInv, ResultInv, Contract!Allowed, Contract!Executed
<1>8. AnswerInv'
  BY <1>1, <1>2 DEF IInv, AnswerInv, Contract!Allowed, Contract!Executed, Attempts
<1>9. NoVerdictLost'
  BY <1>1, <1>2 DEF IInv, NoVerdictLost
<1> QED
  BY <1>3, <1>4, <1>5, <1>6, <1>7, <1>8, <1>9 DEF IInv

\* A malformed local POST: only the answer changes.
LEMMA InvalidInv ==
  ASSUME IInv, TypeOK', NEW r \in Locals \cap Malformed,
         answer' = [answer EXCEPT ![r] = "invalid"],
         UNCHANGED <<tries, job, inbox, outs, ledger>>
  PROVE  IInv'
<1>1. FreshInv'
  BY DEF IInv, FreshInv
<1>2. FilesInv'
  BY DEF IInv, FilesInv, Executions
<1>3. OneExecutionPerAttempt'
  BY DEF IInv, OneExecutionPerAttempt
<1>4. HeldInv'
  BY DEF IInv, HeldInv
<1>5. ResultInv'
  BY DEF IInv, ResultInv, Contract!Allowed, Contract!Executed
<1>6. AnswerInv'
  <2> SUFFICES ASSUME NEW q \in Requests, answer'[q] # "none"
               PROVE  /\ Contract!Allowed(q, answer[q])'
                      /\ answer'[q] # "invalid" =>
                           \E k \in 1..MaxTries : job'[<<q, k>>].result = answer'[q]
    BY DEF AnswerInv
  <2>1. CASE q = r
    <3>1. answer'[q] = "invalid"
      BY <2>1 DEF IInv, TypeOK, Requests
    <3> QED
      BY <2>1, <3>1 DEF Contract!Allowed
  <2>2. CASE q # r
    <3>1. answer'[q] = answer[q]
      BY <2>2 DEF IInv, TypeOK
    <3> QED
      BY <3>1 DEF IInv, AnswerInv, Contract!Allowed, Contract!Executed
  <2> QED
    BY <2>1, <2>2
<1>7. NoVerdictLost'
  BY DEF IInv, NoVerdictLost
<1> QED
  BY <1>1, <1>2, <1>3, <1>4, <1>5, <1>6, <1>7 DEF IInv

LEMMA NextInv == IInv /\ [Next]_vars => IInv'
<1> SUFFICES ASSUME IInv, [Next]_vars PROVE IInv'
  OBVIOUS
<1>1. TypeOK'
  BY TypeStep DEF IInv
<1>2. ASSUME NEW queue \in {Orders, Payments}, Fetch(queue)
      PROVE  IInv'
  BY <1>1, <1>2, QuietStep DEF Fetch
<1>3. ASSUME NEW r \in Requests, SkipMalformed(r)
      PROVE  IInv'
  BY <1>1, <1>3, QuietStep DEF SkipMalformed
<1>4. ASSUME NEW r \in Requests, DispatchOrder(r)
      PROVE  IInv'
  BY <1>1, <1>4, StartInv DEF DispatchOrder
<1>5. ASSUME NEW r \in Requests, DispatchPayment(r)
      PROVE  IInv'
  BY <1>1, <1>5, StartInv DEF DispatchPayment
<1>6. ASSUME NEW r \in Requests, PostLocal(r)
      PROVE  IInv'
  BY <1>1, <1>6, StartInv, InvalidInv DEF PostLocal
<1>7. ASSUME NEW a \in Attempts, Step(a)
      PROVE  IInv'
  BY <1>1, <1>7, WriteInv, PollInv, TimeoutInv, RemoveInv, PutInv DEF Step
<1>8. ASSUME NEW a \in Attempts, NEW ok \in BOOLEAN, PosExecute(a, ok)
      PROVE  IInv'
  BY <1>1, <1>8, ExecuteInv
<1>9. CASE Crash
  BY <1>1, <1>9, CrashInv
<1>10. CASE UNCHANGED vars
  BY <1>1, <1>10, QuietStep DEF vars
<1> QED
  BY <1>2, <1>3, <1>4, <1>5, <1>6, <1>7, <1>8, <1>9, <1>10 DEF Next, Dispatch

LEMMA Invariance == Spec => []IInv
BY InitInv, NextInv, PTL DEF Spec

-----------------------------------------------------------------------------
(* The results. *)

\* Every variable keeps its domain, whatever the interleaving of pollers,
\* goroutines, POS and crashes.
THEOREM TypeCorrect == Spec => []TypeOK
<1>1. IInv => TypeOK
  BY DEF IInv
<1> QED
  BY <1>1, Invariance, PTL

\* A success or a rejection reported for a request was produced by the POS.
THEOREM Genuine == Spec => []AnswersAreGenuine
<1>1. ASSUME NEW r \in Requests, NEW ok \in BOOLEAN, Contract!Executed(r, ok)
      PROVE  Executed(r, ok)
  BY <1>1 DEF Contract!Executed, Executed, Request
<1>2. IInv => AnswersAreGenuine
  BY <1>1 DEF IInv, AnswerInv, AnswersAreGenuine, Contract!Allowed
<1> QED
  BY <1>2, Invariance, PTL

\* No attempt is executed twice.
THEOREM ExecutedOnce == Spec => []OneExecutionPerAttempt
<1>1. IInv => OneExecutionPerAttempt
  BY DEF IInv
<1> QED
  BY <1>1, Invariance, PTL

\* No verdict of the POS disappears unread.
THEOREM VerdictsKept == Spec => []NoVerdictLost
<1>1. IInv => NoVerdictLost
  BY DEF IInv
<1> QED
  BY <1>1, Invariance, PTL

\* A payload that does not decode or validate leaves no trace in the POS: it
\* gets no goroutine and no file, nothing of it is executed, and the only answer
\* there can be to it is the 400 of the local handler.
MalformedIsRefused ==
  \A r \in Malformed :
    /\ answer[r] = "none" \/ (r \in Locals /\ answer[r] = "invalid")
    /\ \A a \in Attempts : Request(a) = r =>
         job[a] = NoJob /\ a \notin inbox /\ Executions(a) = {}

\* However often it is polled or posted, a malformed request never gets through.
THEOREM MalformedNeverRuns == Spec => []MalformedIsRefused
<1>1. ASSUME IInv, NEW r \in Malformed
      PROVE  /\ answer[r] = "none" \/ (r \in Locals /\ answer[r] = "invalid")
             /\ \A a \in Attempts : Request(a) = r =>
                  job[a] = NoJob /\ a \notin inbox /\ Executions(a) = {}
  <2>1. r \in Requests /\ tries[r] = 0
    BY <1>1 DEF IInv, FreshInv
  <2>2. ASSUME NEW a \in Attempts, Request(a) = r
        PROVE  job[a] = NoJob /\ a \notin inbox /\ Executions(a) = {}
    <3>1. job[a] = NoJob
      BY <1>1, <2>1, <2>2 DEF IInv, FreshInv, Attempts
    <3> QED
      BY <1>1, <3>1 DEF IInv, FilesInv, NoJob
  <2>3. ASSUME answer[r] # "none"
        PROVE  r \in Locals /\ answer[r] = "invalid"
    <3>1. \A k \in 1..MaxTries : job[<<r, k>>].result = "none"
      BY <2>1, <2>2 DEF Attempts, Request, NoJob
    <3>2. answer[r] = "invalid"
      BY <1>1, <2>1, <2>3, <3>1 DEF IInv, AnswerInv
    <3> QED
      BY <1>1, <2>1, <2>3, <3>2 DEF IInv, AnswerInv, Contract!Allowed
  <2>4. answer[r] = "none" \/ (r \in Locals /\ answer[r] = "invalid")
    BY <2>3
  <2>5. \A a \in Attempts : Request(a) = r =>
          job[a] = NoJob /\ a \notin inbox /\ Executions(a) = {}
    BY <2>2
  <2> QED
    BY <2>4, <2>5
<1>2. IInv => MalformedIsRefused
  BY <1>1 DEF MalformedIsRefused
<1> QED
  BY <1>2, Invariance, PTL

ExecutionsOf(r) == {c \in ledger : Request(c.att) = r}

\* What the POS executed for a request, accepted or rejected, is no more than
\* the cloud handed it out: the most a requester can be charged for.
NoMoreThanHandedOut ==
  \A r \in Requests :
    IsFiniteSet(ExecutionsOf(r)) /\ Cardinality(ExecutionsOf(r)) <= tries[r]

\* Crashes, files left behind and late confirmations never multiply a request.
THEOREM ExecutionsAreBounded == Spec => []NoMoreThanHandedOut
<1>1. ASSUME IInv, NEW r \in Requests
      PROVE  IsFiniteSet(ExecutionsOf(r)) /\ Cardinality(ExecutionsOf(r)) <= tries[r]
  <2> DEFINE try == [c \in ExecutionsOf(r) |-> c.att[2]]
  <2>1. tries[r] \in Nat
    BY <1>1 DEF IInv, TypeOK
  <2>2. ASSUME NEW c \in ExecutionsOf(r)
        PROVE  c \in ledger /\ c.att = <<r, c.att[2]>> /\ c.att[2] \in 1..tries[r]
    <3>1. c \in ledger /\ c.att \in Attempts /\ c.att[1] = r
      BY <1>1, <2>2 DEF IInv, TypeOK, Confirmations, ExecutionsOf, Request
    <3>2. c.att[2] \in 1..MaxTries /\ c.att = <<r, c.att[2]>>
      BY <3>1 DEF Attempts
    <3>3. job[c.att].pc # "idle"
      BY <1>1, <3>1 DEF IInv, FilesInv, Executions
    <3>4. ~(c.att[2] > tries[r])
      BY <1>1, <3>1, <3>3 DEF IInv, FreshInv, NoJob, Request
    <3> QED
      BY <2>1, <3>1, <3>2, <3>4
  <2>3. try \in [ExecutionsOf(r) -> 1..tries[r]]
    BY <2>2
  <2>4. ASSUME NEW c \in ExecutionsOf(r), NEW d \in ExecutionsOf(r), try[c] = try[d]
        PROVE  c = d
    BY <1>1, <2>2, <2>4 DEF IInv, OneExecutionPerAttempt
  <2> HIDE DEF try
  <2>5. \E f : f \in Injection(ExecutionsOf(r), 1..tries[r])
    BY <2>3, <2>4, Fun_IsInj
  <2>6. IsFiniteSet(1..tries[r]) /\ Cardinality(1..tries[r]) = tries[r]
    BY <2>1, FS_Interval
  <2> QED
    BY <2>5, <2>6, FS_Injection
<1>2. IInv => NoMoreThanHandedOut
  BY <1>1 DEF NoMoreThanHandedOut
<1> QED
  BY <1>2, Invariance, PTL

\* Steps an attempt can still take at most.
Ahead(j) ==
  CASE j.pc = "idle" -> Polls + 5
    [] j.pc = "write" -> Polls + 4
    [] j.pc = "poll" -> j.left + 3
    [] j.pc = "found" -> 2
    [] j.pc = "put" -> 1
    [] OTHER -> 0

\* An attempt that runs has a step to take that waits for nobody.
NeverStuck ==
  \A a \in Attempts : Running(a) =>
    \/ job[a].pc = "write"
    \/ job[a].pc = "poll" /\ job[a].left \in 0..Polls
    \/ job[a].pc = "found" /\ job[a].held \cap ledger # {}
    \/ job[a].pc = "put" /\ job[a].result \in Results

\* Whatever changes an attempt brings it nearer to its end.
MovesOn == \A a \in Attempts : job'[a] # job[a] => Ahead(job'[a]) < Ahead(job[a])

\* The safety half of AttemptsEnd, first part: no goroutine waits for ever.
THEOREM AttemptsAreNeverStuck == Spec => []NeverStuck
<1>1. ASSUME IInv, NEW a \in Attempts, Running(a)
      PROVE  \/ job[a].pc = "write"
             \/ job[a].pc = "poll" /\ job[a].left \in 0..Polls
             \/ job[a].pc = "found" /\ job[a].held \cap ledger # {}
             \/ job[a].pc = "put" /\ job[a].result \in Results
  <2>1. job[a] \in Job
    BY <1>1 DEF IInv, TypeOK
  <2>2. CASE job[a].pc = "found"
    BY <1>1, <2>2 DEF IInv, HeldInv
  <2>3. CASE job[a].pc = "put"
    BY <1>1, <2>1, <2>3 DEF IInv, ResultInv, Job
  <2> QED
    BY <1>1, <2>1, <2>2, <2>3 DEF Running, Job
<1>2. IInv => NeverStuck
  BY <1>1 DEF NeverStuck
<1> QED
  BY <1>2, Invariance, PTL

\* The bound for the jobs an attempt starts with.
LEMMA AheadOf ==
  /\ Ahead(NoJob) = Polls + 5
  /\ Ahead(Polling) = Polls + 3
  /\ Ahead(Unwritten) = 1
  /\ \A j : j.pc = "write" => Ahead(j) = Polls + 4
  /\ \A j : j.pc = "put" => Ahead(j) = 1
<1>1. NoJob.pc = "idle"
  BY DEF NoJob
<1>2. Polling.pc = "poll" /\ Polling.left = Polls
  BY DEF Polling, NoJob
<1>3. Unwritten.pc = "put"
  BY DEF Unwritten, NoJob
<1> QED
  BY <1>1, <1>2, <1>3 DEF Ahead

\* The second part: no poll puts its deadline off and no attempt starts over,
\* so an attempt is over after Polls + 5 steps of its own.
THEOREM AttemptsMoveOn == Spec => [][MovesOn]_vars
<1>1. ASSUME IInv, Next, NEW a \in Attempts, job'[a] # job[a]
      PROVE  Ahead(job'[a]) < Ahead(job[a])
  <2>1. TypeOK /\ job[a] \in Job
    BY <1>1 DEF IInv, TypeOK
  <2>2. ASSUME NEW r \in Requests, NEW j, Start(r, j), j.pc \in {"write", "put"} \/ j = Polling
        PROVE  Ahead(job'[a]) < Ahead(job[a])
    <3>1. a = <<r, tries[r] + 1>> /\ job'[a] = j
      BY <1>1, <2>1, <2>2, StartType DEF Start, TypeOK
    <3>2. job[a] = NoJob
      BY <1>1, <2>1, <3>1 DEF IInv, FreshInv, Request, TypeOK
    <3> QED
      BY <2>2, <3>1, <3>2, AheadOf
  <2>3. CASE \E r \in Requests : Dispatch(r) \/ PostLocal(r)
    <3>1. PICK r \in Requests : Dispatch(r) \/ PostLocal(r)
      BY <2>3
    <3> QED
      BY <1>1, <2>2, <3>1
         DEF Dispatch, SkipMalformed, DispatchOrder, DispatchPayment, PostLocal, NoJob, Unwritten
  <2>4. CASE \E b \in Attempts : Step(b)
    <3>1. PICK b \in Attempts : Step(b)
      BY <2>4
    <3>2. a = b
      BY <1>1, <2>1, <3>1
         DEF Step, WriteOrderXML, Poll, Timeout, RemoveConfirmation, PutResult, TypeOK
    <3>3. CASE WriteOrderXML(a)
      <4>1. job[a].pc = "write" /\ job'[a] \in {Polling, Unwritten}
        BY <2>1, <3>3 DEF WriteOrderXML, TypeOK
      <4> QED
        BY <4>1, AheadOf
    <3>4. CASE Poll(a)
      BY <2>1, <3>4 DEF Poll, TypeOK, Ahead, Job
    <3>5. CASE Timeout(a)
      BY <2>1, <3>5 DEF Timeout, TypeOK, Ahead, Job
    <3>6. CASE RemoveConfirmation(a)
      BY <2>1, <3>6 DEF RemoveConfirmation, TypeOK, Ahead, Job
    <3>7. CASE PutResult(a)
      BY <2>1, <3>7 DEF PutResult, TypeOK, Ahead, Job
    <3> QED
      BY <3>1, <3>2, <3>3, <3>4, <3>5, <3>6, <3>7 DEF Step
  <2>5. CASE Crash
    <3>1. Running(a) /\ job'[a].pc = "dead"
      BY <1>1, <2>1, <2>5 DEF Crash, Job
    <3> QED
      BY <2>1, <3>1 DEF Running, Ahead, Job
  <2> QED
    BY <1>1, <2>3, <2>4, <2>5 DEF Next, Fetch, PosExecute
<1>2. IInv /\ [Next]_vars => [MovesOn]_vars
  BY <1>1 DEF MovesOn
<1> QED
  BY <1>2, Invariance, PTL DEF Spec

\* One request that was handed out once: what its answer says is what happened.
LEMMA SoleAttemptState ==
  ASSUME IInv, NEW r \in Requests, tries[r] = 1
  PROVE  LET first == <<r, 1>>
         IN  /\ answer[r] \in {"created", "paid"} =>
                  ledger \cap [att : {first}, ok : BOOLEAN] = {[att |-> first, ok |-> TRUE]}
             /\ answer[r] \in {"rejected", "unwritten"} => ~Executed(r, TRUE)
             /\ answer[r] # "none" /\ answer[r] # "timeout" => first \notin inbox
<1> DEFINE first == <<r, 1>>
<1>1. first \in Attempts /\ Request(first) = r
  BY DEF Attempts, Request
<1>2. ASSUME NEW c \in ledger, Request(c.att) = r
      PROVE  c.att = first
  <2>1. c.att \in Attempts /\ c.att = <<r, c.att[2]>> /\ c.att[2] \in 1..MaxTries
    BY <1>2 DEF IInv, TypeOK, Confirmations, Attempts, Request
  <2>2. job[c.att].pc # "idle"
    BY <2>1 DEF IInv, FilesInv, Executions
  <2>3. ~(c.att[2] > tries[r])
    BY <1>2, <2>1, <2>2 DEF IInv, FreshInv, NoJob
  <2> QED
    BY <2>1, <2>3
<1>3. ASSUME NEW k \in 1..MaxTries, job[<<r, k>>].result # "none"
      PROVE  k = 1
  <2>1. <<r, k>> \in Attempts /\ Request(<<r, k>>) = r
    BY DEF Attempts, Request
  <2>2. ~(k > tries[r])
    BY <1>3, <2>1 DEF IInv, FreshInv, NoJob
  <2> QED
    BY <2>2
<1>4. ASSUME NEW ok \in BOOLEAN, Contract!Executed(r, ok)
      PROVE  [att |-> first, ok |-> ok] \in ledger /\ first \notin inbox
  <2>1. PICK k \in 1..MaxTries : [att |-> <<r, k>>, ok |-> ok] \in ledger
    BY <1>4 DEF Contract!Executed
  <2>2. <<r, k>> = first
    BY <1>2, <2>1 DEF Request
  <2> QED
    BY <2>1, <2>2 DEF IInv, FilesInv
<1>5. ASSUME answer[r] \in {"created", "paid"}
      PROVE  /\ ledger \cap [att : {first}, ok : BOOLEAN] = {[att |-> first, ok |-> TRUE]}
             /\ first \notin inbox
  <2>1. Contract!Executed(r, TRUE)
    BY <1>5 DEF IInv, AnswerInv, Contract!Allowed
  <2>2. [att |-> first, ok |-> TRUE] \in ledger /\ first \notin inbox
    BY <1>4, <2>1
  <2>3. ASSUME NEW c \in ledger, c.att = first
        PROVE  c = [att |-> first, ok |-> TRUE]
    BY <2>2, <2>3 DEF IInv, OneExecutionPerAttempt
  <2>4. [att |-> first, ok |-> TRUE] \in [att : {first}, ok : BOOLEAN]
    OBVIOUS
  <2>5. \A c \in [att : {first}, ok : BOOLEAN] : c.att = first
    OBVIOUS
  <2> HIDE DEF first
  <2> QED
    BY <2>2, <2>3, <2>4, <2>5
<1>6. ASSUME answer[r] = "rejected"
      PROVE  ~Executed(r, TRUE) /\ first \notin inbox
  <2>1. Contract!Executed(r, FALSE)
    BY <1>6 DEF IInv, AnswerInv, Contract!Allowed
  <2>2. [att |-> first, ok |-> FALSE] \in ledger /\ first \notin inbox
    BY <1>4, <2>1
  <2>3. ASSUME NEW c \in ledger, Request(c.att) = r
        PROVE  c.ok = FALSE
    <3>1. c.att = first
      BY <1>2, <2>3
    <3> QED
      BY <2>2, <3>1 DEF IInv, OneExecutionPerAttempt
  <2> QED
    BY <2>2, <2>3 DEF Executed
<1>7. ASSUME answer[r] = "unwritten"
      PROVE  ~Executed(r, TRUE) /\ first \notin inbox
  <2>1. job[first].result = "unwritten"
    BY <1>3, <1>7 DEF IInv, AnswerInv
  <2>2. first \notin inbox /\ Executions(first) = {}
    BY <1>1, <2>1 DEF IInv, FilesInv
  <2> QED
    BY <1>2, <2>2 DEF Executions, Executed
<1>8. answer[r] # "invalid"
  <2>1. r \notin Malformed
    BY DEF IInv, FreshInv
  <2> QED
    BY <2>1 DEF IInv, AnswerInv, Contract!Allowed
<1> QED
  BY <1>5, <1>6, <1>7, <1>8 DEF IInv, TypeOK, Results

\* What happened is exact for a request that was handed out once.
THEOREM SoleAttempt == Spec => []SoleAttemptIsExact
<1>1. IInv => SoleAttemptIsExact
  BY SoleAttemptState DEF SoleAttemptIsExact
<1> QED
  BY <1>1, Invariance, PTL

\* No payment was ever answered with what the POS did with it.
PaymentsStayUnconfirmed == \A r \in Payments : answer[r] \notin {"paid", "rejected"}

\* Where the two directories differ no poll of a payment finds its confirmation:
\* every payment is reported as timed out or unwritten, whatever the POS did.
THEOREM PaymentsNeverConfirmed ==
  ASSUME XmlDir # XmlInOrderDir
  PROVE  Spec => []PaymentsStayUnconfirmed
<1> DEFINE Blind == \A a \in Attempts : Request(a) \in Payments =>
                      job[a].pc # "found" /\ job[a].result \notin {"paid", "rejected"}
<1>1. Init => Blind
  BY DEF Init, NoJob
<1>2. ASSUME TypeOK, Blind, [Next]_vars
      PROVE  Blind'
  <2> SUFFICES ASSUME NEW a \in Attempts, Request(a) \in Payments, job'[a] # job[a]
               PROVE  job'[a].pc # "found" /\ job'[a].result \notin {"paid", "rejected"}
    BY <1>2
  <2>1. job[a].pc # "found" /\ job[a].result \notin {"paid", "rejected"} /\ job[a] \in Job
    BY <1>2 DEF TypeOK
  <2>2. CASE \E r \in Requests : Dispatch(r) \/ PostLocal(r)
    <3>1. PICK r \in Requests, j \in {[NoJob EXCEPT !.pc = "write"], Polling, Unwritten} :
            job' = [job EXCEPT ![<<r, tries[r] + 1>>] = j]
      BY <2>2 DEF Dispatch, SkipMalformed, DispatchOrder, DispatchPayment, PostLocal, Start
    <3>2. job'[a] = j
      BY <1>2, <3>1 DEF TypeOK
    <3>3. j.pc # "found" /\ j.result \in {"none", "unwritten"}
      BY <3>1 DEF NoJob, Polling, Unwritten
    <3> QED
      BY <3>2, <3>3
  <2>3. CASE \E b \in Attempts : Step(b)
    <3>1. PICK b \in Attempts : Step(b)
      BY <2>3
    <3>2. a = b
      BY <1>2, <3>1
         DEF Step, WriteOrderXML, Poll, Timeout, RemoveConfirmation, PutResult, TypeOK
    <3>3. CASE WriteOrderXML(a)
      <4>1. job'[a] \in {Polling, Unwritten}
        BY <1>2, <3>3 DEF WriteOrderXML, TypeOK
      <4> QED
        BY <4>1 DEF NoJob, Polling, Unwritten
    <3>4. CASE Poll(a)
      <4>1. FindConfirmation(SearchDir(Request(a)), Request(a)) = {}
        BY DEF FindConfirmation, SearchDir
      <4> QED
        BY <1>2, <2>1, <3>4, <4>1 DEF Poll, TypeOK, Job
    <3>5. CASE Timeout(a) \/ PutResult(a)
      BY <1>2, <2>1, <3>5 DEF Timeout, PutResult, TypeOK, Job
    <3>6. CASE RemoveConfirmation(a)
      BY <2>1, <3>6 DEF RemoveConfirmation
    <3> QED
      BY <3>1, <3>2, <3>3, <3>4, <3>5, <3>6 DEF Step
  <2>4. CASE Crash
    BY <1>2, <2>1, <2>4 DEF Crash, TypeOK, Job
  <2> QED
    BY <1>2, <2>2, <2>3, <2>4 DEF Next, Fetch, PosExecute, vars
<1>3. ASSUME IInv, Blind PROVE PaymentsStayUnconfirmed
  <2> SUFFICES ASSUME NEW r \in Payments, answer[r] \in {"paid", "rejected"}
               PROVE  FALSE
    BY DEF PaymentsStayUnconfirmed
  <2>1. PICK k \in 1..MaxTries : job[<<r, k>>].result = answer[r]
    BY <1>3 DEF IInv, AnswerInv, Requests
  <2>2. <<r, k>> \in Attempts /\ Request(<<r, k>>) = r
    BY DEF Attempts, Request, Requests
  <2> QED
    BY <1>3, <2>1, <2>2
<1> HIDE DEF Blind
<1> QED
  BY <1>1, <1>2, <1>3, Invariance, TypeCorrect, PTL DEF Spec

\* Where orders and payments are confirmed in the directory that is searched
\* for both, no poll overlooks a confirmation.
THEOREM PollsAreReliable ==
  ASSUME XmlDir = XmlInOrderDir \/ Payments = {}
  PROVE  Spec => PollSeesConfirmation
<1> DEFINE Overlooks(a) ==
      /\ job[a].pc = "poll" /\ job'[a].left < job[a].left
      /\ \E c \in outs : Request(c.att) = Request(a)
<1>1. ASSUME TypeOK, NEW a \in Attempts, NEW b \in Attempts, Step(b)
      PROVE  ~Overlooks(a)
  <2>1. CASE a = b /\ Poll(b)
    <3>1. SearchDir(Request(a)) = XmlDir
      BY DEF SearchDir
    <3>2. FindConfirmation(SearchDir(Request(a)), Request(a)) = {} =>
            ~\E c \in outs : Request(c.att) = Request(a)
      BY <3>1 DEF FindConfirmation
    <3>3. ASSUME NEW c \in outs,
                 job' = [job EXCEPT ![a].pc = "found", ![a].held = {c}]
          PROVE  job'[a].left = job[a].left
      BY <1>1, <3>3 DEF TypeOK, Job
    <3>4. job[a].left \in Nat
      BY <1>1 DEF TypeOK, Job
    <3> QED
      BY <2>1, <3>2, <3>3, <3>4 DEF Poll, FindConfirmation
  <2>2. CASE a # b
    <3>1. job'[a] = job[a]
      BY <1>1, <2>2 DEF TypeOK, Step, WriteOrderXML, Poll, Timeout, RemoveConfirmation, PutResult
    <3> QED
      BY <1>1, <3>1 DEF TypeOK, Job
  <2>3. CASE a = b /\ Timeout(b)
    <3>1. job'[a].left = job[a].left
      BY <1>1, <2>3 DEF TypeOK, Job, Timeout
    <3> QED
      BY <1>1, <3>1 DEF TypeOK, Job
  <2>4. CASE a = b /\ (WriteOrderXML(b) \/ RemoveConfirmation(b) \/ PutResult(b))
    BY <2>4 DEF WriteOrderXML, RemoveConfirmation, PutResult
  <2> QED
    BY <1>1, <2>1, <2>2, <2>3, <2>4 DEF Step
<1>2. ASSUME IInv, NEW a \in Attempts, NEW r \in Requests, NEW j, Start(r, j)
      PROVE  ~Overlooks(a)
  <2>1. CASE a = <<r, tries[r] + 1>>
    BY <1>2, <2>1 DEF IInv, TypeOK, FreshInv, NoJob, Start, Attempts, Request
  <2>2. CASE a # <<r, tries[r] + 1>>
    <3>1. job'[a] = job[a]
      BY <1>2, <2>2 DEF IInv, TypeOK, Start
    <3> QED
      BY <1>2, <3>1 DEF IInv, TypeOK, Job
  <2> QED
    BY <2>1, <2>2
<1>3. ASSUME TypeOK, NEW a \in Attempts, Crash
      PROVE  ~Overlooks(a)
  <2>1. job'[a].left = job[a].left
    BY <1>3 DEF TypeOK, Crash, Job
  <2> QED
    BY <1>3, <2>1 DEF TypeOK, Job
<1>4. ASSUME TypeOK, NEW a \in Attempts, job' = job
      PROVE  ~Overlooks(a)
  BY <1>4 DEF TypeOK, Job
<1>5. ASSUME IInv, [Next]_vars, NEW a \in Attempts
      PROVE  ~Overlooks(a)
  <2>1. TypeOK
    BY <1>5 DEF IInv
  <2>2. \/ job' = job
        \/ \E r \in Requests, j \in {[NoJob EXCEPT !.pc = "write"], Polling, Unwritten} :
             Start(r, j)
        \/ \E b \in Attempts : Step(b)
        \/ Crash
    BY <1>5 DEF Next, vars, Fetch, Dispatch, SkipMalformed, DispatchOrder, DispatchPayment,
                PostLocal, PosExecute
  <2> QED
    BY <1>1, <1>2, <1>3, <1>4, <1>5, <2>1, <2>2
<1>6. IInv /\ [Next]_vars =>
        [\A a \in Attempts :
           job[a].pc = "poll" /\ job'[a].left < job[a].left =>
             \A c \in outs : Request(c.att) # Request(a)]_vars
  BY <1>5
<1> QED
  BY <1>6, Invariance, PTL DEF Spec, PollSeesConfirmation

-----------------------------------------------------------------------------
(* The refinement. *)

LEMMA StartIsTry ==
  ASSUME IInv, NEW r \in Requests \ Malformed, NEW j, Start(r, j),
         UNCHANGED <<answer, ledger>>
  PROVE  Contract!Next
BY DEF Start, Contract!Next, Contract!Try, Contract!Requests, Requests

\* A reported result is one the contract allows; a lost one is a stutter.
LEMMA PutIsAnswer ==
  ASSUME IInv, NEW a \in Attempts, PutResult(a)
  PROVE  [Contract!Next]_Contract!vars
<1>1. Request(a) \in Requests /\ job[a].result \in Results
  BY DEF IInv, TypeOK, ResultInv, PutResult, Job, Attempts, Request
<1>2. Contract!Allowed(Request(a), job[a].result)
  BY <1>1 DEF IInv, ResultInv, PutResult
<1>3. CASE answer' = [answer EXCEPT ![Request(a)] = job[a].result]
  <2>1. Contract!Answer(Request(a), job[a].result)
    BY <1>2, <1>3 DEF PutResult, Contract!Answer
  <2> QED
    BY <1>1, <2>1 DEF Contract!Next, Contract!Requests, Requests, Contract!Results, Results
<1>4. CASE UNCHANGED answer
  BY <1>4 DEF PutResult, Contract!vars
<1> QED
  BY <1>3, <1>4 DEF PutResult

\* An ORDER file in the inbound directory is an attempt not yet executed.
LEMMA PosIsExecute ==
  ASSUME IInv, NEW a \in Attempts, NEW ok \in BOOLEAN, PosExecute(a, ok)
  PROVE  Contract!Next
<1>1. PICK r \in Requests, k \in 1..MaxTries : a = <<r, k>>
  BY DEF Attempts
<1>2. job[a].pc # "idle"
  BY DEF IInv, FilesInv, PosExecute
<1>3. k \in 1..tries[r]
  BY <1>1, <1>2 DEF IInv, TypeOK, FreshInv, NoJob, Request
<1>4. \A e \in ledger : e.att # <<r, k>>
  BY <1>1 DEF IInv, FilesInv, PosExecute
<1>5. Contract!Execute(r, k, ok)
  BY <1>1, <1>3, <1>4 DEF PosExecute, Contract!Execute
<1> QED
  BY <1>1, <1>5 DEF Contract!Next, Contract!Requests, Requests

\* The file exchange implements the contract: every step of the pollers, the
\* goroutines, the handler, the POS or a crash is a contract step or a stutter.
THEOREM Refinement == Spec => ContractSpec
<1>1. Init => Contract!Init
  BY DEF Init, Contract!Init, Contract!Requests, Requests
<1>2. ASSUME IInv, [Next]_vars
      PROVE  [Contract!Next]_Contract!vars
  <2>1. ASSUME NEW queue \in {Orders, Payments}, Fetch(queue)
        PROVE  UNCHANGED Contract!vars
    BY <2>1 DEF Fetch, Contract!vars
  <2>2. ASSUME NEW r \in Requests, Dispatch(r)
        PROVE  [Contract!Next]_Contract!vars
    BY <1>2, <2>2, StartIsTry
       DEF Dispatch, SkipMalformed, DispatchOrder, DispatchPayment, Contract!vars
  <2>3. ASSUME NEW r \in Requests, PostLocal(r)
        PROVE  [Contract!Next]_Contract!vars
    <3>1. CASE r \in Malformed
      <4>1. Contract!Answer(r, "invalid")
        BY <2>3, <3>1 DEF PostLocal, Contract!Answer, Contract!Allowed
      <4> QED
        BY <4>1 DEF Contract!Next, Contract!Requests, Requests, Contract!Results
    <3>2. CASE r \notin Malformed
      BY <1>2, <2>3, <3>2, StartIsTry DEF PostLocal
    <3> QED
      BY <3>1, <3>2
  <2>4. ASSUME NEW a \in Attempts, Step(a)
        PROVE  [Contract!Next]_Contract!vars
    BY <1>2, <2>4, PutIsAnswer
       DEF Step, WriteOrderXML, Poll, Timeout, RemoveConfirmation, Contract!vars
  <2>5. ASSUME NEW a \in Attempts, NEW ok \in BOOLEAN, PosExecute(a, ok)
        PROVE  Contract!Next
    BY <1>2, <2>5, PosIsExecute
  <2>6. CASE Crash
    BY <2>6 DEF Crash, Contract!vars
  <2>7. CASE UNCHANGED vars
    BY <2>7 DEF vars, Contract!vars
  <2> QED
    BY <1>2, <2>1, <2>2, <2>3, <2>4, <2>5, <2>6, <2>7 DEF Next
<1> QED
  BY <1>1, <1>2, Invariance, PTL DEF Spec, ContractSpec, Contract!Spec
=============================================================================
