------------------------- MODULE InjectionContract -------------------------
(***************************************************************************)
(* What order and payment injection promises to whoever asked for it, with *)
(* no files, goroutines or timers: every hand-over of a request (a try)    *)
(* gives the point of sale one thing to execute at most, nothing that was  *)
(* executed is undone, and a verdict is never reported unless something    *)
(* was executed with that verdict.                                         *)
(***************************************************************************)
EXTENDS Naturals

CONSTANTS Orders, Payments, Locals, Malformed, MaxTries

VARIABLES
  heard,    \* heard[r]: the last result the requester heard for r
  started,  \* started[r]: how often the agent started to work on r
  executed  \* what the POS executed: one entry per executed try

vars == <<heard, started, executed>>

Requests == Orders \cup Payments \cup Locals

\* Some try of r was executed with this verdict.
Executed(r, ok) == \E k \in 1..MaxTries : [att |-> <<r, k>>, ok |-> ok] \in executed

\* The answers the contract allows the agent to give for r.
Allowed(r, result) ==
  \/ result = "created"  /\ r \in Orders \cup Locals /\ Executed(r, TRUE)
  \/ result = "paid"     /\ r \in Payments /\ Executed(r, TRUE)
  \/ result = "rejected" /\ Executed(r, FALSE)
  \/ result \in {"timeout", "unwritten"} /\ started[r] > 0
  \/ result = "invalid"  /\ r \in Locals \cap Malformed

Init ==
  /\ heard = [r \in Requests |-> "none"]
  /\ started = [r \in Requests |-> 0]
  /\ executed = {}

Try(r) ==
  /\ r \notin Malformed
  /\ started' = [started EXCEPT ![r] = @ + 1]
  /\ UNCHANGED <<heard, executed>>

Execute(r, k, ok) ==
  /\ k \in 1..started[r]
  /\ \A e \in executed : e.att # <<r, k>>
  /\ executed' = executed \cup {[att |-> <<r, k>>, ok |-> ok]}
  /\ UNCHANGED <<heard, started>>

Answer(r, result) ==
  /\ Allowed(r, result)
  /\ heard' = [heard EXCEPT ![r] = result]
  /\ UNCHANGED <<started, executed>>

Results == {"created", "paid", "rejected", "timeout", "unwritten", "invalid"}

Next ==
  \E r \in Requests :
    \/ Try(r)
    \/ \E k \in 1..MaxTries, ok \in BOOLEAN : Execute(r, k, ok)
    \/ \E result \in Results : Answer(r, result)

Spec == Init /\ [][Next]_vars
=============================================================================
