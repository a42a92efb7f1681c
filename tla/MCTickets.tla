----------------------------- MODULE MCTickets -----------------------------
(***************************************************************************)
(* Tickets on small instances: TicketsScan.cfg and TicketsMatch.cfg choose *)
(* checks, tables and the match window.                                    *)
(***************************************************************************)
EXTENDS Tickets
=============================================================================
