----------------------------- MODULE MCReaders -----------------------------
(***************************************************************************)
(* Readers on a small instance (ReadersWhileWritten.cfg): every subset of  *)
(* the files, three writes of the POS, up to two revenue centers.  The     *)
(* names of revenue centers are interchangeable: no definition tells one   *)
(* from another.                                                           *)
(***************************************************************************)
EXTENDS Readers, TLC

Symmetry == Permutations(Names)

\* The loop of tables.go: the names that are left, in a list of their own.
Named(slots) == SelectSeq(slots, LAMBDA n : n # Blank)

\* Place finds what that list has at the position.
ASSUME PlaceIsPosition ==
  \A slots \in Slots, n \in 0..(MaxSlots + 1) :
    {slots[i] : i \in Place(slots, n)} =
      IF n \in 1..Len(Named(slots)) THEN {Named(slots)[n]} ELSE {}
=============================================================================
