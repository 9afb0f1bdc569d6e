----------------------------- MODULE ActiveList -----------------------------
(***************************************************************************)
(* The active mobile list (objects.c) as a sequence of slots, for the      *)
(* modules that sweep over it.  ObjectArena models the array itself.       *)
(***************************************************************************)
EXTENDS Integers, SequencesExt

CONSTANTS
  Mobiles,  \* slots of mobile records
  NoMobile  \* no object

VARIABLE list  \* the active mobile list (DAT_002046c0)

Listed == ToSet(list)

IndexIn(l, m) == CHOOSE i \in DOMAIN l : l[i] = m

\* active_mobile_list_remove: the last entry takes the place of the removed one.
Without(l, m) == SubSeq([l EXCEPT ![IndexIn(l, m)] = Last(l)], 1, Len(l) - 1)

\* The entry that a removal of m takes past the index of a sweep, if any.
Overtaken(l, m, index) ==
  IF IndexIn(l, m) < index /\ index <= Len(l) THEN {Last(l)} \ {m} ELSE {}
=============================================================================
