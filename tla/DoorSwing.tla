----------------------------- MODULE DoorSwing -----------------------------
(***************************************************************************)
(* The record of a door and what scheduler.c and doors.c do to it.         *)
(*                                                                         *)
(*   moving   the object id is 0x1cf, "door in motion"                     *)
(*   open     bit 3 of the id nibble of a door at rest                     *)
(*   owner    bit 3 of the owner nibble of a moving door: it was open when *)
(*            the swing began, and changes with every command              *)
(*   closing  bit 12 of the first word: the direction of the swing, or for *)
(*            a door at rest the direction of the next one                 *)
(*   f        bits 9..11, the frame of the swing                           *)
(*                                                                         *)
(* closing and f together are one 4-bit counter, which is why a step too   *)
(* far turns the door round.  The height of the door is not modelled.      *)
(***************************************************************************)
EXTENDS Integers

DoorRecords ==
  [moving : BOOLEAN, open : BOOLEAN, owner : BOOLEAN, closing : BOOLEAN, f : 0 .. 7]

\* A door of the level data: a closed one is to swing open from frame 0, an open
\* one to swing shut from its last frame.
Resting(isOpen, time) ==
  [moving |-> FALSE, open |-> isOpen, owner |-> FALSE, closing |-> isOpen,
   f |-> IF isOpen THEN time ELSE 0]

WithCounter(r, c) == [r EXCEPT !.closing = (c % 16) >= 8, !.f = c % 8]

\* The bit-4 branch of scheduler_step_entry.
Swung(r, ticks) ==
  WithCounter(r, IF r.closing THEN 8 + r.f - ticks ELSE r.f + ticks)

\* scheduler_advance_effect when the door is blocked: it is to open again, from
\* the frame before the step.  ticks carries the sign of the step.
Rebound(r, ticks) == WithCounter(r, r.f - (ticks + 1))

\* The direction turned round, as adjust_door_close_animation_delay and
\* scheduler_finish_entry write it.
Turned(r) == [r EXCEPT !.closing = ~@]

\* A command turns a moving door round (close_door_object, open_door_object).
Reversed(r) == Turned([r EXCEPT !.owner = ~r.owner])

\* scheduler_step_entry on a door: only a closing door is tested for clearance.
TestsClearance(r, ticks) == Swung(r, ticks).closing
Stepped(r, ticks, blocked) ==
  IF blocked THEN Rebound(Swung(r, ticks), IF r.closing THEN -ticks ELSE ticks)
             ELSE Swung(r, ticks)

\* schedule_door_open_animation
SetMoving(r) == [r EXCEPT !.moving = TRUE, !.owner = r.open]

\* Mutant: the direction is not turned round when the swing ends.
CommittedKeepsDirection(r, isOpen) ==
  [r EXCEPT !.moving = FALSE, !.open = isOpen, !.owner = FALSE]

\* The end of scheduler_finish_entry: an ordinary door again.
Committed(r, isOpen) ==
  Turned([r EXCEPT !.moving = FALSE, !.open = isOpen, !.owner = FALSE])
=============================================================================
