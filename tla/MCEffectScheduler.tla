------------------------- MODULE MCEffectScheduler -------------------------
(* Two doors, one of them a portcullis, and two effect slots share a table  *)
(* of three entries (in the runs about doors) or of two, so that it is      *)
(* full with doors alone, with effects alone and with both.                 *)
EXTENDS EffectScheduler

CONSTANTS d1, d2, e1, e2

MCDoors == {d1, d2}
MCOneDoor == {d1}
MCEffects == {e1, e2}
MCSwingTime == [d \in Doors |-> IF d = d1 THEN 5 ELSE 4]
MCDelays == {-1, 1}
=============================================================================
