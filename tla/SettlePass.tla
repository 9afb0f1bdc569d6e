----------------------------- MODULE SettlePass -----------------------------
(***************************************************************************)
(* The pass over the active list that brings a level to rest, before the   *)
(* player leaves it or while he sleeps (advance_mobile_objects, ai.c):     *)
(* creatures take a step and heal half their wounds, creatures a trap has  *)
(* made are taken away, and what flies is turned into a static object.     *)
(*                                                                         *)
(* The pass walks the list by index.  An object that settles leaves the    *)
(* list and the index stays; a creature that is taken away leaves it too,  *)
(* and the index moves on.                                                 *)
(***************************************************************************)
EXTENDS ActiveList

VARIABLES
  creatures,  \* listed objects of class 0x40; the others fly
  temporary,  \* creatures made by a trap: bit 0 of byte 0x0e
  passIndex,  \* index of the visited entry, 0 outside a pass
  passObject, \* the visited object
  visited,    \* history: the creatures the pass has moved
  passedOver  \* history: entries that a removal took past the index

kinds == <<creatures, temporary>>
place == <<passIndex, passObject>>
history == <<visited, passedOver>>
passVars == <<list, kinds, place, history>>

Flying == Listed \ creatures
Passing == passIndex # 0

NoPass ==
  /\ creatures = {} /\ temporary = {}
  /\ passIndex = 0 /\ passObject = NoMobile /\ visited = {} /\ passedOver = {}

PassInit == list = <<>> /\ NoPass

----------------------------------------------------------------------------
(* Between passes.                                                         *)

\* dispatch_trap_type_effect, case 7: the creature is a copy of the trap's
\* template, with the mark if process_nearby_background_traps has set it there.
CreatureMade(m, byTrap) ==
  /\ ~Passing /\ m \notin Listed
  /\ list' = Append(list, m)
  /\ creatures' = creatures \cup {m}
  /\ temporary' = IF byTrap THEN temporary \cup {m} ELSE temporary
  /\ UNCHANGED <<place, history>>

ObjectThrown(m) ==
  /\ ~Passing /\ m \notin Listed
  /\ list' = Append(list, m)
  /\ UNCHANGED <<kinds, place, history>>

TakeOff(m) ==
  /\ list' = Without(list, m)
  /\ creatures' = creatures \ {m}
  /\ temporary' = temporary \ {m}

MobileRemoved(m) ==
  /\ ~Passing /\ m \in Listed
  /\ TakeOff(m)
  /\ UNCHANGED <<place, history>>

----------------------------------------------------------------------------
(* advance_mobile_objects                                                  *)

BeginPass ==
  /\ ~Passing /\ list # <<>>
  /\ passIndex' = 1 /\ passObject' = list[1] /\ visited' = {} /\ passedOver' = {}
  /\ UNCHANGED <<list, kinds>>

PassGoTo(i) ==
  IF i <= Len(list') THEN passIndex' = i /\ passObject' = list'[i]
                     ELSE passIndex' = 0 /\ passObject' = NoMobile

\* npc_movement_tick of a creature that stays.
VisitCreature ==
  /\ Passing /\ passObject \in creatures \ temporary
  /\ visited' = visited \cup {passObject}
  /\ UNCHANGED <<list, kinds, passedOver>>
  /\ PassGoTo(passIndex + 1)

\* npc_movement_tick of a creature that is taken away; the caller does not know.
VisitTemporary ==
  /\ Passing /\ passObject \in temporary
  /\ TakeOff(passObject)
  /\ passedOver' = passedOver \cup Overtaken(list, passObject, passIndex + 1)
  /\ UNCHANGED visited
  /\ PassGoTo(passIndex + 1)

\* In the middle of settle_misplaced_mobile_object: settle_mobile_to_immobile
\* asks for a static record and the garbage collector frees another mobile.
CollectOther(m) ==
  /\ Passing /\ passObject \in Flying /\ m \in Listed \ {passObject}
  /\ TakeOff(m)
  /\ passedOver' = passedOver \cup (Overtaken(list, m, passIndex) \ {passObject})
  /\ UNCHANGED <<place, visited>>

\* Mutant: the index moves on, as it does for creatures.
VisitFlyingMovesOn ==
  /\ Passing /\ passObject \in Flying
  /\ TakeOff(passObject)
  /\ UNCHANGED history
  /\ PassGoTo(passIndex + 1)

\* settle_misplaced_mobile_object: the object is discarded or becomes a static one.
VisitFlying ==
  /\ Passing /\ passObject \in Flying
  /\ TakeOff(passObject)
  /\ UNCHANGED history
  /\ PassGoTo(passIndex)

\* The static object is placed where it cannot lie (find_object_placement,
\* settle_dropped_object) and flies again, in the slot just freed.
VisitFlyingFalls ==
  /\ Passing /\ passObject \in Flying
  /\ list' = Append(Without(list, passObject), passObject)
  /\ passedOver' = passedOver \cup (IF passIndex > Len(list) THEN {passObject} ELSE {})
  /\ UNCHANGED <<kinds, visited>>
  /\ PassGoTo(passIndex)

PassNext ==
  \/ \E m \in Mobiles : ObjectThrown(m) \/ MobileRemoved(m) \/ CollectOther(m)
  \/ \E m \in Mobiles, byTrap \in BOOLEAN : CreatureMade(m, byTrap)
  \/ BeginPass
  \/ VisitCreature \/ VisitTemporary \/ VisitFlying \/ VisitFlyingFalls

PassSpec == PassInit /\ [][PassNext]_passVars

----------------------------------------------------------------------------
(* Properties.                                                             *)

PassEnds == Passing /\ passIndex' = 0

\* When the pass ends (advance_mobile_objects) nothing flies, no creature of a
\* trap is left and every other creature has taken its step, those apart that a
\* removal took past the index.
\* And no creature takes its step twice in a pass (npc_movement_tick halves the
\* wounds each time), however removals and falls shuffle the list.
PassReachesAll ==
  [][/\ PassEnds => \A m \in Listed' \ passedOver' : m \in visited' /\ m \notin temporary'
     /\ VisitCreature => passObject \notin visited]_passVars
=============================================================================
