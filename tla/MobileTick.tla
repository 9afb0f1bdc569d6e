----------------------------- MODULE MobileTick -----------------------------
(***************************************************************************)
(* The sweep that moves creatures and flying objects (ai.c).               *)
(*                                                                         *)
(* Every mobile record holds a phase on a clock of sixteen units; a sweep  *)
(* advances the clock by one to five units and visits the active list by   *)
(* index.  A visited object that is due is ticked, each tick adding its    *)
(* speed class to its phase, until it is no longer due.  Ticks take the    *)
(* visited object off the list, put it back, spawn others and free others, *)
(* and the list fills a gap with its last entry, so that an entry may pass *)
(* from the part of the list still to be visited to the part already done. *)
(*                                                                         *)
(* Creatures and flying objects are not told apart: a tick does whatever   *)
(* either of them may do.                                                  *)
(***************************************************************************)
EXTENDS ActiveList

CONSTANTS
  Classes,       \* the low three bits of attack_pitch: 1 .. 7
  LoadedPhases,  \* phases of the creatures in a level file
  Leads,         \* how far ahead of the clock new records are placed: 0 .. 3
  Elapsed        \* the arguments of tick_mobile_objects

Ring == 16

ASSUME MobileAssumption ==
  /\ NoMobile \notin Mobiles
  /\ Classes \subseteq 1 .. 7
  /\ LoadedPhases \subseteq 0 .. Ring - 1
  /\ Leads \subseteq 0 .. 3
  /\ Elapsed \subseteq 1 .. 5

VARIABLES
  phase,    \* tick_phase of every record
  clock,    \* DAT_00101948, the ring clock of the last sweep
  now,      \* DAT_00101928, the ring clock of this one
  cursor,   \* index of the visited entry, 0 outside a sweep
  current,  \* DAT_0010190c, the visited object, NoMobile outside a sweep
  excused   \* history: objects that owe their phase to something other than a tick

sweep == <<clock, now, cursor, current>>
vars == <<list, phase, sweep, excused>>

Sweeping == cursor # 0

\* How far the clock has to go to reach a phase.
Ahead(p, c) == (p - c) % Ring

\* Mutant: the second comparison, for a clock that has wrapped, is missing.
ObjectTickIsDueUnwrapped(p) == p < now /\ now <= p + 4

\* Mutant: an object is due until the clock shows its phase.
ObjectTickIsDueUntilEqual(p) == p # now

\* object_tick_is_due
ObjectTickIsDue(p) ==
  \/ p < now /\ now <= p + 4
  \/ p < now + Ring /\ clock <= p /\ now < clock

Init ==
  /\ list \in {l \in SeqOf(Mobiles, 2) : IsInjective(l)}
  /\ phase \in [Mobiles -> LoadedPhases]
  /\ clock = 0 /\ now = 0 /\ cursor = 0 /\ current = NoMobile
  /\ excused = Mobiles

----------------------------------------------------------------------------
(* Between sweeps.                                                         *)

\* A creature is created (phase 0) or copied from the template of a trap (the
\* template's phase); a thrown or moved record is placed one unit ahead of the
\* clock, a spell's missile up to three.
Join(m, p) ==
  /\ list' = Append(list, m)
  /\ phase' = [phase EXCEPT ![m] = p]

SpawnCreature(m, p) ==
  /\ ~Sweeping /\ m \notin Listed
  /\ Join(m, p)
  /\ excused' = excused \cup {m}
  /\ UNCHANGED sweep

PlaceObject(m, k) ==
  /\ ~Sweeping /\ m \notin Listed
  /\ Join(m, (now + k) % Ring)
  /\ excused' = excused \ {m}
  /\ UNCHANGED sweep

RemoveMobile(m) ==
  /\ ~Sweeping /\ m \in Listed
  /\ list' = Without(list, m)
  /\ UNCHANGED <<phase, sweep, excused>>

----------------------------------------------------------------------------
(* tick_mobile_objects                                                     *)

\* The visit of index i of the list as it is now, or the end of the sweep.
GoTo(i) ==
  IF i <= Len(list')
    THEN cursor' = i /\ current' = list'[i] /\ UNCHANGED <<clock, now>>
    ELSE cursor' = 0 /\ current' = NoMobile /\ clock' = now /\ UNCHANGED now

\* A step of five units does not find an object whose phase the clock shows.
MissedBy(e) ==
  IF e = 5 THEN {m \in Mobiles : phase[m] = clock} ELSE {}

BeginSweep(e) ==
  /\ ~Sweeping
  /\ now' = (clock + e) % Ring
  /\ excused' = excused \cup MissedBy(e)
  /\ UNCHANGED <<list, phase>>
  /\ IF list = <<>> THEN clock' = now' /\ UNCHANGED <<cursor, current>>
                    ELSE cursor' = 1 /\ current' = list[1] /\ UNCHANGED clock

Due == Sweeping /\ ObjectTickIsDue(phase[current])

NextEntry ==
  /\ Sweeping /\ ~Due
  /\ UNCHANGED <<list, phase, excused>>
  /\ GoTo(cursor + 1)

\* What a tick adds to the phase: the speed class, that may have been set in the
\* same tick, or eight for a creature far from the player.
Strides == Classes \cup {8}

Stepped(s) == [phase EXCEPT ![current] = (@ + s) % Ring]

\* npc_ai_tick and mobile_object_tick that return 1.
TickMoves(s) ==
  /\ Due
  /\ phase' = Stepped(s)
  /\ excused' = excused \ {current}
  /\ UNCHANGED <<list, sweep>>

\* In mid-tick: a weapon is thrown or a missile cast, and its record joins the list.
ThrowObject(m, k) ==
  /\ Due /\ m \notin Listed
  /\ Join(m, (now + k) % Ring)
  /\ excused' = excused \ {m}
  /\ UNCHANGED sweep

\* In mid-tick: another object is freed, by the garbage collector that makes room
\* for what the tick allocates, or because it is hit and discarded.
FreeOther(m) ==
  /\ Due /\ m \in Listed \ {current}
  /\ list' = Without(list, m)
  /\ excused' = excused \cup (Overtaken(list, m, cursor) \ {current})
  /\ UNCHANGED <<phase, sweep>>

\* Mutant: the index moves on although the gap has been filled.
TickLeavesAndMovesOn ==
  /\ Due
  /\ list' = Without(list, current)
  /\ GoTo(cursor + 1)
  /\ UNCHANGED <<phase, excused>>

\* A creature dies, an object settles into a static record or is discarded: the
\* tick returns 0 and the same index is visited again.
TickLeaves ==
  /\ Due
  /\ list' = Without(list, current)
  /\ GoTo(cursor)
  /\ UNCHANGED <<phase, excused>>

\* An object settles and settle_dropped_object throws it up again: the slot is
\* freed and allocated again, its record goes to the end of the list one unit
\* ahead of the clock with speed class 2, and the tick returns 1, so that the
\* entry moved to its place is passed.
TickSettlesAndFalls ==
  /\ Due
  /\ list' = Append(Without(list, current), current)
  /\ phase' = [phase EXCEPT ![current] = (now + 1 + 2) % Ring]
  /\ excused' = (excused \ {current}) \cup Overtaken(list, current, cursor + 1)
  /\ UNCHANGED sweep

Tick ==
  \/ \E s \in Strides : TickMoves(s)
  \/ TickSettlesAndFalls
  \/ TickLeaves

Visit == NextEntry \/ Tick

Next ==
  \/ \E m \in Mobiles : RemoveMobile(m) \/ FreeOther(m)
  \/ \E m \in Mobiles, p \in LoadedPhases \cup {0} : SpawnCreature(m, p)
  \/ \E m \in Mobiles, k \in Leads : PlaceObject(m, k) \/ ThrowObject(m, k)
  \/ \E e \in Elapsed : BeginSweep(e)
  \/ Visit

Spec == Init /\ [][Next]_vars

\* movement_pacing_handler runs once a frame, and every tick of a sweep returns.
Fairness == WF_vars(\E e \in Elapsed : BeginSweep(e)) /\ WF_vars(Visit)

----------------------------------------------------------------------------
(* Properties.                                                             *)

\* After a sweep (tick_mobile_objects) no object waits for more than half the
\* ring, but those that a file or a creation gave a stale phase, that were moved
\* behind the index by a removal, or that a step of five units has missed.
NobodyLate ==
  ~Sweeping => \A m \in Listed \ excused : Ahead(phase[m], clock) <= 7

\* A sweep ends (the inner loop of tick_mobile_objects has no bound of its own),
\* although ticks put objects at the end of the list.
SweepsEnd == Sweeping ~> ~Sweeping

\* An object that stays on the list is ticked again and again: a removal moves an
\* entry towards the front only, so that it is passed over finitely often.
EverybodyTicked ==
  \A m \in Mobiles : <>[](m \in Listed) => []<><<Tick /\ current = m>>_vars
=============================================================================
