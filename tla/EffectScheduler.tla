-------------------------- MODULE EffectScheduler --------------------------
(***************************************************************************)
(* The scheduler of timed effects with the objects it animates: doors in   *)
(* motion (doors.c) and effect objects, sprites that disappear when their  *)
(* delay has run out (blood, sparks, explosions) or never (delay -1).      *)
(*                                                                         *)
(* scheduler_tick walks the table by index while its own steps remove      *)
(* entries by moving the last one into the gap; each pass of its loop is a *)
(* step here.  Nothing else runs inside a tick.  Between ticks the player, *)
(* creatures, traps and conversations command doors, and effects are       *)
(* spawned, moved to another record and discarded.  Whether something      *)
(* stands in a door's way is decided by the environment at every test.     *)
(***************************************************************************)
EXTENDS EffectQueue, DoorSwing

CONSTANTS
  Doors,        \* slots of doors
  Effects,      \* slots used by effect objects
  SwingTime,    \* by door: 4 for a portcullis, 5 otherwise (doors.c)
  EffectDelays, \* the delays effects are added with
  Elapsed,      \* the arguments of scheduler_tick: 1, and 4 from quest events
  CatchUp,      \* flag 0x80 of OBJECTS.DAT for the moving door
  Collectable   \* slots of effects small enough for the garbage collector to take

Objects == Doors \cup Effects

ASSUME SchedulerAssumption ==
  /\ MaxEntries \in Nat \ {0}
  /\ NoObject \notin Objects
  /\ Doors \cap Effects = {}
  /\ SwingTime \in [Doors -> {4, 5}]
  /\ EffectDelays \subseteq Nat \cup {-1}
  /\ Elapsed \subseteq {1, 4}
  /\ CatchUp \in BOOLEAN
  /\ Collectable \subseteq Effects

VARIABLES
  door,      \* the record of each door
  alive,     \* the effect slots that hold an object
  stranded,  \* history: moving doors and effects whose add found the table full
  cursor,    \* the loop index of scheduler_tick (from 1), 0 outside a tick
  elapsed,   \* its argument, 0 outside a tick
  rearmed    \* DAT_002508fc: the step has set its entry's delay itself

ticking == <<cursor, elapsed>>
world == <<door, alive, stranded>>
vars == <<table, world, ticking, rearmed>>

Animated(o) == IF o \in Doors THEN door[o].moving ELSE o \in alive

Init ==
  /\ EmptyTable
  /\ door \in [Doors -> DoorRecords]
  /\ \A d \in Doors : \E isOpen \in BOOLEAN : door[d] = Resting(isOpen, SwingTime[d])
  /\ alive = {} /\ stranded = {}
  /\ cursor = 0 /\ elapsed = 0 /\ rearmed = FALSE

----------------------------------------------------------------------------
(* Commands to doors (doors.c).  The names are the code's: close_door_object *)
(* sets a closed door swinging open, open_door_object an open one shut.    *)

\* schedule_door_open_animation: the result of scheduler_add_entry is not used.
ScheduleDoor(d) ==
  /\ door' = [door EXCEPT ![d] = SetMoving(@)]
  /\ IF Full THEN stranded' = stranded \cup {d} /\ UNCHANGED table
             ELSE AddEntry(d, SwingTime[d]) /\ UNCHANGED stranded
  /\ UNCHANGED <<alive, ticking, rearmed>>

\* Mutant: the swing turns round but keeps the delay it had left.
ReverseDoorKeepsDelay(d) ==
  /\ door' = [door EXCEPT ![d] = Reversed(@)]
  /\ UNCHANGED <<table, alive, stranded, ticking, rearmed>>

\* A command that turns a moving door round: the owner nibble changes sides, and
\* adjust_door_close_animation_delay turns the swing and gives it the time it
\* has already taken.
ReverseDoor(d) ==
  /\ door' = [door EXCEPT ![d] = Reversed(@)]
  /\ delay' = [i \in DOMAIN delay |-> IF IsEntryOf(i, d) /\ delay[i] >= 0
                                      THEN SwingTime[d] - delay[i] ELSE delay[i]]
  /\ UNCHANGED <<link, count, alive, stranded, ticking, rearmed>>

CloseDoorObject(d) ==
  /\ cursor = 0
  /\ \/ door[d].moving /\ door[d].owner /\ ReverseDoor(d)
     \/ ~door[d].moving /\ ~door[d].open /\ ScheduleDoor(d)

OpenDoorObject(d) ==
  /\ cursor = 0
  /\ \/ door[d].moving /\ ~door[d].owner /\ ReverseDoor(d)
     \/ ~door[d].moving /\ door[d].open /\ ScheduleDoor(d)

\* The dispatch reads the id nibble, which is 0xf for every moving door.
ToggleDoorObject(d) ==
  IF door[d].moving \/ door[d].open THEN OpenDoorObject(d) ELSE CloseDoorObject(d)

----------------------------------------------------------------------------
(* Effect objects between ticks.                                           *)

\* spawn_scheduled_effect_object, the spell effects, sparks and debris: the
\* object is freed again when the table is full.
SpawnScheduledEffectObject(o, d) ==
  /\ cursor = 0 /\ o \notin alive
  /\ IF Full THEN UNCHANGED <<table, alive>>
             ELSE AddEntry(o, d) /\ alive' = alive \cup {o}
  /\ UNCHANGED <<door, stranded, ticking, rearmed>>

\* activate_area_hazard_object, the door texture and the object-creating trap:
\* the object stays in the world when the table is full.
ScheduleEffectInPlace(o, d) ==
  /\ cursor = 0 /\ o \notin alive
  /\ alive' = alive \cup {o}
  /\ IF Full THEN stranded' = stranded \cup {o} /\ UNCHANGED table
             ELSE AddEntry(o, d) /\ UNCHANGED stranded
  /\ UNCHANGED <<door, ticking, rearmed>>

\* reallocate_object_to_arena, settle_mobile_to_immobile: the object gets a
\* record of the other pool.
ReallocateEffect(old, new) ==
  /\ cursor = 0 /\ old \in alive /\ new \notin alive
  /\ SchedulerRelinkEntry(new, old)
  /\ alive' = (alive \ {old}) \cup {new}
  /\ stranded' = IF old \in stranded THEN (stranded \ {old}) \cup {new} ELSE stranded
  /\ UNCHANGED <<door, ticking, rearmed>>

\* discard_misplaced_object
DiscardEffect(o) ==
  /\ cursor = 0 /\ o \in alive
  /\ SchedulerRemoveEntry(o)
  /\ alive' = alive \ {o} /\ stranded' = stranded \ {o}
  /\ UNCHANGED <<door, ticking, rearmed>>

\* despawn_objects_outside_radius frees objects and leaves their entries.
CollectEffect(o) ==
  /\ cursor = 0 /\ o \in alive \cap Collectable
  /\ alive' = alive \ {o} /\ stranded' = stranded \ {o}
  /\ UNCHANGED <<table, door, ticking, rearmed>>

SaveAndLoad ==
  /\ cursor = 0
  /\ SchedulerSaveAndLoad
  /\ UNCHANGED <<world, ticking, rearmed>>

----------------------------------------------------------------------------
(* scheduler_tick                                                          *)

BeginTick(e) ==
  /\ cursor = 0 /\ count > 0
  /\ cursor' = 1 /\ elapsed' = e
  /\ UNCHANGED <<table, world, rearmed>>

Current == link[cursor]
Left == delay[cursor]
Due == Left # -1 /\ Left - elapsed < 0
Waiting == Left # -1 /\ Left - elapsed >= 0

\* The bottom of the loop, after count has changed.
Advance ==
  LET over == cursor + 1 > count' IN
  /\ cursor' = IF over THEN 0 ELSE cursor + 1
  /\ elapsed' = IF over THEN 0 ELSE elapsed

\* Delay -1: the effect is animated and stays.
VisitForever ==
  /\ cursor # 0 /\ Left = -1
  /\ UNCHANGED <<table, world, rearmed>>
  /\ Advance

VisitEffectWaiting ==
  /\ cursor # 0 /\ Waiting /\ Current \notin Doors
  /\ delay' = IF rearmed THEN delay ELSE [delay EXCEPT ![cursor] = @ - elapsed]
  /\ rearmed' = FALSE
  /\ UNCHANGED <<link, count, world>>
  /\ Advance

\* Mutant: the object is freed and the entry stays.
VisitEffectDueStays ==
  /\ cursor # 0 /\ Due /\ Current \notin Doors
  /\ alive' = alive \ {Current}
  /\ UNCHANGED <<table, door, stranded, rearmed>>
  /\ Advance

\* scheduler_finish_entry with scheduler_despawn_entry (flag 0x20).
VisitEffectDue ==
  /\ cursor # 0 /\ Due /\ Current \notin Doors
  /\ alive' = alive \ {Current}
  /\ RemoveAt(cursor)
  /\ UNCHANGED <<door, stranded, rearmed>>
  /\ Advance

\* Mutant: a door that rebounds gets the time of a whole swing.
ReboundDelayWhole(d, left) == SwingTime[d]

\* The delay a door gets that rebounds (scheduler_advance_effect).
ReboundDelay(d, left) == SwingTime[d] - left + 1

\* Mutant: the flag stays up.
VisitDoorWaitingKeepsFlag(blocked) ==
  LET d == Current IN
  /\ cursor # 0 /\ Waiting /\ d \in Doors
  /\ blocked => TestsClearance(door[d], elapsed)
  /\ door' = [door EXCEPT ![d] = Stepped(@, elapsed, blocked)]
  /\ delay' = [delay EXCEPT ![cursor] =
                 IF blocked THEN ReboundDelay(d, @) ELSE IF rearmed THEN @ ELSE @ - elapsed]
  /\ rearmed' = (rearmed \/ blocked)
  /\ UNCHANGED <<link, count, alive, stranded>>
  /\ Advance

\* scheduler_step_entry, then the new delay, unless the door has rebounded or
\* an earlier one has left the flag up.
VisitDoorWaiting(blocked) ==
  LET d == Current IN
  /\ cursor # 0 /\ Waiting /\ d \in Doors
  /\ blocked => TestsClearance(door[d], elapsed)
  /\ door' = [door EXCEPT ![d] = Stepped(@, elapsed, blocked)]
  /\ delay' = [delay EXCEPT ![cursor] =
                 IF blocked THEN ReboundDelay(d, @) ELSE IF rearmed THEN @ ELSE @ - elapsed]
  /\ rearmed' = FALSE
  /\ UNCHANGED <<link, count, alive, stranded>>
  /\ Advance

\* scheduler_finish_entry on a door: a last step when flag 0x80 asks for one
\* (its test found the way blocked or not), then the test of a closing door,
\* which either sends it back or lets it become an ordinary door.
CatchesUp == CatchUp /\ Left # 0
LastStep(d, bounced) ==
  IF CatchesUp THEN Stepped(door[d], 1, bounced) ELSE door[d]
LastLeft(d, bounced) == IF bounced THEN ReboundDelay(d, Left) ELSE Left

VisitDoorDueBlocked(bounced) ==
  LET d == Current
      r == LastStep(d, bounced) IN
  /\ cursor # 0 /\ Due /\ d \in Doors
  /\ bounced => CatchesUp /\ TestsClearance(door[d], 1)
  /\ r.closing
  /\ door' = [door EXCEPT ![d] = Turned([r EXCEPT !.owner = FALSE])]
  /\ delay' = [delay EXCEPT ![cursor] = SwingTime[d] - LastLeft(d, bounced)]
  /\ rearmed' = (rearmed \/ bounced)
  /\ UNCHANGED <<link, count, alive, stranded>>
  /\ Advance

VisitDoorDue(bounced) ==
  LET d == Current
      r == LastStep(d, bounced) IN
  /\ cursor # 0 /\ Due /\ d \in Doors
  /\ bounced => CatchesUp /\ TestsClearance(door[d], 1)
  /\ door' = [door EXCEPT ![d] = Committed(r, ~r.closing)]
  /\ RemoveAt(cursor)
  /\ rearmed' = (rearmed \/ bounced)
  /\ UNCHANGED <<alive, stranded>>
  /\ Advance

Visit ==
  \/ VisitForever \/ VisitEffectWaiting \/ VisitEffectDue
  \/ \E b \in BOOLEAN : VisitDoorWaiting(b) \/ VisitDoorDueBlocked(b) \/ VisitDoorDue(b)

Next ==
  \/ \E d \in Doors : CloseDoorObject(d) \/ OpenDoorObject(d) \/ ToggleDoorObject(d)
  \/ \E o \in Effects, d \in EffectDelays :
       SpawnScheduledEffectObject(o, d) \/ ScheduleEffectInPlace(o, d)
  \/ \E old, new \in Effects : ReallocateEffect(old, new)
  \/ \E o \in Effects : DiscardEffect(o) \/ CollectEffect(o)
  \/ SaveAndLoad
  \/ \E e \in Elapsed : BeginTick(e)
  \/ Visit

Spec == Init /\ [][Next]_vars

\* The game loop keeps calling scheduler_tick(1) (movement_pacing_handler once a
\* frame), and a tick runs to its end.
FairSpec == Spec /\ WF_vars(BeginTick(1)) /\ WF_vars(Visit)

----------------------------------------------------------------------------
(* Properties.                                                             *)

TypeOK ==
  /\ link \in [1 .. MaxEntries -> Objects \cup {NoObject}]
  /\ DOMAIN delay = 1 .. MaxEntries
  /\ count \in 0 .. MaxEntries
  /\ \A i \in Entries :
       delay[i] \in IF link[i] \in Doors THEN 0 .. SwingTime[link[i]] ELSE Nat \cup {-1}
  /\ door \in [Doors -> DoorRecords]
  /\ alive \subseteq Effects /\ stranded \subseteq Objects
  /\ cursor \in 0 .. count
  /\ elapsed \in IF cursor = 0 THEN {0} ELSE Elapsed
  /\ rearmed \in BOOLEAN

EntriesDistinct == \A i, j \in Entries : link[i] = link[j] => i = j

\* The table has one entry for every moving door and every effect object, those
\* apart whose add was refused, and no other: no entry is lost or doubled when
\* entries are moved into gaps, relinked, saved and loaded (scheduler.c).  An
\* effect with two entries would be freed twice, one with none never.
TableExact ==
  /\ EntriesDistinct
  /\ \A i \in Entries : link[i] \in Objects
  /\ \A o \in Objects : HasEntry(o) <=> Animated(o) /\ o \notin stranded

\* A door at rest is set to swing the other way: an open one shut, a closed one
\* open (the end of scheduler_finish_entry), however often it was turned round,
\* blocked or stepped too far in between.
RestingDoorsTurned == \A d \in Doors : ~door[d].moving => door[d].closing = door[d].open

\* With steps of one tick the frame of a swing and the time it has left agree, so
\* that every swing ends on its last frame, whenever it is turned round by a
\* command or thrown back by an obstacle (scheduler_step_entry,
\* scheduler_advance_effect, adjust_door_close_animation_delay).
SwingInStep ==
  /\ \A i \in Entries : LET d == link[i] IN
       d \in Doors => door[d].f = IF door[d].closing THEN delay[i] ELSE SwingTime[d] - delay[i]
  /\ \A d \in Doors :
       ~door[d].moving => door[d].f = IF door[d].open THEN SwingTime[d] ELSE 0

Blocked == VisitDoorWaiting(TRUE) \/ \E b \in BOOLEAN : VisitDoorDueBlocked(b)

\* "If something blocks the door it ... reverses.  Otherwise it commits the final
\* state" (src/code-analysis.md:330): in a tick a moving door changes direction
\* only when its way is blocked.
ReversesOnlyWhenBlocked ==
  [][\A d \in Doors :
       cursor # 0 /\ door[d].moving /\ door'[d].moving
       /\ door'[d].closing # door[d].closing => Blocked]_vars

\* "the door becomes object 0x1cf while it swings, owned by the scheduler"
\* (src/code-analysis.md:336): a moving door has an entry.
MovingDoorIsOwned == \A d \in Doors : door[d].moving => HasEntry(d)

\* "A stale queue entry resolves to NULL here too" (comment in
\* scheduler_step_entry): an entry never leads to a record that has been freed.
EntriesLeadToLiveObjects == \A i \in Entries : Animated(link[i])

\* An effect with a finite delay that the collector spares leaves the table
\* (scheduler_tick), although an entry moved into a gap misses the rest of the tick
\* and the entries of collected effects clog the table.
EffectsExpire ==
  \A o \in Effects \ Collectable :
    (\E i \in Entries : link[i] = o /\ delay[i] >= 0)
      ~> (\A i \in Entries : link[i] = o => delay[i] < 0)

Commanded == \E d \in Doors : CloseDoorObject(d) \/ OpenDoorObject(d)

\* Once nothing blocks a door and nobody commands one, every door that the table
\* took comes to rest (scheduler_tick, scheduler_finish_entry).
DoorsSettle ==
  <>[][~Commanded /\ ~Blocked]_vars
    => <>[](\A d \in Doors : door[d].moving => d \in stranded)
=============================================================================
