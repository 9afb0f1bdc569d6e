----------------------- MODULE EffectSchedulerProofs -----------------------
(***************************************************************************)
(* Proofs about the scheduler of timed effects, for every size of the      *)
(* table and any number of doors and effects.                              *)
(*                                                                         *)
(* The collector frees effects and leaves their entries behind, so that an *)
(* effect spawned in the same record later has two.  What is proved of the *)
(* doors does not depend on it; what is proved of the effects does.        *)
(***************************************************************************)
EXTENDS EffectScheduler, TLAPS

\* The objects the table answers for: the doors alone where the collector takes
\* effects.
Sure == IF Collectable = {} THEN Objects ELSE Doors

SureDistinct == \A i, j \in Entries : link[i] = link[j] /\ link[i] \in Sure => i = j

\* A sure object is animated when it has an entry or has been refused one, and not
\* both: what stranded records is about the present.
Owned ==
  \A o \in Sure :
    /\ HasEntry(o) <=> Animated(o) /\ o \notin stranded
    /\ o \in stranded => Animated(o)

\* The inductive invariant.
TableInv ==
  /\ TypeOK
  /\ SureDistinct /\ Owned
  /\ \A i \in Entries : link[i] \in Objects

----------------------------------------------------------------------------
(* The operations on the table.                                            *)

\* What the operations need of the table, and keep.
TableTypes ==
  /\ link \in [1 .. MaxEntries -> Objects \cup {NoObject}]
  /\ DOMAIN delay = 1 .. MaxEntries
  /\ count \in 0 .. MaxEntries

TableSound ==
  /\ TableTypes
  /\ SureDistinct
  /\ \A i \in Entries : link[i] \in Objects

\* The delays: a door's is never "forever" and never more than its swing takes.
DelayTypes ==
  \A i \in Entries :
    delay[i] \in IF link[i] \in Doors THEN 0 .. SwingTime[link[i]] ELSE Nat \cup {-1}

\* What is sure are the doors, or everything.
LEMMA SureObjects ==
  /\ Doors \subseteq Sure /\ Sure \subseteq Objects
  /\ Sure # Doors => Collectable = {} /\ Sure = Objects
  /\ \A o \in Effects : o \notin Doors /\ o \in Objects
BY SchedulerAssumption DEF Sure, Objects

\* An add puts one more object in the table and touches no other entry.
LEMMA AddKeeps ==
  ASSUME TableSound, DelayTypes, NEW o \in Objects, o \in Sure => ~HasEntry(o), NEW d, AddEntry(o, d),
         d \in IF o \in Doors THEN 0 .. SwingTime[o] ELSE Nat \cup {-1}
  PROVE  /\ TableSound' /\ DelayTypes'
         /\ \A p \in Sure : HasEntry(p)' <=> HasEntry(p) \/ p = o
<1> USE SchedulerAssumption DEF TableSound, TableTypes, Entries
<1>1. /\ count \in Nat /\ count < MaxEntries /\ count' = count + 1
      /\ count + 1 \in 1 .. MaxEntries /\ count' \in 0 .. MaxEntries
  BY DEF AddEntry, Full
<1>2. /\ link' \in [1 .. MaxEntries -> Objects \cup {NoObject}]
      /\ DOMAIN delay' = 1 .. MaxEntries
      /\ link'[count + 1] = o /\ delay'[count + 1] = d
      /\ \A i \in 1 .. count : link'[i] = link[i] /\ delay'[i] = delay[i]
  BY <1>1 DEF AddEntry
<1>3. 1 .. count' = (1 .. count) \cup {count + 1} /\ count + 1 \notin 1 .. count
  BY <1>1
<1>4. SureDistinct'
  BY <1>2, <1>3 DEF SureDistinct, HasEntry
<1>5. DelayTypes'
  BY <1>2, <1>3 DEF DelayTypes
<1>6. \A i \in 1 .. count' : link'[i] \in Objects
  BY <1>2, <1>3
<1>7. \A p \in Sure : HasEntry(p)' <=> HasEntry(p) \/ p = o
  BY <1>2, <1>3 DEF HasEntry
<1>8. QED
  BY <1>1, <1>2, <1>4, <1>5, <1>6, <1>7

\* A removal takes one object from the table: the last entry fills the gap.
LEMMA RemoveKeeps ==
  ASSUME TableSound, DelayTypes, NEW k \in Entries, RemoveAt(k)
  PROVE  /\ TableSound' /\ DelayTypes'
         /\ \A p \in Sure : HasEntry(p)' <=> HasEntry(p) /\ p # link[k]
<1> USE SchedulerAssumption DEF TableSound, TableTypes, Entries
<1>1. /\ count \in Nat \ {0} /\ count \in 1 .. MaxEntries
      /\ count' = count - 1 /\ count' \in 0 .. MaxEntries /\ k \in 1 .. MaxEntries
  BY DEF RemoveAt
<1>2. /\ link' \in [1 .. MaxEntries -> Objects \cup {NoObject}]
      /\ DOMAIN delay' = 1 .. MaxEntries
  BY <1>1 DEF RemoveAt
<1>3. \A i \in 1 .. count' :
        /\ i \in 1 .. count /\ i # count
        /\ link'[i] = link[IF i = k THEN count ELSE i]
        /\ delay'[i] = delay[IF i = k THEN count ELSE i]
  BY <1>1 DEF RemoveAt
<1>4. SureDistinct'
  BY <1>1, <1>3 DEF SureDistinct
<1>5. DelayTypes'
  BY <1>1, <1>3 DEF DelayTypes
<1>6. \A i \in 1 .. count' : link'[i] \in Objects
  BY <1>1, <1>3
<1>7. ASSUME NEW p \in Sure
      PROVE  HasEntry(p)' <=> HasEntry(p) /\ p # link[k]
  <2>1. ASSUME NEW i \in 1 .. count, link[i] = p, p # link[k]
        PROVE  \E j \in 1 .. count' : link'[j] = p
    <3>1. CASE i = count
      <4>1. k \in 1 .. count'
        BY <1>1, <2>1, <3>1
      <4>2. QED
        BY <1>3, <2>1, <3>1, <4>1
    <3>2. CASE i # count
      <4>1. i \in 1 .. count' /\ i # k
        BY <1>1, <2>1, <3>2
      <4>2. QED
        BY <1>3, <2>1, <4>1
    <3>3. QED
      BY <3>1, <3>2
  <2>2. ASSUME NEW j \in 1 .. count', link'[j] = p
        PROVE  p # link[k] /\ \E i \in 1 .. count : link[i] = p
    <3>1. /\ (IF j = k THEN count ELSE j) \in (1 .. count) \ {k}
          /\ link[IF j = k THEN count ELSE j] = p
      BY <1>1, <1>3, <2>2
    <3>2. QED
      BY <3>1 DEF SureDistinct
  <2>3. QED
    BY <2>1, <2>2 DEF HasEntry
<1>8. QED
  BY <1>1, <1>2, <1>4, <1>5, <1>6, <1>7

\* scheduler_remove_entry takes the object out of the table, if it is there.
LEMMA RemoveEntryKeeps ==
  ASSUME TableSound, DelayTypes, NEW o, SchedulerRemoveEntry(o)
  PROVE  /\ TableSound' /\ DelayTypes'
         /\ \A p \in Sure : HasEntry(p)' <=> HasEntry(p) /\ p # o
<1>1. CASE \E i \in Entries : IsEntryOf(i, o) /\ RemoveAt(i)
  <2>1. PICK i \in Entries : link[i] = o /\ RemoveAt(i)
    BY <1>1 DEF IsEntryOf
  <2>2. QED
    BY <2>1, RemoveKeeps
<1>2. CASE ~HasEntry(o) /\ UNCHANGED table
  <2>1. TableSound' /\ DelayTypes'
    BY <1>2 DEF table, TableSound, TableTypes, DelayTypes, SureDistinct, Entries
  <2>2. \A p \in Sure : HasEntry(p)' <=> HasEntry(p)
    BY <1>2 DEF table, HasEntry, Entries
  <2>3. QED
    BY <1>2, <2>1, <2>2
<1>3. QED
  BY <1>1, <1>2 DEF SchedulerRemoveEntry

\* scheduler_relink_entry hands the entry of one effect to another.
LEMMA RelinkKeeps ==
  ASSUME TableSound, DelayTypes, NEW old \in Effects, NEW new \in Effects,
         old # new, new \in Sure => ~HasEntry(new), SchedulerRelinkEntry(new, old)
  PROVE  /\ TableSound' /\ DelayTypes'
         /\ \A p \in Sure :
              HasEntry(p)' <=> IF p = new THEN HasEntry(old) ELSE HasEntry(p) /\ p # old
<1>1. CASE \E i \in Entries :
             IsEntryOf(i, old) /\ link' = [link EXCEPT ![i] = new] /\ UNCHANGED <<delay, count>>
  <2>1. PICK k \in Entries :
          link[k] = old /\ link' = [link EXCEPT ![k] = new] /\ UNCHANGED <<delay, count>>
    BY <1>1 DEF IsEntryOf
  <2>2. /\ k \in 1 .. MaxEntries /\ link \in [1 .. MaxEntries -> Objects \cup {NoObject}]
        /\ Entries' = Entries /\ Entries \subseteq 1 .. MaxEntries
    BY <2>1, SchedulerAssumption DEF TableSound, TableTypes, Entries
  <2>3. link'[k] = new /\ \A i \in Entries : i # k => link'[i] = link[i]
    BY <2>1, <2>2
  <2>4. new \notin Doors /\ old \notin Doors /\ new \in Objects
    BY SchedulerAssumption DEF Objects
  <2>5. TableTypes'
    BY <2>1, <2>2, <2>4 DEF TableSound, TableTypes
  <2>6. SureDistinct'
    BY <2>1, <2>2, <2>3 DEF TableSound, SureDistinct, HasEntry
  <2>7. DelayTypes'
    BY <2>1, <2>2, <2>3, <2>4 DEF DelayTypes
  <2>8. \A i \in Entries : link'[i] \in Objects
    BY <2>3, <2>4 DEF TableSound
  <2>9. \A p \in Sure :
          HasEntry(p)' <=> IF p = new THEN HasEntry(old) ELSE HasEntry(p) /\ p # old
    <3>1. ASSUME NEW p \in Sure
          PROVE  HasEntry(p)' <=> IF p = new THEN HasEntry(old) ELSE HasEntry(p) /\ p # old
      <4>1. CASE p = new
        BY <2>1, <2>2, <2>3, <4>1 DEF HasEntry
      <4>2. CASE p = old
        BY <2>1, <2>2, <2>3, <4>2 DEF HasEntry, TableSound, SureDistinct
      <4>3. CASE p # new /\ p # old
        BY <2>1, <2>2, <2>3, <4>3 DEF HasEntry
      <4>4. QED
        BY <4>1, <4>2, <4>3
    <3>2. QED
      BY <3>1
  <2>10. QED
    BY <2>2, <2>5, <2>6, <2>7, <2>8, <2>9 DEF TableSound
<1>2. CASE ~HasEntry(old) /\ UNCHANGED table
  <2>1. TableSound' /\ DelayTypes'
    BY <1>2 DEF table, TableSound, TableTypes, DelayTypes, SureDistinct, Entries
  <2>2. \A p \in Sure : HasEntry(p)' <=> HasEntry(p)
    BY <1>2 DEF table, HasEntry, Entries
  <2>3. QED
    BY <1>2, <2>1, <2>2
<1>3. QED
  BY <1>1, <1>2 DEF SchedulerRelinkEntry

\* What scheduler_load counts after scheduler_save is what was in the table,
\* whatever removals have left behind the last entry.
LEMMA LoadKeeps ==
  ASSUME TableSound, DelayTypes, SchedulerSaveAndLoad
  PROVE  /\ TableSound' /\ DelayTypes' /\ count' = count
         /\ \A p \in Sure : HasEntry(p)' <=> HasEntry(p)
<1> USE SchedulerAssumption
<1>1. /\ link \in [1 .. MaxEntries -> Objects \cup {NoObject}]
      /\ count \in Nat /\ count <= MaxEntries /\ MaxEntries \in Nat
      /\ \A i \in 1 .. count : link[i] # NoObject
  BY DEF TableSound, TableTypes, Entries
<1>2. PICK n \in 0 .. MaxEntries : IsLoadedCount(Saved, n) /\ count' = n
  BY DEF SchedulerSaveAndLoad
<1>3. /\ Saved \in [1 .. MaxEntries -> Objects \cup {NoObject}]
      /\ \A i \in 1 .. count : Saved[i] = link[i]
      /\ count < MaxEntries => Saved[count + 1] = NoObject
  BY <1>1 DEF Saved
<1>4. ~(n > count)
  <2>1. SUFFICES ASSUME n > count PROVE FALSE
    OBVIOUS
  <2>2. count < MaxEntries /\ count + 1 \in 1 .. n
    BY <1>1, <2>1
  <2>3. QED
    BY <1>2, <1>3, <2>2 DEF IsLoadedCount
<1>5. ~(n < count)
  <2>1. SUFFICES ASSUME n < count PROVE FALSE
    OBVIOUS
  <2>2. n < MaxEntries /\ n + 1 \in 1 .. count
    BY <1>1, <2>1
  <2>3. QED
    BY <1>1, <1>2, <1>3, <2>2 DEF IsLoadedCount
<1>6. count' = count
  BY <1>1, <1>2, <1>4, <1>5
<1>7. link' = Saved /\ delay' = delay
  BY DEF SchedulerSaveAndLoad
<1>8. Entries' = Entries /\ \A i \in Entries : link'[i] = link[i]
  BY <1>3, <1>6, <1>7 DEF Entries
<1>9. TableTypes'
  BY <1>3, <1>6, <1>7 DEF TableSound, TableTypes
<1>10. SureDistinct' /\ DelayTypes' /\ \A i \in Entries' : link'[i] \in Objects
  BY <1>7, <1>8 DEF TableSound, SureDistinct, DelayTypes
<1>11. \A p \in Sure : HasEntry(p)' <=> HasEntry(p)
  BY <1>8 DEF HasEntry
<1>12. QED
  BY <1>6, <1>9, <1>10, <1>11 DEF TableSound

----------------------------------------------------------------------------
(* The door records.                                                       *)

\* The 4-bit counter of a swing stays one, whatever is added to it.
LEMMA CounterTypes ==
  ASSUME NEW r \in DoorRecords, NEW c \in Int
  PROVE  /\ WithCounter(r, c) \in DoorRecords
         /\ WithCounter(r, c).moving = r.moving
<1>1. c % 8 \in 0 .. 7 /\ ((c % 16) >= 8) \in BOOLEAN
  OBVIOUS
<1>2. QED
  BY <1>1 DEF WithCounter, DoorRecords

\* A step of the swing leaves a moving door moving.
LEMMA StepTypes ==
  ASSUME NEW r \in DoorRecords, NEW e \in Int, NEW b \in BOOLEAN
  PROVE  /\ Stepped(r, e, b) \in DoorRecords
         /\ Stepped(r, e, b).moving = r.moving
<1>1. r.f \in Int
  BY DEF DoorRecords
<1>2. PICK c \in Int : Swung(r, e) = WithCounter(r, c)
  BY <1>1 DEF Swung
<1>3. Swung(r, e) \in DoorRecords /\ Swung(r, e).moving = r.moving
  BY <1>2, CounterTypes
<1>4. Swung(r, e).f \in Int
  BY <1>3 DEF DoorRecords
<1>5. \E c2 \in Int : Rebound(Swung(r, e), IF r.closing THEN -e ELSE e)
                      = WithCounter(Swung(r, e), c2)
  BY <1>4 DEF Rebound
<1>6. QED
  BY <1>3, <1>5, CounterTypes DEF Stepped

\* Turning, setting in motion and coming to rest keep the record a door's.
LEMMA RecordTypes ==
  ASSUME NEW r \in DoorRecords, NEW b \in BOOLEAN
  PROVE  /\ SetMoving(r) \in DoorRecords /\ SetMoving(r).moving
         /\ Turned([r EXCEPT !.owner = b]) \in DoorRecords
         /\ Turned([r EXCEPT !.owner = b]).moving = r.moving
         /\ Committed(r, b) \in DoorRecords /\ ~Committed(r, b).moving
BY DEF SetMoving, Turned, Committed, DoorRecords

\* A door that comes to rest does so on the side its swing was bound for.
LEMMA CommittedAjar ==
  ASSUME NEW r \in DoorRecords
  PROVE  /\ Committed(r, ~r.closing) \in DoorRecords
         /\ ~Committed(r, ~r.closing).moving
BY DEF Committed, Turned, DoorRecords

----------------------------------------------------------------------------
(* The steps.                                                              *)

WorldTypes ==
  /\ door \in [Doors -> DoorRecords]
  /\ alive \subseteq Effects
  /\ stranded \subseteq Objects

TickTypes ==
  /\ cursor \in 0 .. count
  /\ elapsed \in IF cursor = 0 THEN {0} ELSE Elapsed
  /\ rearmed \in BOOLEAN

\* The inductive invariant, by the parts the steps disturb.
LEMMA SplitTableInv ==
  TableInv <=> TableSound /\ DelayTypes /\ WorldTypes /\ TickTypes /\ Owned
BY DEF TableInv, TypeOK, TableSound, TableTypes, DelayTypes,
       WorldTypes, TickTypes, Owned

\* The same split in the next state.
LEMMA SplitTableInvPrime ==
  TableInv' <=> TableSound' /\ DelayTypes' /\ WorldTypes' /\ TickTypes' /\ Owned'
BY DEF TableInv, TypeOK, TableSound, TableTypes, DelayTypes,
       WorldTypes, TickTypes, Owned

\* The table says nothing new when it does not change.
LEMMA TableUnchanged ==
  ASSUME TableSound, DelayTypes, UNCHANGED table
  PROVE  /\ TableSound' /\ DelayTypes'
         /\ \A p \in Sure : HasEntry(p)' <=> HasEntry(p)
<1>1. TableSound' /\ DelayTypes'
  BY DEF table, TableSound, TableTypes, DelayTypes, SureDistinct, Entries
<1>2. \A p \in Sure : HasEntry(p)' <=> HasEntry(p)
  BY DEF table, HasEntry, Entries
<1>3. QED
  BY <1>1, <1>2

\* New delays within their types change nothing else.
LEMMA DelayChanged ==
  ASSUME TableSound, DelayTypes, UNCHANGED <<link, count>>, DOMAIN delay' = DOMAIN delay,
         \A i \in Entries :
           delay'[i] \in IF link[i] \in Doors THEN 0 .. SwingTime[link[i]] ELSE Nat \cup {-1}
  PROVE  /\ TableSound' /\ DelayTypes'
         /\ \A p \in Sure : HasEntry(p)' <=> HasEntry(p)
<1>1. TableSound'
  BY DEF TableSound, TableTypes, SureDistinct, Entries
<1>2. DelayTypes'
  BY DEF DelayTypes, Entries
<1>3. \A p \in Sure : HasEntry(p)' <=> HasEntry(p)
  BY DEF HasEntry, Entries
<1>4. QED
  BY <1>1, <1>2, <1>3

\* Between ticks nothing has to be kept of a tick but that none is running.
LEMMA IdleTick ==
  ASSUME TickTypes, cursor = 0, UNCHANGED <<ticking, rearmed>>, TableSound'
  PROVE  TickTypes'
BY SchedulerAssumption DEF TickTypes, ticking, TableSound, TableTypes

\* The bottom of the loop in scheduler_tick.
LEMMA AdvanceTypes ==
  ASSUME TickTypes, TableTypes, cursor # 0, Advance, rearmed' \in BOOLEAN, TableTypes'
  PROVE  TickTypes'
<1>1. cursor \in Nat /\ count' \in Nat /\ elapsed \in Elapsed
  BY SchedulerAssumption DEF TickTypes, TableTypes
<1>2. QED
  BY <1>1 DEF Advance, TickTypes

\* Setting a door at rest in motion (schedule_door_open_animation).
LEMMA ScheduleDoorKeeps ==
  ASSUME TableInv, NEW d \in Doors, cursor = 0, ~door[d].moving, ScheduleDoor(d)
  PROVE  TableInv'
<1>0. TableSound /\ DelayTypes /\ WorldTypes /\ TickTypes /\ Owned
  BY SplitTableInv
<1>1. d \in Objects /\ d \in Sure /\ ~Animated(d)
  BY SureObjects DEF Animated
<1>2. d \notin stranded /\ ~HasEntry(d)
  BY <1>0, <1>1 DEF Owned
<1>3. /\ door' \in [Doors -> DoorRecords] /\ door'[d].moving /\ alive' = alive
      /\ \A c \in Doors : c # d => door'[c] = door[c]
  BY <1>0, RecordTypes DEF ScheduleDoor, WorldTypes
<1>4. \A o \in Sure : Animated(o)' <=> Animated(o) \/ o = d
  BY <1>0, <1>3 DEF Animated
<1>5. CASE Full
  <2>1. stranded' = stranded \cup {d} /\ UNCHANGED table
    BY <1>5 DEF ScheduleDoor
  <2>2. /\ TableSound' /\ DelayTypes'
        /\ \A p \in Sure : HasEntry(p)' <=> HasEntry(p)
    BY <1>0, <2>1, TableUnchanged
  <2>3. Owned'
    BY <1>0, <1>2, <1>4, <2>1, <2>2 DEF Owned
  <2>4. WorldTypes'
    BY <1>0, <1>1, <1>3, <2>1 DEF WorldTypes
  <2>5. TickTypes'
    BY <1>0, <2>2, IdleTick DEF ScheduleDoor
  <2>6. QED
    BY <2>2, <2>3, <2>4, <2>5, SplitTableInvPrime
<1>6. CASE ~Full
  <2>1. stranded' = stranded /\ AddEntry(d, SwingTime[d])
    BY <1>6 DEF ScheduleDoor
  <2>2. SwingTime[d] \in IF d \in Doors THEN 0 .. SwingTime[d] ELSE Nat \cup {-1}
    BY SchedulerAssumption
  <2>3. /\ TableSound' /\ DelayTypes'
        /\ \A p \in Sure : HasEntry(p)' <=> HasEntry(p) \/ p = d
    BY <1>0, <1>1, <1>2, <2>1, <2>2, AddKeeps
  <2>4. Owned'
    BY <1>0, <1>2, <1>4, <2>1, <2>3 DEF Owned
  <2>5. WorldTypes'
    BY <1>0, <1>3, <2>1 DEF WorldTypes
  <2>6. TickTypes'
    BY <1>0, <2>3, IdleTick DEF ScheduleDoor
  <2>7. QED
    BY <2>3, <2>4, <2>5, <2>6, SplitTableInvPrime
<1>7. QED
  BY <1>5, <1>6

\* Turning a moving door round (adjust_door_close_animation_delay).
LEMMA ReverseDoorKeeps ==
  ASSUME TableInv, NEW d \in Doors, cursor = 0, ReverseDoor(d)
  PROVE  TableInv'
<1>0. TableSound /\ DelayTypes /\ WorldTypes /\ TickTypes /\ Owned
  BY SplitTableInv
<1>1. door[d] \in DoorRecords /\ door[d].owner \in BOOLEAN
  BY <1>0 DEF WorldTypes, DoorRecords
<1>2. /\ door' \in [Doors -> DoorRecords]
      /\ \A c \in Doors : door'[c].moving = door[c].moving
  <2>1. Reversed(door[d]) \in DoorRecords /\ Reversed(door[d]).moving = door[d].moving
    BY <1>1, RecordTypes DEF Reversed
  <2>2. QED
    BY <1>0, <2>1 DEF WorldTypes, ReverseDoor
<1>3. UNCHANGED <<link, count, alive, stranded, ticking, rearmed>>
  BY DEF ReverseDoor
<1>4. DOMAIN delay' = DOMAIN delay
  BY DEF ReverseDoor
<1>5. ASSUME NEW i \in Entries
      PROVE  delay'[i] \in IF link[i] \in Doors THEN 0 .. SwingTime[link[i]] ELSE Nat \cup {-1}
  <2>1. i \in DOMAIN delay
    BY <1>0, SchedulerAssumption DEF TableSound, TableTypes, Entries
  <2>2. delay'[i] = IF IsEntryOf(i, d) /\ delay[i] >= 0
                    THEN SwingTime[d] - delay[i] ELSE delay[i]
    BY <2>1 DEF ReverseDoor
  <2>3. CASE IsEntryOf(i, d)
    <3>1. link[i] = d /\ delay[i] \in 0 .. SwingTime[d] /\ SwingTime[d] \in Nat
      BY <1>0, <2>3, SchedulerAssumption DEF IsEntryOf, DelayTypes
    <3>2. QED
      BY <2>2, <3>1
  <2>4. CASE ~IsEntryOf(i, d)
    BY <1>0, <2>2, <2>4 DEF DelayTypes
  <2>5. QED
    BY <2>3, <2>4
<1>6. /\ TableSound' /\ DelayTypes'
      /\ \A p \in Sure : HasEntry(p)' <=> HasEntry(p)
  BY <1>0, <1>3, <1>4, <1>5, DelayChanged
<1>7. \A o \in Sure : Animated(o)' <=> Animated(o)
  BY <1>2, <1>3 DEF Animated
<1>8. Owned' /\ WorldTypes'
  BY <1>0, <1>2, <1>3, <1>6, <1>7 DEF Owned, WorldTypes
<1>9. TickTypes'
  BY <1>0, <1>3, <1>6, IdleTick
<1>10. QED
  BY <1>6, <1>8, <1>9, SplitTableInvPrime

\* The steps on effects between ticks.  The collector is left out: it is what
\* breaks the correspondence (Collectable).
LEMMA EffectStepsKeep ==
  ASSUME TableInv, NEW o \in Effects, NEW d \in EffectDelays,
         SpawnScheduledEffectObject(o, d) \/ ScheduleEffectInPlace(o, d)
  PROVE  TableInv'
<1>0. TableSound /\ DelayTypes /\ WorldTypes /\ TickTypes /\ Owned
  BY SplitTableInv
<1>1. /\ cursor = 0 /\ o \notin alive /\ UNCHANGED <<door, ticking, rearmed>>
      /\ o \in Objects /\ o \notin Doors /\ ~Animated(o)
  BY SchedulerAssumption
     DEF SpawnScheduledEffectObject, ScheduleEffectInPlace, Objects, Animated
<1>2. o \in Sure => o \notin stranded /\ ~HasEntry(o)
  BY <1>0, <1>1 DEF Owned
<1>3. CASE Full
  <2>1. \/ UNCHANGED <<table, alive, stranded>>
        \/ UNCHANGED table /\ alive' = alive \cup {o} /\ stranded' = stranded \cup {o}
    BY <1>3 DEF SpawnScheduledEffectObject, ScheduleEffectInPlace
  <2>2. /\ TableSound' /\ DelayTypes'
        /\ \A p \in Sure : HasEntry(p)' <=> HasEntry(p)
    BY <1>0, <2>1, TableUnchanged
  <2>3. Owned'
    BY <1>0, <1>1, <1>2, <2>1, <2>2 DEF Owned, Animated
  <2>4. WorldTypes'
    BY <1>0, <1>1, <2>1 DEF WorldTypes
  <2>5. TickTypes'
    BY <1>0, <1>1, <2>2, IdleTick
  <2>6. QED
    BY <2>2, <2>3, <2>4, <2>5, SplitTableInvPrime
<1>4. CASE ~Full
  <2>1. AddEntry(o, d) /\ alive' = alive \cup {o} /\ stranded' = stranded
    BY <1>4 DEF SpawnScheduledEffectObject, ScheduleEffectInPlace
  <2>2. d \in IF o \in Doors THEN 0 .. SwingTime[o] ELSE Nat \cup {-1}
    BY <1>1, SchedulerAssumption
  <2>3. /\ TableSound' /\ DelayTypes'
        /\ \A p \in Sure : HasEntry(p)' <=> HasEntry(p) \/ p = o
    BY <1>0, <1>1, <1>2, <2>1, <2>2, AddKeeps
  <2>4. Owned'
    BY <1>0, <1>1, <1>2, <2>1, <2>3 DEF Owned, Animated
  <2>5. WorldTypes'
    BY <1>0, <1>1, <2>1 DEF WorldTypes
  <2>6. TickTypes'
    BY <1>0, <1>1, <2>3, IdleTick
  <2>7. QED
    BY <2>3, <2>4, <2>5, <2>6, SplitTableInvPrime
<1>5. QED
  BY <1>3, <1>4

\* An effect that gets a record of the other pool takes its entry along.
LEMMA ReallocateKeeps ==
  ASSUME TableInv, NEW old \in Effects, NEW new \in Effects, ReallocateEffect(old, new)
  PROVE  TableInv'
<1>0. TableSound /\ DelayTypes /\ WorldTypes /\ TickTypes /\ Owned
  BY SplitTableInv
<1>1. /\ old # new /\ old \in alive /\ new \notin alive /\ cursor = 0
      /\ old \in Objects /\ new \in Objects /\ old \notin Doors /\ new \notin Doors
      /\ UNCHANGED <<door, ticking, rearmed>>
  BY SchedulerAssumption DEF ReallocateEffect, Objects
<1>2. new \in Sure => new \notin stranded /\ ~HasEntry(new)
  BY <1>0, <1>1 DEF Owned, Animated
<1>3. /\ TableSound' /\ DelayTypes'
      /\ \A p \in Sure :
           HasEntry(p)' <=> IF p = new THEN HasEntry(old) ELSE HasEntry(p) /\ p # old
  BY <1>0, <1>1, <1>2, RelinkKeeps DEF ReallocateEffect
<1>4. /\ alive' = (alive \ {old}) \cup {new}
      /\ stranded' = IF old \in stranded THEN (stranded \ {old}) \cup {new} ELSE stranded
  BY DEF ReallocateEffect
<1>5. Owned'
  <2>0. new \in Sure => old \in Sure
    BY <1>1, SureObjects
  <2>1. ASSUME NEW p \in Sure
        PROVE  /\ HasEntry(p)' <=> Animated(p)' /\ p \notin stranded'
               /\ p \in stranded' => Animated(p)'
    <3>1. CASE p = new
      BY <1>0, <1>1, <1>2, <1>3, <1>4, <2>0, <3>1 DEF Owned, Animated
    <3>2. CASE p = old
      BY <1>0, <1>1, <1>2, <1>3, <1>4, <3>2 DEF Owned, Animated
    <3>3. CASE p # new /\ p # old
      BY <1>0, <1>1, <1>2, <1>3, <1>4, <3>3 DEF Owned, Animated
    <3>4. QED
      BY <3>1, <3>2, <3>3
  <2>2. QED
    BY <2>1 DEF Owned
<1>6. WorldTypes'
  BY <1>0, <1>1, <1>4 DEF WorldTypes
<1>7. TickTypes'
  BY <1>0, <1>1, <1>3, IdleTick
<1>8. QED
  BY <1>3, <1>5, <1>6, <1>7, SplitTableInvPrime

\* discard_misplaced_object frees the object and its entry together.
LEMMA DiscardKeeps ==
  ASSUME TableInv, NEW o \in Effects, DiscardEffect(o)
  PROVE  TableInv'
<1>0. TableSound /\ DelayTypes /\ WorldTypes /\ TickTypes /\ Owned
  BY SplitTableInv
<1>1. /\ cursor = 0 /\ o \notin Doors
      /\ alive' = alive \ {o} /\ stranded' = stranded \ {o}
      /\ UNCHANGED <<door, ticking, rearmed>>
  BY SchedulerAssumption DEF DiscardEffect
<1>2. /\ TableSound' /\ DelayTypes'
      /\ \A p \in Sure : HasEntry(p)' <=> HasEntry(p) /\ p # o
  BY <1>0, RemoveEntryKeeps DEF DiscardEffect
<1>3. Owned'
  BY <1>0, <1>1, <1>2 DEF Owned, Animated
<1>4. WorldTypes'
  BY <1>0, <1>1 DEF WorldTypes
<1>5. TickTypes'
  BY <1>0, <1>1, <1>2, IdleTick
<1>6. QED
  BY <1>2, <1>3, <1>4, <1>5, SplitTableInvPrime

\* Saving and loading the level brings the table back.
LEMMA SaveAndLoadKeeps == TableInv /\ SaveAndLoad => TableInv'
<1> SUFFICES ASSUME TableInv, SaveAndLoad PROVE TableInv'
  OBVIOUS
<1>0. TableSound /\ DelayTypes /\ WorldTypes /\ TickTypes /\ Owned
  BY SplitTableInv
<1>1. /\ TableSound' /\ DelayTypes'
      /\ \A p \in Sure : HasEntry(p)' <=> HasEntry(p)
  BY <1>0, LoadKeeps DEF SaveAndLoad
<1>2. cursor = 0 /\ UNCHANGED <<door, alive, stranded>> /\ UNCHANGED <<ticking, rearmed>>
  BY DEF SaveAndLoad, world
<1>3. Owned' /\ WorldTypes'
  BY <1>0, <1>1, <1>2 DEF Owned, Animated, WorldTypes
<1>4. TickTypes'
  BY <1>0, <1>1, <1>2, IdleTick
<1>5. QED
  BY <1>1, <1>3, <1>4, SplitTableInvPrime

----------------------------------------------------------------------------
(* The passes of the loop of scheduler_tick.                               *)

\* The entry a pass looks at, and that a loop index is one of the entries.
LEMMA CurrentEntry ==
  ASSUME TableInv, cursor # 0
  PROVE  /\ cursor \in Entries /\ Current \in Objects /\ elapsed \in {1, 4}
         /\ HasEntry(Current)
         /\ Current \in Sure => Animated(Current) /\ Current \notin stranded
         /\ Left \in IF Current \in Doors THEN 0 .. SwingTime[Current] ELSE Nat \cup {-1}
         /\ Current \in Sure => \A i \in Entries : link[i] = Current => i = cursor
<1>0. TableSound /\ DelayTypes /\ WorldTypes /\ TickTypes /\ Owned
  BY SplitTableInv
<1>1. cursor \in Entries /\ elapsed \in {1, 4}
  BY <1>0, SchedulerAssumption DEF TickTypes, Entries, TableSound, TableTypes
<1>2. Current \in Objects /\ HasEntry(Current)
  BY <1>0, <1>1 DEF TableSound, Current, HasEntry
<1>3. Current \in Sure => Animated(Current) /\ Current \notin stranded
  BY <1>0, <1>2 DEF Owned
<1>4. Left \in IF Current \in Doors THEN 0 .. SwingTime[Current] ELSE Nat \cup {-1}
  BY <1>0, <1>1 DEF DelayTypes, Left, Current
<1>5. Current \in Sure => \A i \in Entries : link[i] = Current => i = cursor
  BY <1>0, <1>1 DEF TableSound, SureDistinct, Current
<1>6. QED
  BY <1>1, <1>2, <1>3, <1>4, <1>5

\* A pass that changes the delay of its entry, or none, and moves no entry.
LEMMA VisitStayKeeps ==
  ASSUME TableInv, cursor # 0, Advance, rearmed' \in BOOLEAN,
         UNCHANGED <<link, count, alive, stranded>>,
         NEW x,
         x \in IF Current \in Doors THEN 0 .. SwingTime[Current] ELSE Nat \cup {-1},
         DOMAIN delay' = DOMAIN delay,
         \A i \in Entries : delay'[i] = IF i = cursor THEN x ELSE delay[i],
         door' \in [Doors -> DoorRecords],
         \A c \in Doors : door'[c].moving = door[c].moving
  PROVE  TableInv'
<1>0. TableSound /\ DelayTypes /\ WorldTypes /\ TickTypes /\ Owned
  BY SplitTableInv
<1>1. cursor \in Entries /\ cursor \in DOMAIN delay
  BY <1>0, CurrentEntry, SchedulerAssumption DEF TableSound, TableTypes, Entries
<1>2. ASSUME NEW i \in Entries
      PROVE  delay'[i] \in IF link[i] \in Doors THEN 0 .. SwingTime[link[i]] ELSE Nat \cup {-1}
  <2>1. i \in DOMAIN delay
    BY <1>0, SchedulerAssumption DEF TableSound, TableTypes, Entries
  <2>2. CASE i = cursor
    BY <1>1, <2>2 DEF Current
  <2>3. CASE i # cursor
    BY <1>0, <2>1, <2>3 DEF DelayTypes
  <2>4. QED
    BY <2>2, <2>3
<1>4. /\ TableSound' /\ DelayTypes'
      /\ \A p \in Sure : HasEntry(p)' <=> HasEntry(p)
  BY <1>0, <1>2, DelayChanged
<1>5. \A o \in Sure : Animated(o)' <=> Animated(o)
  BY DEF Animated
<1>6. Owned' /\ WorldTypes'
  BY <1>0, <1>4, <1>5 DEF Owned, WorldTypes
<1>7. TickTypes'
  BY <1>0, <1>4, AdvanceTypes DEF TableSound
<1>8. QED
  BY <1>4, <1>6, <1>7, SplitTableInvPrime

\* A pass that ends an entry, when its object is no longer animated.
LEMMA VisitEndKeeps ==
  ASSUME TableInv, cursor # 0, Advance, rearmed' \in BOOLEAN, RemoveAt(cursor),
         UNCHANGED stranded, alive' \subseteq Effects,
         door' \in [Doors -> DoorRecords],
         \A o \in Sure : Animated(o)' <=> Animated(o) /\ o # Current
  PROVE  TableInv'
<1>0. TableSound /\ DelayTypes /\ WorldTypes /\ TickTypes /\ Owned
  BY SplitTableInv
<1>1. /\ cursor \in Entries /\ Current = link[cursor]
      /\ Current \in Sure => Current \notin stranded
  BY CurrentEntry DEF Current
<1>2. /\ TableSound' /\ DelayTypes'
      /\ \A p \in Sure : HasEntry(p)' <=> HasEntry(p) /\ p # Current
  BY <1>0, <1>1, RemoveKeeps
<1>3. Owned'
  BY <1>0, <1>1, <1>2 DEF Owned
<1>4. WorldTypes'
  BY <1>0 DEF WorldTypes
<1>5. TickTypes'
  BY <1>0, <1>2, AdvanceTypes DEF TableSound
<1>6. QED
  BY <1>2, <1>3, <1>4, <1>5, SplitTableInvPrime

\* The passes that keep their entry.
LEMMA VisitStayingKeeps ==
  ASSUME TableInv, NEW b \in BOOLEAN,
         VisitForever \/ VisitEffectWaiting \/ VisitDoorWaiting(b) \/ VisitDoorDueBlocked(b)
  PROVE  TableInv'
<1>0. TableSound /\ DelayTypes /\ WorldTypes /\ TickTypes /\ Owned
  BY SplitTableInv
<1>1. /\ cursor # 0 /\ Advance /\ UNCHANGED <<link, count, alive, stranded>>
  BY DEF VisitForever, VisitEffectWaiting, VisitDoorWaiting, VisitDoorDueBlocked, table, world
<1>2. /\ Current \in Objects /\ elapsed \in {1, 4} /\ cursor \in DOMAIN delay
      /\ Left \in IF Current \in Doors THEN 0 .. SwingTime[Current] ELSE Nat \cup {-1}
      /\ Left = delay[cursor] /\ rearmed \in BOOLEAN
  BY <1>0, <1>1, CurrentEntry, SchedulerAssumption
     DEF TableSound, TableTypes, Entries, Left, TickTypes
<1>3. CASE VisitForever
  <2>1. UNCHANGED delay /\ UNCHANGED door /\ UNCHANGED rearmed
    BY <1>3 DEF VisitForever, table, world
  <2>2. \A i \in Entries : delay'[i] = IF i = cursor THEN Left ELSE delay[i]
    BY <1>2, <2>1
  <2>3. QED
    BY <1>0, <1>1, <1>2, <2>1, <2>2, VisitStayKeeps DEF WorldTypes
<1>4. CASE VisitEffectWaiting
  <2>1. /\ delay' = IF rearmed THEN delay ELSE [delay EXCEPT ![cursor] = Left - elapsed]
        /\ UNCHANGED door /\ rearmed' = FALSE
        /\ Waiting /\ Current \notin Doors
    BY <1>4 DEF VisitEffectWaiting, world, Left
  <2>2. DEFINE x == IF rearmed THEN Left ELSE Left - elapsed
  <2>3. x \in IF Current \in Doors THEN 0 .. SwingTime[Current] ELSE Nat \cup {-1}
    BY <1>2, <2>1 DEF Waiting
  <2>4. DOMAIN delay' = DOMAIN delay
    BY <2>1
  <2>5. \A i \in Entries : delay'[i] = IF i = cursor THEN x ELSE delay[i]
    <3>1. Entries \subseteq DOMAIN delay
      BY <1>0, SchedulerAssumption DEF TableSound, TableTypes, Entries
    <3>2. QED
      BY <1>2, <2>1, <3>1
  <2>6. rearmed' \in BOOLEAN
    BY <2>1
  <2> HIDE DEF x
  <2>7. QED
    BY <1>0, <1>1, <2>1, <2>3, <2>4, <2>5, <2>6, VisitStayKeeps DEF WorldTypes
<1>5. CASE VisitDoorWaiting(b)
  <2>1. /\ Waiting /\ Current \in Doors
        /\ door' = [door EXCEPT ![Current] = Stepped(door[Current], elapsed, b)]
        /\ delay' = [delay EXCEPT ![cursor] =
                       IF b THEN ReboundDelay(Current, Left)
                       ELSE IF rearmed THEN Left ELSE Left - elapsed]
        /\ rearmed' = FALSE
    BY <1>5 DEF VisitDoorWaiting, Left
  <2>2. DEFINE x == IF b THEN ReboundDelay(Current, Left)
                    ELSE IF rearmed THEN Left ELSE Left - elapsed
  <2>3. SwingTime[Current] \in {4, 5}
    BY <2>1, SchedulerAssumption
  <2>4. x \in 0 .. SwingTime[Current]
    BY <1>2, <2>1, <2>3 DEF Waiting, ReboundDelay
  <2>5. DOMAIN delay' = DOMAIN delay
    BY <2>1
  <2>6. \A i \in Entries : delay'[i] = IF i = cursor THEN x ELSE delay[i]
    <3>1. Entries \subseteq DOMAIN delay
      BY <1>0, SchedulerAssumption DEF TableSound, TableTypes, Entries
    <3>2. QED
      BY <1>2, <2>1, <3>1
  <2>7. /\ door' \in [Doors -> DoorRecords]
        /\ \A c \in Doors : door'[c].moving = door[c].moving
    <3>1. door[Current] \in DoorRecords /\ elapsed \in Int
      BY <1>0, <1>2, <2>1 DEF WorldTypes
    <3>2. /\ Stepped(door[Current], elapsed, b) \in DoorRecords
          /\ Stepped(door[Current], elapsed, b).moving = door[Current].moving
      BY <3>1, StepTypes
    <3>3. QED
      BY <1>0, <2>1, <3>2 DEF WorldTypes
  <2>8. rearmed' \in BOOLEAN
    BY <2>1
  <2> HIDE DEF x
  <2>9. QED
    BY <1>1, <2>1, <2>4, <2>5, <2>6, <2>7, <2>8, VisitStayKeeps
<1>6. CASE VisitDoorDueBlocked(b)
  <2>1. /\ Due /\ Current \in Doors /\ (b => CatchesUp)
        /\ door' = [door EXCEPT ![Current] =
                      Turned([LastStep(Current, b) EXCEPT !.owner = FALSE])]
        /\ delay' = [delay EXCEPT ![cursor] = SwingTime[Current] - LastLeft(Current, b)]
        /\ rearmed' = (rearmed \/ b)
    BY <1>6 DEF VisitDoorDueBlocked
  <2>2. DEFINE x == SwingTime[Current] - LastLeft(Current, b)
  <2>3. SwingTime[Current] \in {4, 5}
    BY <2>1, SchedulerAssumption
  <2>4. x \in 0 .. SwingTime[Current]
    <3>1. b => Left # 0
      BY <2>1 DEF CatchesUp
    <3>2. QED
      BY <1>2, <2>1, <2>3, <3>1 DEF Due, LastLeft, ReboundDelay
  <2>5. DOMAIN delay' = DOMAIN delay
    BY <2>1
  <2>6. \A i \in Entries : delay'[i] = IF i = cursor THEN x ELSE delay[i]
    <3>1. Entries \subseteq DOMAIN delay
      BY <1>0, SchedulerAssumption DEF TableSound, TableTypes, Entries
    <3>2. QED
      BY <1>2, <2>1, <3>1
  <2>7. /\ door' \in [Doors -> DoorRecords]
        /\ \A c \in Doors : door'[c].moving = door[c].moving
    <3>1. door[Current] \in DoorRecords
      BY <1>0, <2>1 DEF WorldTypes
    <3>2. /\ LastStep(Current, b) \in DoorRecords
          /\ LastStep(Current, b).moving = door[Current].moving
      BY <3>1, StepTypes DEF LastStep
    <3>3. /\ Turned([LastStep(Current, b) EXCEPT !.owner = FALSE]) \in DoorRecords
          /\ Turned([LastStep(Current, b) EXCEPT !.owner = FALSE]).moving
             = door[Current].moving
      BY <3>2, RecordTypes
    <3>4. QED
      BY <1>0, <2>1, <3>3 DEF WorldTypes
  <2>8. rearmed' \in BOOLEAN
    BY <2>1
  <2> HIDE DEF x
  <2>9. QED
    BY <1>1, <2>1, <2>4, <2>5, <2>6, <2>7, <2>8, VisitStayKeeps
<1>7. QED
  BY <1>3, <1>4, <1>5, <1>6

\* The passes that end their entry: a sprite is freed, a door comes to rest.
LEMMA VisitEndingKeeps ==
  ASSUME TableInv, NEW b \in BOOLEAN, VisitEffectDue \/ VisitDoorDue(b)
  PROVE  TableInv'
<1>0. TableSound /\ DelayTypes /\ WorldTypes /\ TickTypes /\ Owned
  BY SplitTableInv
<1>1. /\ cursor # 0 /\ Advance /\ RemoveAt(cursor) /\ UNCHANGED stranded
  BY DEF VisitEffectDue, VisitDoorDue
<1>2. Current \in Objects /\ rearmed \in BOOLEAN
  BY <1>0, <1>1, CurrentEntry DEF TickTypes
<1>3. CASE VisitEffectDue
  <2>1. /\ Current \notin Doors /\ alive' = alive \ {Current}
        /\ UNCHANGED door /\ UNCHANGED rearmed
    BY <1>3 DEF VisitEffectDue
  <2>2. \A o \in Sure : Animated(o)' <=> Animated(o) /\ o # Current
    BY <2>1 DEF Animated
  <2>3. QED
    BY <1>0, <1>1, <1>2, <2>1, <2>2, VisitEndKeeps DEF WorldTypes
<1>4. CASE VisitDoorDue(b)
  <2>1. /\ Current \in Doors /\ alive' = alive
        /\ door' = [door EXCEPT ![Current] =
                      Committed(LastStep(Current, b), ~LastStep(Current, b).closing)]
        /\ rearmed' = (rearmed \/ b)
    BY <1>4 DEF VisitDoorDue
  <2>2. door[Current] \in DoorRecords
    BY <1>0, <2>1 DEF WorldTypes
  <2>3. LastStep(Current, b) \in DoorRecords
    BY <2>2, StepTypes DEF LastStep
  <2>5. /\ Committed(LastStep(Current, b), ~LastStep(Current, b).closing) \in DoorRecords
        /\ ~Committed(LastStep(Current, b), ~LastStep(Current, b).closing).moving
    BY <2>3, CommittedAjar
  <2>6. /\ door' \in [Doors -> DoorRecords] /\ ~door'[Current].moving
        /\ \A c \in Doors : c # Current => door'[c] = door[c]
    BY <1>0, <2>1, <2>5 DEF WorldTypes
  <2>7. \A o \in Sure : Animated(o)' <=> Animated(o) /\ o # Current
    BY <2>1, <2>6 DEF Animated
  <2>8. rearmed' \in BOOLEAN
    BY <1>2, <2>1
  <2>9. alive' \subseteq Effects
    BY <1>0, <2>1 DEF WorldTypes
  <2>10. QED
    BY <1>1, <2>6, <2>7, <2>8, <2>9, VisitEndKeeps
<1>5. QED
  BY <1>3, <1>4

----------------------------------------------------------------------------
(* The theorems.                                                           *)

\* The empty table of a fresh level matches its doors, all of them at rest.
LEMMA InitTableInv == Init => TableInv
<1> SUFFICES ASSUME Init PROVE TableInv
  OBVIOUS
<1>1. TableSound /\ DelayTypes /\ Entries = {}
  BY SchedulerAssumption
     DEF Init, EmptyTable, TableSound, TableTypes, DelayTypes, Entries, SureDistinct
<1>2. \A d \in Doors : ~door[d].moving
  BY DEF Init, Resting
<1>3. Owned
  BY <1>1, <1>2 DEF Init, Owned, HasEntry, Animated
<1>4. WorldTypes
  BY DEF Init, WorldTypes
<1>6. TickTypes
  <2>1. cursor = 0 /\ elapsed = 0 /\ count = 0
    BY DEF Init, EmptyTable
  <2>2. cursor \in 0 .. count
    BY <2>1
  <2>3. rearmed \in BOOLEAN
    BY Zenon DEF Init
  <2>4. elapsed \in IF cursor = 0 THEN {0} ELSE Elapsed
    BY <2>1
  <2>5. QED
    BY <2>2, <2>3, <2>4, Zenon DEF TickTypes
<1>5. QED
  BY <1>1, <1>3, <1>4, <1>6, SplitTableInv

\* Every step keeps the invariant.
LEMMA NextTableInv ==
  ASSUME TableInv, [Next]_vars
  PROVE  TableInv'
<1>0. TableSound /\ DelayTypes /\ WorldTypes /\ TickTypes /\ Owned
  BY SplitTableInv
<1>1. ASSUME NEW d \in Doors, CloseDoorObject(d) \/ OpenDoorObject(d) PROVE TableInv'
  BY <1>1, ScheduleDoorKeeps, ReverseDoorKeeps DEF CloseDoorObject, OpenDoorObject
<1>2. ASSUME NEW d \in Doors, ToggleDoorObject(d) PROVE TableInv'
  BY <1>1, <1>2 DEF ToggleDoorObject
<1>3. ASSUME NEW o \in Effects, NEW d \in EffectDelays,
             SpawnScheduledEffectObject(o, d) \/ ScheduleEffectInPlace(o, d)
      PROVE  TableInv'
  BY <1>3, EffectStepsKeep
<1>4. ASSUME NEW old \in Effects, NEW new \in Effects, ReallocateEffect(old, new)
      PROVE  TableInv'
  BY <1>4, ReallocateKeeps
<1>5. ASSUME NEW o \in Effects, DiscardEffect(o) PROVE TableInv'
  BY <1>5, DiscardKeeps
<1>6. ASSUME NEW o \in Effects, CollectEffect(o) PROVE TableInv'
  <2>1. /\ UNCHANGED table /\ UNCHANGED door /\ cursor = 0
        /\ UNCHANGED <<ticking, rearmed>>
        /\ alive' = alive \ {o} /\ stranded' = stranded \ {o} /\ Collectable # {}
    BY <1>6 DEF CollectEffect
  <2>2. /\ TableSound' /\ DelayTypes'
        /\ \A p \in Sure : HasEntry(p)' <=> HasEntry(p)
    BY <1>0, <2>1, TableUnchanged
  <2>3. Sure = Doors /\ o \notin Sure
    BY <2>1, SureObjects
  <2>4. Owned' /\ WorldTypes'
    BY <1>0, <2>1, <2>2, <2>3 DEF Owned, Animated, WorldTypes
  <2>5. TickTypes'
    BY <1>0, <2>1, <2>2, IdleTick
  <2>6. QED
    BY <2>2, <2>4, <2>5, SplitTableInvPrime
<1>7. CASE SaveAndLoad
  BY <1>7, SaveAndLoadKeeps
<1>8. ASSUME NEW e \in Elapsed, BeginTick(e) PROVE TableInv'
  <2>1. /\ UNCHANGED table /\ UNCHANGED world /\ UNCHANGED rearmed
        /\ cursor' = 1 /\ elapsed' = e /\ count > 0
    BY <1>8 DEF BeginTick
  <2>2. /\ TableSound' /\ DelayTypes'
        /\ \A p \in Sure : HasEntry(p)' <=> HasEntry(p)
    BY <1>0, <2>1, TableUnchanged
  <2>3. Owned' /\ WorldTypes'
    BY <1>0, <2>1, <2>2 DEF Owned, Animated, WorldTypes, world
  <2>4. TickTypes'
    BY <1>0, <2>1, SchedulerAssumption DEF TickTypes, table, TableSound, TableTypes
  <2>5. QED
    BY <2>2, <2>3, <2>4, SplitTableInvPrime
<1>9. CASE Visit
  BY <1>9, VisitStayingKeeps, VisitEndingKeeps DEF Visit
<1>10. CASE UNCHANGED vars
  <2>1. /\ TableSound' /\ DelayTypes'
        /\ \A p \in Sure : HasEntry(p)' <=> HasEntry(p)
    BY <1>0, <1>10, TableUnchanged DEF vars
  <2>2. Owned' /\ WorldTypes' /\ TickTypes'
    BY <1>0, <1>10, <2>1
       DEF vars, world, ticking, table, Owned, Animated, WorldTypes, TickTypes
  <2>3. QED
    BY <2>1, <2>2, SplitTableInvPrime
<1>11. QED
  BY <1>1, <1>2, <1>3, <1>4, <1>5, <1>6, <1>7, <1>8, <1>9, <1>10 DEF Next

\* The inductive invariant holds in every state, whatever the collector takes.
THEOREM TableInvariant == Spec => []TableInv
<1>1. TableInv /\ [Next]_vars => TableInv'
  BY NextTableInv
<1>2. QED
  BY <1>1, InitTableInv, PTL DEF Spec

\* For every size of the table the entries are exactly the moving doors and the
\* effect objects whose add was not refused, each once (scheduler.c), unless the
\* collector takes effects.
THEOREM TableIsExact ==
  ASSUME Collectable = {}
  PROVE  Spec => []TableExact
<1>1. TableInv => TableExact
  BY DEF TableInv, TableExact, SureDistinct, EntriesDistinct, Owned, Sure, Entries
<1>2. QED
  BY <1>1, TableInvariant, PTL

\* The same of the doors, also where the collector leaves entries of effects behind.
DoorsExact ==
  /\ \A i, j \in Entries : link[i] = link[j] /\ link[i] \in Doors => i = j
  /\ \A d \in Doors : HasEntry(d) <=> door[d].moving /\ d \notin stranded

\* Each door in motion has one entry, unless it was refused, and no other door has one.
THEOREM DoorsAreExact == Spec => []DoorsExact
<1>1. TableInv => DoorsExact
  BY SureObjects DEF TableInv, DoorsExact, SureDistinct, Owned, Animated
<1>2. QED
  BY <1>1, TableInvariant, PTL

\* Types, and that no delay of a door is "forever" or longer than a swing.
THEOREM SchedulerTypes == Spec => []TypeOK
<1>1. TableInv => TypeOK
  BY DEF TableInv
<1>2. QED
  BY <1>1, TableInvariant, PTL

----------------------------------------------------------------------------
(* The direction of the doors.                                             *)

\* In any step a door stays as it is, or is left moving, or comes to rest from a
\* record r on the side r was bound for.
LEMMA DoorStep ==
  ASSUME TableInv, [Next]_vars, NEW c \in Doors
  PROVE  \/ door'[c] = door[c]
         \/ door'[c].moving
         \/ \E r \in DoorRecords : door'[c] = Committed(r, ~r.closing)
<1>0. WorldTypes /\ TickTypes
  BY SplitTableInv
<1>1. door \in [Doors -> DoorRecords]
  BY <1>0 DEF WorldTypes
<1>2. ASSUME NEW d \in Doors, CloseDoorObject(d) \/ OpenDoorObject(d)
      PROVE  door'[c] = door[c] \/ door'[c].moving
  <2>1. CASE ScheduleDoor(d)
    BY <1>1, <2>1, RecordTypes DEF ScheduleDoor
  <2>2. CASE door[d].moving /\ ReverseDoor(d)
    <3>1. door[d].owner \in BOOLEAN
      BY <1>1 DEF DoorRecords
    <3>2. QED
      BY <1>1, <2>2, <3>1, RecordTypes DEF ReverseDoor, Reversed
  <2>3. QED
    BY <1>2, <2>1, <2>2 DEF CloseDoorObject, OpenDoorObject
<1>3. ASSUME NEW d \in Doors, ToggleDoorObject(d)
      PROVE  door'[c] = door[c] \/ door'[c].moving
  BY <1>2, <1>3 DEF ToggleDoorObject
<1>4. ASSUME Visit, cursor # 0
      PROVE  \/ door'[c] = door[c]
             \/ door'[c].moving
             \/ \E r \in DoorRecords : door'[c] = Committed(r, ~r.closing)
  <2>1. Current \in Doors => door[Current].moving /\ door[Current] \in DoorRecords
    BY <1>1, <1>4, CurrentEntry, SureObjects DEF Animated
  <2>2. elapsed \in Int
    BY <1>4, CurrentEntry
  <2>3. CASE VisitForever \/ VisitEffectWaiting \/ VisitEffectDue
    BY <2>3 DEF VisitForever, VisitEffectWaiting, VisitEffectDue, world
  <2>4. ASSUME NEW b \in BOOLEAN, VisitDoorWaiting(b)
        PROVE  door'[c] = door[c] \/ door'[c].moving
    BY <1>1, <2>1, <2>2, <2>4, StepTypes DEF VisitDoorWaiting
  <2>5. ASSUME NEW b \in BOOLEAN, Current \in Doors
        PROVE  /\ LastStep(Current, b) \in DoorRecords
               /\ LastStep(Current, b).moving
    BY <2>1, <2>5, StepTypes DEF LastStep
  <2>6. ASSUME NEW b \in BOOLEAN, VisitDoorDueBlocked(b)
        PROVE  door'[c] = door[c] \/ door'[c].moving
    <3>1. /\ Current \in Doors
          /\ door' = [door EXCEPT ![Current] =
                        Turned([LastStep(Current, b) EXCEPT !.owner = FALSE])]
      BY <2>6 DEF VisitDoorDueBlocked
    <3>2. Turned([LastStep(Current, b) EXCEPT !.owner = FALSE]).moving
      BY <2>5, <3>1, RecordTypes
    <3>3. QED
      BY <1>1, <3>1, <3>2
  <2>7. ASSUME NEW b \in BOOLEAN, VisitDoorDue(b)
        PROVE  door'[c] = door[c] \/ \E r \in DoorRecords : door'[c] = Committed(r, ~r.closing)
    <3>1. /\ Current \in Doors
          /\ door' = [door EXCEPT ![Current] =
                        Committed(LastStep(Current, b), ~LastStep(Current, b).closing)]
      BY <2>7 DEF VisitDoorDue
    <3>2. QED
      BY <1>1, <2>5, <3>1
  <2>8. QED
    BY <1>4, <2>3, <2>4, <2>6, <2>7 DEF Visit
<1>5. ASSUME NEW o \in Effects, NEW d \in EffectDelays,
             SpawnScheduledEffectObject(o, d) \/ ScheduleEffectInPlace(o, d)
      PROVE  door' = door
  BY <1>5 DEF SpawnScheduledEffectObject, ScheduleEffectInPlace
<1>6. ASSUME NEW old \in Effects, NEW new \in Effects, ReallocateEffect(old, new)
      PROVE  door' = door
  BY <1>6 DEF ReallocateEffect
<1>7. ASSUME NEW o \in Effects, DiscardEffect(o) \/ CollectEffect(o)
      PROVE  door' = door
  BY <1>7 DEF DiscardEffect, CollectEffect
<1>8. SaveAndLoad \/ (\E e \in Elapsed : BeginTick(e)) \/ UNCHANGED vars => door' = door
  BY DEF SaveAndLoad, BeginTick, world, vars
<1>9. Visit => cursor # 0
  BY DEF Visit, VisitForever, VisitEffectWaiting, VisitEffectDue, VisitDoorWaiting,
         VisitDoorDueBlocked, VisitDoorDue
<1>10. QED
  BY <1>2, <1>3, <1>4, <1>5, <1>6, <1>7, <1>8, <1>9 DEF Next

\* A door at rest is set to swing the other way, for steps of one tick and of four,
\* with or without the catch-up step (scheduler_finish_entry).
THEOREM RestingDoorsAreTurned == Spec => []RestingDoorsTurned
<1>1. Init => RestingDoorsTurned
  BY DEF Init, Resting, RestingDoorsTurned
<1>2. ASSUME TableInv, RestingDoorsTurned, [Next]_vars
      PROVE  RestingDoorsTurned'
  <2>1. ASSUME NEW c \in Doors, ~door'[c].moving
        PROVE  door'[c].closing = door'[c].open
    <3>1. CASE door'[c] = door[c]
      BY <1>2, <2>1, <3>1 DEF RestingDoorsTurned
    <3>2. ASSUME NEW r \in DoorRecords, door'[c] = Committed(r, ~r.closing)
          PROVE  door'[c].closing = door'[c].open
      BY <3>2 DEF Committed, Turned, DoorRecords
    <3>3. QED
      BY <1>2, <2>1, <3>1, <3>2, DoorStep
  <2>2. QED
    BY <2>1 DEF RestingDoorsTurned
<1>3. TableInv /\ RestingDoorsTurned /\ [Next]_vars => RestingDoorsTurned'
  BY <1>2
<1>4. QED
  BY <1>1, <1>3, TableInvariant, PTL DEF Spec

----------------------------------------------------------------------------
(* The frames of the doors, with steps of one tick.                        *)

\* The frame of a record that has x ticks of a swing of time t left.
InStep(r, t, x) == (r.closing => r.f = x) /\ (~r.closing => r.f = t - x)

\* What the 4-bit counter gives the record.
LEMMA CounterValues ==
  ASSUME NEW r \in DoorRecords, NEW c \in Int
  PROVE  /\ WithCounter(r, c).f = c % 8
         /\ c % 16 >= 8 => WithCounter(r, c).closing = TRUE
         /\ ~(c % 16 >= 8) => WithCounter(r, c).closing = FALSE
<1>1. ASSUME NEW h \in BOOLEAN, NEW g
      PROVE  /\ [r EXCEPT !.closing = h, !.f = g].f = g
             /\ [r EXCEPT !.closing = h, !.f = g].closing = h
  BY DEF DoorRecords
<1>2. CASE c % 16 >= 8
  <2>1. ((c % 16) >= 8) = TRUE
    BY <1>2
  <2>2. WithCounter(r, c) = [r EXCEPT !.closing = TRUE, !.f = c % 8]
    BY <2>1, Zenon DEF WithCounter
  <2>3. QED
    BY <1>1, <1>2, <2>2
<1>3. CASE ~(c % 16 >= 8)
  <2>1. ((c % 16) >= 8) = FALSE
    BY <1>3
  <2>2. WithCounter(r, c) = [r EXCEPT !.closing = FALSE, !.f = c % 8]
    BY <2>1, Zenon DEF WithCounter
  <2>3. QED
    BY <1>1, <1>3, <2>2
<1>4. QED
  BY <1>2, <1>3

\* The two cases of the definition.
LEMMA InStepByDirection ==
  ASSUME NEW r, NEW t, NEW x
  PROVE  /\ r.closing = TRUE /\ r.f = x => InStep(r, t, x)
         /\ r.closing = FALSE /\ r.f = t - x => InStep(r, t, x)
BY Zenon DEF InStep

\* A step of one tick changes the frame by one and keeps the direction; a door that
\* finds its way blocked was closing, and opens from the frame it had reached.
LEMMA StepOfOne ==
  ASSUME NEW r \in DoorRecords, NEW t \in {4, 5}, NEW x \in 1 .. t, InStep(r, t, x)
  PROVE  /\ Stepped(r, 1, FALSE).closing = r.closing
         /\ InStep(Stepped(r, 1, FALSE), t, x - 1)
         /\ TestsClearance(r, 1) => r.closing
         /\ TestsClearance(r, 1) => InStep(Stepped(r, 1, TRUE), t, t - x + 1)
<1>1. r.f \in 0 .. 5 /\ x \in 1 .. 5 /\ r.closing \in BOOLEAN
  BY DEF InStep, DoorRecords
<1>0. Stepped(r, 1, FALSE) = Swung(r, 1) /\ Swung(r, 1) \in DoorRecords
  <2>1. Stepped(r, 1, FALSE) = Swung(r, 1)
    BY Zenon DEF Stepped
  <2>2. Stepped(r, 1, FALSE) \in DoorRecords
    BY StepTypes, 1 \in Int, FALSE \in BOOLEAN, Zenon
  <2>3. QED
    BY <2>1, <2>2
<1>2. CASE r.closing = TRUE
  <2>1. r.f = x
    BY <1>2 DEF InStep
  <2>2. Swung(r, 1).closing = TRUE /\ Swung(r, 1).f = x - 1
    <3>1. (8 + x - 1) % 8 = x - 1 /\ (8 + x - 1) % 16 >= 8 /\ 8 + x - 1 \in Int
      BY <1>1
    <3>2. Swung(r, 1) = WithCounter(r, 8 + x - 1)
      BY <1>2, <2>1 DEF Swung
    <3>3. QED
      BY <3>1, <3>2, CounterValues
  <2>3. Stepped(r, 1, TRUE).closing = FALSE /\ Stepped(r, 1, TRUE).f = x - 1
    <3>1. /\ (x - 1) % 8 = x - 1 /\ ~((x - 1) % 16 >= 8)
          /\ x - 1 - (-1 + 1) = x - 1 /\ x - 1 \in Int
      BY <1>1
    <3>2. Stepped(r, 1, TRUE) = WithCounter(Swung(r, 1), x - 1)
      BY <1>2, <2>2, <3>1 DEF Stepped, Rebound
    <3>3. QED
      BY <1>0, <3>1, <3>2, CounterValues
  <2>4. InStep(Stepped(r, 1, FALSE), t, x - 1)
    BY <1>0, <2>2, InStepByDirection, Zenon
  <2>5. InStep(Stepped(r, 1, TRUE), t, t - x + 1)
    <3>1. x - 1 = t - (t - x + 1)
      BY <1>1
    <3>2. QED
      BY <2>3, <3>1, InStepByDirection, Zenon
  <2>6. QED
    BY <1>0, <1>2, <2>2, <2>4, <2>5, Zenon
<1>3. CASE r.closing = FALSE
  <2>1. r.f = t - x
    BY <1>3 DEF InStep
  <2>2. Swung(r, 1).closing = FALSE /\ Swung(r, 1).f = t - x + 1
    <3>1. (t - x + 1) % 8 = t - x + 1 /\ ~((t - x + 1) % 16 >= 8) /\ t - x + 1 \in Int
      BY <1>1, <2>1
    <3>2. Swung(r, 1) = WithCounter(r, t - x + 1)
      BY <1>3, <2>1 DEF Swung
    <3>3. QED
      BY <3>1, <3>2, CounterValues
  <2>3. ~TestsClearance(r, 1)
    BY <2>2 DEF TestsClearance
  <2>4. InStep(Stepped(r, 1, FALSE), t, x - 1)
    <3>1. t - x + 1 = t - (x - 1)
      BY <1>1
    <3>2. QED
      BY <1>0, <2>2, <3>1, InStepByDirection, Zenon
  <2>5. QED
    BY <1>0, <1>3, <2>2, <2>3, <2>4, Zenon
<1>4. QED
  BY <1>1, <1>2, <1>3

\* The entries of doors after an operation are entries of before, links and delays.
EntriesCarried ==
  \A i \in 1 .. count' : link'[i] \in Doors =>
    \E j \in 1 .. count : link'[i] = link[j] /\ delay'[i] = delay[j]

\* Whatever does not add a door carries the entries of doors along.
LEMMA OperationsCarry ==
  ASSUME TableSound, DelayTypes
  PROVE  /\ UNCHANGED table => EntriesCarried
         /\ \A k \in Entries : RemoveAt(k) => EntriesCarried
         /\ \A o : SchedulerRemoveEntry(o) => EntriesCarried
         /\ \A o \in Effects : \A d : AddEntry(o, d) => EntriesCarried
         /\ \A old, new \in Effects : SchedulerRelinkEntry(new, old) => EntriesCarried
         /\ SchedulerSaveAndLoad => EntriesCarried
<1> USE SchedulerAssumption DEF TableSound, TableTypes, Entries
<1>1. UNCHANGED table => EntriesCarried
  BY DEF EntriesCarried, table
<1>2. ASSUME NEW k \in Entries, RemoveAt(k) PROVE EntriesCarried
  <2>1. ASSUME NEW i \in 1 .. count'
        PROVE  /\ link'[i] = link[IF i = k THEN count ELSE i]
               /\ delay'[i] = delay[IF i = k THEN count ELSE i]
               /\ (IF i = k THEN count ELSE i) \in 1 .. count
    BY <1>2, <2>1 DEF RemoveAt
  <2>2. QED
    BY <2>1 DEF EntriesCarried
<1>3. ASSUME NEW o, SchedulerRemoveEntry(o) PROVE EntriesCarried
  BY <1>1, <1>2, <1>3 DEF SchedulerRemoveEntry
<1>4. ASSUME NEW o \in Effects, NEW d, AddEntry(o, d) PROVE EntriesCarried
  <2>1. count' = count + 1 /\ count + 1 \in 1 .. MaxEntries
    BY <1>4 DEF AddEntry, Full
  <2>2. link'[count + 1] = o /\ o \notin Doors
    BY <1>4, <2>1 DEF AddEntry
  <2>3. \A i \in 1 .. count : link'[i] = link[i] /\ delay'[i] = delay[i]
    BY <1>4, <2>1 DEF AddEntry
  <2>4. \A i \in 1 .. count' : i = count + 1 \/ i \in 1 .. count
    BY <2>1
  <2>5. QED
    BY <2>2, <2>3, <2>4 DEF EntriesCarried
<1>5. ASSUME NEW old \in Effects, NEW new \in Effects, SchedulerRelinkEntry(new, old)
      PROVE  EntriesCarried
  <2>1. ASSUME NEW k \in Entries,
               link' = [link EXCEPT ![k] = new] /\ UNCHANGED <<delay, count>>
        PROVE  EntriesCarried
    <3>1. /\ link'[k] = new /\ new \notin Doors
          /\ \A i \in 1 .. count : i # k => link'[i] = link[i]
      BY <2>1
    <3>2. QED
      BY <2>1, <3>1 DEF EntriesCarried
  <2>2. QED
    BY <1>1, <1>5, <2>1 DEF SchedulerRelinkEntry
<1>6. ASSUME SchedulerSaveAndLoad PROVE EntriesCarried
  <2>1. count' = count /\ link' = Saved /\ delay' = delay
    BY <1>6, LoadKeeps DEF SchedulerSaveAndLoad
  <2>2. \A i \in 1 .. count : Saved[i] = link[i]
    BY DEF Saved
  <2>3. QED
    BY <2>1, <2>2 DEF EntriesCarried
<1>7. QED
  BY <1>1, <1>2, <1>3, <1>4, <1>5, <1>6

\* The inductive invariant of the frames: with steps of one tick no catch-up step is
\* taken, so that no flag is left up.
SwingInv == TableInv /\ RestingDoorsTurned /\ SwingInStep /\ ~rearmed

\* The frames by the parts the steps disturb.
FramesOfEntries ==
  \A i \in Entries : link[i] \in Doors => InStep(door[link[i]], SwingTime[link[i]], delay[i])
FramesAtRest ==
  \A d \in Doors : ~door[d].moving => door[d].f = IF door[d].open THEN SwingTime[d] ELSE 0

\* The same parts of the next state.
LEMMA SplitSwingInStep ==
  /\ SwingInStep <=> FramesOfEntries /\ FramesAtRest
  /\ SwingInStep' <=> FramesOfEntries' /\ FramesAtRest'
BY DEF SwingInStep, FramesOfEntries, FramesAtRest, InStep

\* A step that leaves the doors alone and carries their entries along.
LEMMA CarriedKeeps ==
  ASSUME SwingInv, UNCHANGED door, EntriesCarried
  PROVE  SwingInStep'
<1>1. FramesOfEntries'
  BY SplitSwingInStep DEF SwingInv, FramesOfEntries, EntriesCarried, Entries
<1>2. FramesAtRest'
  BY SplitSwingInStep DEF SwingInv, FramesAtRest
<1>3. QED
  BY <1>1, <1>2, SplitSwingInStep

\* Commands: a door at rest starts from the end it rests at, a moving one gets the
\* time it has already taken.
LEMMA CommandKeepsFrames ==
  ASSUME SwingInv, NEW d \in Doors, CloseDoorObject(d) \/ OpenDoorObject(d)
  PROVE  SwingInStep'
<1>0. /\ TableSound /\ DelayTypes /\ WorldTypes /\ TickTypes /\ Owned
      /\ FramesOfEntries /\ FramesAtRest
  BY SplitTableInv, SplitSwingInStep DEF SwingInv
<1>1. /\ door \in [Doors -> DoorRecords] /\ SwingTime[d] \in {4, 5}
      /\ door[d] \in DoorRecords
  BY <1>0, SchedulerAssumption DEF WorldTypes
<1>2. CASE ~door[d].moving /\ ScheduleDoor(d)
  <2>1. /\ door' = [door EXCEPT ![d] = SetMoving(door[d])]
        /\ door'[d] = SetMoving(door[d]) /\ \A c \in Doors : c # d => door'[c] = door[c]
    BY <1>1, <1>2 DEF ScheduleDoor
  <2>2. SetMoving(door[d]).moving /\ InStep(SetMoving(door[d]), SwingTime[d], SwingTime[d])
    <3>1. /\ door[d].closing = door[d].open
          /\ door[d].f = IF door[d].open THEN SwingTime[d] ELSE 0
      BY <1>0, <1>2 DEF SwingInv, RestingDoorsTurned, FramesAtRest
    <3>2. QED
      BY <1>1, <3>1 DEF SetMoving, InStep, DoorRecords
  <2>3. FramesAtRest'
    BY <1>0, <2>1, <2>2 DEF FramesAtRest
  <2>4. \A i \in Entries : link[i] # d
    BY <1>0, <1>2, SureObjects DEF Owned, HasEntry, Animated
  <2>5. CASE Full
    <3>1. UNCHANGED table
      BY <1>2, <2>5 DEF ScheduleDoor
    <3>2. FramesOfEntries'
      BY <1>0, <2>1, <2>4, <3>1 DEF FramesOfEntries, Entries, table
    <3>3. QED
      BY <2>3, <3>2, SplitSwingInStep
  <2>6. CASE ~Full
    <3>1. AddEntry(d, SwingTime[d])
      BY <1>2, <2>6 DEF ScheduleDoor
    <3>2. count' = count + 1 /\ count + 1 \in 1 .. MaxEntries
      BY <1>0, <3>1, SchedulerAssumption DEF AddEntry, Full, TableSound, TableTypes
    <3>3. /\ link'[count + 1] = d /\ delay'[count + 1] = SwingTime[d]
          /\ \A i \in 1 .. count : link'[i] = link[i] /\ delay'[i] = delay[i]
      BY <1>0, <3>1, <3>2, SchedulerAssumption DEF AddEntry, TableSound, TableTypes
    <3>4. \A i \in 1 .. count' : i = count + 1 \/ i \in 1 .. count
      BY <1>0, <3>2, SchedulerAssumption DEF TableSound, TableTypes
    <3>5. FramesOfEntries'
      BY <1>0, <2>1, <2>2, <2>4, <3>3, <3>4 DEF FramesOfEntries, Entries
    <3>6. QED
      BY <2>3, <3>5, SplitSwingInStep
  <2>7. QED
    BY <2>5, <2>6
<1>3. CASE door[d].moving /\ ReverseDoor(d)
  <2>1. /\ door' = [door EXCEPT ![d] = Reversed(door[d])]
        /\ door'[d] = Reversed(door[d]) /\ \A c \in Doors : c # d => door'[c] = door[c]
        /\ UNCHANGED <<link, count>>
    BY <1>1, <1>3 DEF ReverseDoor
  <2>2. ASSUME NEW i \in Entries
        PROVE  delay'[i] = IF IsEntryOf(i, d) /\ delay[i] >= 0
                           THEN SwingTime[d] - delay[i] ELSE delay[i]
    <3>1. i \in DOMAIN delay
      BY <1>0, SchedulerAssumption DEF TableSound, TableTypes, Entries
    <3>2. QED
      BY <1>3, <3>1 DEF ReverseDoor
  <2>3. ASSUME NEW i \in Entries, link[i] = d
        PROVE  InStep(Reversed(door[d]), SwingTime[d], delay'[i])
    <3>1. \A j \in 1 .. i - 1 : link[j] # d
      BY <1>0, <2>3, SureObjects, SchedulerAssumption
         DEF TableSound, TableTypes, SureDistinct, Entries
    <3>2. delay[i] \in 0 .. SwingTime[d] /\ InStep(door[d], SwingTime[d], delay[i])
      BY <1>0, <2>3 DEF DelayTypes, FramesOfEntries
    <3>3. delay'[i] = SwingTime[d] - delay[i]
      BY <2>2, <2>3, <3>1, <3>2 DEF IsEntryOf
    <3>4. /\ Reversed(door[d]).f = door[d].f
          /\ Reversed(door[d]).closing <=> ~door[d].closing
      BY <1>1 DEF Reversed, Turned, DoorRecords
    <3>5. QED
      BY <1>1, <3>2, <3>3, <3>4 DEF InStep
  <2>4. ASSUME NEW i \in Entries, link[i] # d
        PROVE  delay'[i] = delay[i]
    BY <2>2, <2>4 DEF IsEntryOf
  <2>5. FramesOfEntries'
    BY <1>0, <2>1, <2>3, <2>4 DEF FramesOfEntries, Entries
  <2>6. Reversed(door[d]).moving
    BY <1>1, <1>3 DEF Reversed, Turned, DoorRecords
  <2>7. FramesAtRest'
    BY <1>0, <2>1, <2>6 DEF FramesAtRest
  <2>8. QED
    BY <2>5, <2>7, SplitSwingInStep
<1>4. QED
  BY <1>2, <1>3 DEF CloseDoorObject, OpenDoorObject

\* The passes over doors.
LEMMA DoorVisitKeepsFrames ==
  ASSUME SwingInv, Elapsed \subseteq {1}, NEW b \in BOOLEAN,
         VisitDoorWaiting(b) \/ VisitDoorDueBlocked(b) \/ VisitDoorDue(b)
  PROVE  SwingInStep' /\ ~rearmed'
<1> DEFINE d == Current
<1>0. /\ TableSound /\ DelayTypes /\ WorldTypes /\ TickTypes /\ Owned
      /\ FramesOfEntries /\ FramesAtRest
  BY SplitTableInv, SplitSwingInStep DEF SwingInv
<1>1. d \in Doors /\ cursor # 0
  BY DEF VisitDoorWaiting, VisitDoorDueBlocked, VisitDoorDue
<1>2. /\ cursor \in Entries /\ elapsed = 1 /\ link[cursor] = d /\ delay[cursor] = Left
      /\ Left \in 0 .. SwingTime[d] /\ SwingTime[d] \in {4, 5}
      /\ door[d].moving /\ door[d] \in DoorRecords
      /\ \A i \in Entries : link[i] = d => i = cursor
  <2>1. elapsed = 1
    BY <1>0, <1>1 DEF TickTypes
  <2>2. d \in Sure /\ door \in [Doors -> DoorRecords]
    BY <1>0, <1>1, SureObjects DEF WorldTypes
  <2>3. door[d].moving
    BY <1>1, <2>2, CurrentEntry DEF SwingInv, Animated
  <2>4. QED
    BY <1>1, <2>1, <2>2, <2>3, CurrentEntry, SchedulerAssumption DEF SwingInv, Current, Left
<1>3. InStep(door[d], SwingTime[d], Left)
  BY <1>0, <1>1, <1>2 DEF FramesOfEntries
<1>4. door \in [Doors -> DoorRecords] /\ cursor \in DOMAIN delay /\ Entries \subseteq DOMAIN delay
  BY <1>0, <1>2, SchedulerAssumption DEF WorldTypes, TableSound, TableTypes, Entries
<1> HIDE DEF d
<1>5. ASSUME NEW r, NEW x, door' = [door EXCEPT ![d] = r], r.moving,
             InStep(r, SwingTime[d], x), delay' = [delay EXCEPT ![cursor] = x],
             UNCHANGED <<link, count>>
      PROVE  SwingInStep'
  <2>1. door'[d] = r /\ \A c \in Doors : c # d => door'[c] = door[c]
    BY <1>1, <1>4, <1>5
  <2>2. delay'[cursor] = x /\ \A i \in Entries : i # cursor => delay'[i] = delay[i]
    BY <1>4, <1>5
  <2>3. FramesOfEntries'
    BY <1>0, <1>2, <1>5, <2>1, <2>2 DEF FramesOfEntries, Entries
  <2>4. FramesAtRest'
    BY <1>0, <1>5, <2>1 DEF FramesAtRest
  <2>5. QED
    BY <2>3, <2>4, SplitSwingInStep
<1>6. CASE VisitDoorWaiting(b)
  <2>1. /\ Left \in 1 .. SwingTime[d] /\ UNCHANGED <<link, count>>
        /\ door' = [door EXCEPT ![d] = Stepped(door[d], 1, b)]
        /\ delay' = [delay EXCEPT ![cursor] = IF b THEN ReboundDelay(d, Left) ELSE Left - 1]
        /\ b => TestsClearance(door[d], 1)
        /\ rearmed' = FALSE
    BY <1>2, <1>6 DEF VisitDoorWaiting, Waiting, SwingInv, d
  <2>2. Stepped(door[d], 1, b).moving
    BY <1>2, StepTypes
  <2>3. CASE b = TRUE
    <3>1. InStep(Stepped(door[d], 1, b), SwingTime[d], ReboundDelay(d, Left))
      BY <1>2, <1>3, <2>1, <2>3, StepOfOne DEF ReboundDelay
    <3>2. QED
      BY <1>5, <2>1, <2>2, <2>3, <3>1
  <2>4. CASE b = FALSE
    <3>1. InStep(Stepped(door[d], 1, b), SwingTime[d], Left - 1)
      BY <1>2, <1>3, <2>1, <2>4, StepOfOne
    <3>2. QED
      BY <1>5, <2>1, <2>2, <2>4, <3>1
  <2>5. QED
    BY <2>3, <2>4
<1>7. ASSUME VisitDoorDueBlocked(b) \/ VisitDoorDue(b)
      PROVE  b = FALSE /\ Left = 0 /\ LastStep(d, b) = door[d] /\ rearmed' = FALSE
  <2>1. Left = 0
    BY <1>2, <1>7 DEF VisitDoorDueBlocked, VisitDoorDue, Due
  <2>2. ~CatchesUp
    BY <2>1 DEF CatchesUp
  <2>3. b = FALSE /\ rearmed' = (rearmed \/ b)
    BY <1>7, <2>2 DEF VisitDoorDueBlocked, VisitDoorDue
  <2>4. QED
    BY <2>1, <2>2, <2>3 DEF LastStep, SwingInv
<1>8. CASE VisitDoorDueBlocked(b)
  <2>1. /\ door' = [door EXCEPT ![d] = Turned([LastStep(d, b) EXCEPT !.owner = FALSE])]
        /\ delay' = [delay EXCEPT ![cursor] = SwingTime[d] - LastLeft(d, b)]
        /\ LastStep(d, b).closing /\ UNCHANGED <<link, count>>
    BY <1>8 DEF VisitDoorDueBlocked, d
  <2>2. LastLeft(d, b) = 0 /\ SwingTime[d] - 0 = SwingTime[d] /\ door[d].closing
    <3>1. b = FALSE /\ Left = 0 /\ LastStep(d, b) = door[d]
      BY <1>7, <1>8
    <3>2. QED
      BY <1>2, <2>1, <3>1 DEF LastLeft
  <2>3. /\ Turned([door[d] EXCEPT !.owner = FALSE]).moving
        /\ Turned([door[d] EXCEPT !.owner = FALSE]).f = door[d].f
        /\ ~Turned([door[d] EXCEPT !.owner = FALSE]).closing
    BY <1>2, <2>2 DEF Turned, DoorRecords
  <2>4. door[d].f = 0
    BY <1>3, <1>7, <1>8, <2>2 DEF InStep
  <2>5. InStep(Turned([door[d] EXCEPT !.owner = FALSE]), SwingTime[d], SwingTime[d])
    BY <1>2, <2>3, <2>4 DEF InStep
  <2>6. SwingInStep'
    BY <1>5, <1>7, <1>8, <2>1, <2>2, <2>3, <2>5
  <2>7. QED
    BY <1>7, <1>8, <2>6
<1>9. CASE VisitDoorDue(b)
  <2>1. /\ door' = [door EXCEPT ![d] = Committed(door[d], ~door[d].closing)]
        /\ RemoveAt(cursor)
    BY <1>7, <1>9 DEF VisitDoorDue, d
  <2>2. /\ Committed(door[d], ~door[d].closing).open = ~door[d].closing
        /\ Committed(door[d], ~door[d].closing).f = door[d].f
    BY <1>2 DEF Committed, Turned, DoorRecords
  <2>3. door[d].f = IF ~door[d].closing THEN SwingTime[d] ELSE 0
    BY <1>2, <1>3, <1>7, <1>9 DEF InStep
  <2>4. door'[d].open = ~door[d].closing /\ door'[d].f = door[d].f
    BY <1>1, <1>4, <2>1, <2>2
  <2>5. \A c \in Doors : c # d => door'[c] = door[c]
    BY <1>4, <2>1
  <2>6. FramesAtRest'
    BY <1>0, <2>3, <2>4, <2>5 DEF FramesAtRest
  <2>7. \A i \in 1 .. count' : link'[i] # d \/ link'[i] \notin Doors
    <3>1. d \in Sure /\ d = link[cursor]
      BY <1>1, <1>2, SureObjects
    <3>2. d \in Objects /\ cursor \in Entries /\ RemoveAt(cursor)
      BY <1>2, <2>1, <3>1, SureObjects
    <3>3. \A p \in Sure : HasEntry(p)' <=> HasEntry(p) /\ p # link[cursor]
      BY <1>0, <3>2, RemoveKeeps
    <3>4. ~(\E i \in 1 .. count' : link'[i] = d)
      BY <3>1, <3>3 DEF HasEntry, Entries
    <3>5. QED
      BY <3>4
  <2>8. EntriesCarried
    BY <1>0, <1>2, <2>1, OperationsCarry
  <2>9. FramesOfEntries'
    BY <1>0, <2>5, <2>7, <2>8 DEF FramesOfEntries, EntriesCarried, Entries
  <2>10. QED
    BY <1>7, <1>9, <2>6, <2>9, SplitSwingInStep
<1>10. QED
  BY <1>6, <1>8, <1>9

\* Every step keeps the frames.
LEMMA NextSwingInv ==
  ASSUME SwingInv, Elapsed \subseteq {1}, [Next]_vars
  PROVE  SwingInStep' /\ ~rearmed'
<1>0. /\ TableInv /\ TableSound /\ DelayTypes /\ WorldTypes /\ TickTypes
  BY SplitTableInv DEF SwingInv
<1>1. ASSUME NEW d \in Doors, CloseDoorObject(d) \/ OpenDoorObject(d)
      PROVE  SwingInStep' /\ ~rearmed'
  BY <1>1, CommandKeepsFrames
     DEF CloseDoorObject, OpenDoorObject, ScheduleDoor, ReverseDoor, SwingInv
<1>2. ASSUME NEW d \in Doors, ToggleDoorObject(d) PROVE SwingInStep' /\ ~rearmed'
  BY <1>1, <1>2 DEF ToggleDoorObject
<1>3. ASSUME NEW o \in Effects, NEW d \in EffectDelays,
             SpawnScheduledEffectObject(o, d) \/ ScheduleEffectInPlace(o, d)
      PROVE  SwingInStep' /\ ~rearmed'
  <2>1. /\ UNCHANGED door /\ rearmed' = rearmed
        /\ UNCHANGED table \/ AddEntry(o, d)
    BY <1>3 DEF SpawnScheduledEffectObject, ScheduleEffectInPlace
  <2>2. QED
    BY <1>0, <2>1, OperationsCarry, CarriedKeeps DEF SwingInv
<1>4. ASSUME NEW old \in Effects, NEW new \in Effects, ReallocateEffect(old, new)
      PROVE  SwingInStep' /\ ~rearmed'
  BY <1>0, <1>4, OperationsCarry, CarriedKeeps DEF ReallocateEffect, SwingInv
<1>5. ASSUME NEW o \in Effects, DiscardEffect(o) PROVE SwingInStep' /\ ~rearmed'
  BY <1>0, <1>5, OperationsCarry, CarriedKeeps DEF DiscardEffect, SwingInv
<1>6. ASSUME NEW o \in Effects, CollectEffect(o) PROVE SwingInStep' /\ ~rearmed'
  BY <1>0, <1>6, OperationsCarry, CarriedKeeps DEF CollectEffect, SwingInv
<1>7. CASE SaveAndLoad
  BY <1>0, <1>7, OperationsCarry, CarriedKeeps DEF SaveAndLoad, SwingInv, world
<1>8. CASE (\E e \in Elapsed : BeginTick(e)) \/ UNCHANGED vars
  <2>1. UNCHANGED table /\ UNCHANGED door /\ rearmed' = rearmed
    BY <1>8 DEF BeginTick, vars, world
  <2>2. QED
    BY <1>0, <2>1, OperationsCarry, CarriedKeeps DEF SwingInv
<1>9. CASE VisitForever
  <2>1. UNCHANGED table /\ UNCHANGED door /\ rearmed' = rearmed
    BY <1>9 DEF VisitForever, world
  <2>2. QED
    BY <1>0, <2>1, OperationsCarry, CarriedKeeps DEF SwingInv
<1>10. CASE VisitEffectWaiting
  <2>1. /\ UNCHANGED door /\ UNCHANGED <<link, count>> /\ rearmed' = FALSE
        /\ delay' = [delay EXCEPT ![cursor] = @ - elapsed] /\ Current \notin Doors
    BY <1>10 DEF VisitEffectWaiting, world, SwingInv
  <2>2. \A i \in 1 .. count : link[i] \in Doors => i \in DOMAIN delay /\ i # cursor
    BY <1>0, <2>1, SchedulerAssumption DEF TableSound, TableTypes, Current
  <2>3. EntriesCarried
    BY <2>1, <2>2 DEF EntriesCarried
  <2>4. QED
    BY <2>1, <2>3, CarriedKeeps
<1>11. CASE VisitEffectDue
  <2>1. cursor \in Entries
    BY <1>0, <1>11, CurrentEntry DEF VisitEffectDue
  <2>2. QED
    BY <1>0, <1>11, <2>1, OperationsCarry, CarriedKeeps DEF VisitEffectDue, SwingInv
<1>12. CASE Visit
  BY <1>9, <1>10, <1>11, <1>12, DoorVisitKeepsFrames DEF Visit
<1>13. QED
  BY <1>1, <1>2, <1>3, <1>4, <1>5, <1>6, <1>7, <1>8, <1>12 DEF Next

\* The invariant of the frames holds in every state, with steps of one tick.
LEMMA SwingInvariant ==
  ASSUME Elapsed \subseteq {1}
  PROVE  Spec => [](TableInv /\ SwingInv)
<1>1. ASSUME Init PROVE RestingDoorsTurned /\ SwingInStep /\ ~rearmed
  <2>1. FramesOfEntries
    BY <1>1 DEF Init, EmptyTable, FramesOfEntries, Entries
  <2>2. FramesAtRest /\ RestingDoorsTurned
    BY <1>1 DEF Init, Resting, FramesAtRest, RestingDoorsTurned
  <2>3. ~rearmed
    BY <1>1 DEF Init
  <2>4. QED
    BY <2>1, <2>2, <2>3, SplitSwingInStep
<1>2. Init => SwingInv
  BY <1>1, InitTableInv DEF SwingInv
<1>3. SwingInv /\ [Next]_vars /\ TableInv' /\ RestingDoorsTurned' => SwingInv'
  BY NextSwingInv DEF SwingInv
<1>4. QED
  BY <1>2, <1>3, TableInvariant, RestingDoorsAreTurned, PTL DEF Spec

\* With steps of one tick the frame of every swing agrees with the time it has left,
\* whatever commands, obstacles, loads and removals come in between: every swing ends
\* on its last frame (scheduler_step_entry, adjust_door_close_animation_delay).
THEOREM SwingsAreInStep ==
  ASSUME Elapsed \subseteq {1}
  PROVE  Spec => []SwingInStep
<1>1. SwingInv => SwingInStep
  BY DEF SwingInv
<1>2. QED
  BY <1>1, SwingInvariant, PTL

\* With steps of one tick a door turns round in a tick only when its way is blocked
\* (scheduler_advance_effect, scheduler_finish_entry).
THEOREM DoorsReverseOnlyWhenBlocked ==
  ASSUME Elapsed \subseteq {1}
  PROVE  Spec => ReversesOnlyWhenBlocked
<1>1. ASSUME SwingInv, [Next]_vars, NEW c \in Doors, cursor # 0,
             door[c].moving, door'[c].moving, door'[c].closing # door[c].closing
      PROVE  Blocked
  <2>0. /\ TableInv /\ TableSound /\ DelayTypes /\ WorldTypes /\ TickTypes
        /\ FramesOfEntries
    BY <1>1, SplitTableInv, SplitSwingInStep DEF SwingInv
  <2>1. door \in [Doors -> DoorRecords] /\ door' # door
    BY <1>1, <2>0 DEF WorldTypes
  <2>2. Visit
    BY <1>1, <2>1
       DEF Next, CloseDoorObject, OpenDoorObject, ToggleDoorObject, ReallocateEffect,
           SpawnScheduledEffectObject, ScheduleEffectInPlace, DiscardEffect, CollectEffect,
           SaveAndLoad, BeginTick, vars, world
  <2>3. PICK b \in BOOLEAN :
          VisitDoorWaiting(b) \/ VisitDoorDueBlocked(b) \/ VisitDoorDue(b)
    BY <2>1, <2>2 DEF Visit, VisitForever, VisitEffectWaiting, VisitEffectDue, world
  <2>4. CASE VisitDoorDueBlocked(b) \/ VisitDoorWaiting(TRUE)
    BY <2>4 DEF Blocked
  <2>5. CASE VisitDoorWaiting(FALSE)
    <3>1. /\ Current \in Doors /\ Waiting
          /\ door' = [door EXCEPT ![Current] = Stepped(door[Current], elapsed, FALSE)]
      BY <2>5 DEF VisitDoorWaiting
    <3>2. c = Current
      BY <1>1, <2>1, <3>1
    <3>3. /\ cursor \in Entries /\ Left \in 0 .. SwingTime[Current] /\ elapsed = 1
      BY <1>1, <2>0, <3>1, CurrentEntry DEF TickTypes
    <3>4. Left \in 1 .. SwingTime[Current] /\ SwingTime[Current] \in {4, 5}
      BY <3>1, <3>3, SchedulerAssumption DEF Waiting
    <3>5. InStep(door[Current], SwingTime[Current], Left)
      BY <2>0, <3>1, <3>3 DEF FramesOfEntries, Current, Left
    <3>6. Stepped(door[Current], 1, FALSE).closing = door[Current].closing
      BY <2>1, <3>1, <3>4, <3>5, StepOfOne
    <3>7. QED
      BY <1>1, <2>1, <3>1, <3>2, <3>3, <3>6
  <2>6. CASE VisitDoorDue(b)
    <3>1. /\ Current \in Doors
          /\ door' = [door EXCEPT ![Current] =
                        Committed(LastStep(Current, b), ~LastStep(Current, b).closing)]
      BY <2>6 DEF VisitDoorDue
    <3>2. elapsed \in Int /\ door[Current] \in DoorRecords
      BY <1>1, <2>0, <2>1, <3>1, CurrentEntry
    <3>3. LastStep(Current, b) \in DoorRecords
      BY <3>2, StepTypes DEF LastStep
    <3>4. QED
      BY <1>1, <2>1, <3>1, <3>3, CommittedAjar
  <2>7. QED
    BY <2>3, <2>4, <2>5, <2>6
<1>2. SwingInv /\ [Next]_vars
        => [\A d \in Doors :
              cursor # 0 /\ door[d].moving /\ door'[d].moving
              /\ door'[d].closing # door[d].closing => Blocked]_vars
  BY <1>1
<1>3. QED
  BY <1>2, SwingInvariant, PTL DEF Spec, ReversesOnlyWhenBlocked
=============================================================================
