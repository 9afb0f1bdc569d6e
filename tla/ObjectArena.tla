---------------------------- MODULE ObjectArena ----------------------------
(***************************************************************************)
(* The object arena of a level: which of the numbered object records are   *)
(* in use.  level.c lays the arena out, objects.c allocates and frees.     *)
(*                                                                         *)
(* Two pools of records, each with a stack of the slot numbers that are    *)
(* free: "mobile" (27-byte records, creatures and projectiles) and         *)
(* "static" (8-byte records, everything else).  The slots of live mobile   *)
(* records also stand in the active list, the array that every sweep over  *)
(* moving objects walks.  A slot is a number, as in the link words: 0 is   *)
(* the null link, 1 the player's own record, which is never allocated.     *)
(*                                                                         *)
(* When a pool is empty the allocator calls the garbage collector          *)
(* (despawn_objects_outside_radius) and tries once more.  The collector    *)
(* frees one object at a time, so its steps are steps of this module;      *)
(* which far objects it destroys is decided by dice and by the map, here   *)
(* by the environment.                                                     *)
(***************************************************************************)
EXTENDS Integers, FiniteSets

CONSTANTS
  FirstStatic,   \* 0x100 in the code: slots below it are mobile
  LastSlot,      \* 0x3ff in the code
  DespawnLimit   \* max_destroyed of the collector, by pool: 5 and 10

Pools == {"mobile", "static"}

ASSUME ArenaAssumption ==
  /\ FirstStatic \in Nat /\ FirstStatic > 2
  /\ LastSlot \in Nat /\ LastSlot >= FirstStatic
  /\ DespawnLimit \in [Pools -> Nat \ {0}]

VARIABLES
  free,       \* the stacks of free slots, by pool (arena + 0x7300, + 0x74fc)
  top,        \* entries in each stack (DAT_002046a8, DAT_0020469c)
  active,     \* the active mobile list (DAT_002046c0)
  activeLen,  \* its length (DAT_002046c8 - DAT_002046c0)
  request,    \* the pool an allocation is collecting for, or "none"
  destroyed,  \* iVar10 of the collector: trees it has destroyed
  inTree,     \* the collector is between the parts of one tree
  live        \* history: the slots handed out and not yet freed

stacks == <<free, top>>
collector == <<request, destroyed, inTree>>
vars == <<free, top, active, activeLen, request, destroyed, inTree, live>>

FirstSlot(p) == IF p = "mobile" THEN 2 ELSE FirstStatic
Capacity(p) == IF p = "mobile" THEN FirstStatic - 2 ELSE LastSlot - FirstStatic + 1
Slots(p) == FirstSlot(p) .. (FirstSlot(p) + Capacity(p) - 1)
AllSlots == 2 .. LastSlot

\* The address test object < DAT_002046c4.
PoolOf(s) == IF s < FirstStatic THEN "mobile" ELSE "static"

----------------------------------------------------------------------------
(* reset_level_object_arena: every slot is free, the highest on top.       *)
FreshFree == [p \in Pools |-> [i \in 1 .. Capacity(p) |-> FirstSlot(p) + i - 1]]
FreshTop == [p \in Pools |-> Capacity(p)]

Init ==
  /\ free = FreshFree
  /\ top = FreshTop
  /\ active = [i \in 1 .. Capacity("mobile") |-> 0]
  /\ activeLen = 0
  /\ request = "none" /\ destroyed = 0 /\ inTree = FALSE
  /\ live = {}

ResetLevelObjectArena ==
  /\ request = "none"
  /\ free' = FreshFree
  /\ top' = FreshTop
  /\ activeLen' = 0
  /\ live' = {}
  /\ UNCHANGED <<active, collector>>

----------------------------------------------------------------------------
(* The two lists.                                                          *)

\* active_mobile_list_add: append, no bound is checked.
ActiveMobileListAdd(s) ==
  /\ active' = [active EXCEPT ![activeLen + 1] = s]
  /\ activeLen' = activeLen + 1

\* The index active_mobile_list_remove stops at.
IsFirstActive(i, s) ==
  /\ i \in 1 .. activeLen
  /\ active[i] = s
  /\ \A j \in 1 .. (i - 1) : active[j] # s

\* Mutant: the list is shortened but the last entry is not moved.
RemoveDropsLast(s) ==
  \/ \E i \in 1 .. activeLen :
       /\ IsFirstActive(i, s)
       /\ activeLen' = activeLen - 1
       /\ UNCHANGED active
  \/ /\ \A i \in 1 .. activeLen : active[i] # s
     /\ UNCHANGED <<active, activeLen>>

\* active_mobile_list_remove: the last entry takes the place of the removed one.
ActiveMobileListRemove(s) ==
  \/ \E i \in 1 .. activeLen :
       /\ IsFirstActive(i, s)
       /\ activeLen' = activeLen - 1
       /\ active' = [active EXCEPT ![i] = active[activeLen]]
  \/ /\ \A i \in 1 .. activeLen : active[i] # s
     /\ UNCHANGED <<active, activeLen>>

\* The second half of alloc_object_slot: take the top of the stack.
Pop(p) ==
  LET s == free[p][top[p]] IN
  /\ top[p] > 0
  /\ top' = [top EXCEPT ![p] = @ - 1]
  /\ live' = live \cup {s}
  /\ IF p = "mobile" THEN ActiveMobileListAdd(s) ELSE UNCHANGED <<active, activeLen>>
  /\ UNCHANGED free

\* Mutant: the slot is written one entry too low.
PushTooLow(s) ==
  LET p == PoolOf(s) IN
  /\ top' = [top EXCEPT ![p] = @ + 1]
  /\ free' = [free EXCEPT ![p][top[p]] = s]
  /\ live' = live \ {s}
  /\ IF p = "mobile" THEN ActiveMobileListRemove(s) ELSE UNCHANGED <<active, activeLen>>

\* free_object_slot: push, and take a mobile slot off the active list.
\* Nothing checks that the slot is in use.
FreeObjectSlot(s) ==
  LET p == PoolOf(s) IN
  /\ top' = [top EXCEPT ![p] = @ + 1]
  /\ free' = [free EXCEPT ![p][top[p] + 1] = s]
  /\ live' = live \ {s}
  /\ IF p = "mobile" THEN ActiveMobileListRemove(s) ELSE UNCHANGED <<active, activeLen>>

----------------------------------------------------------------------------
(* alloc_object_slot                                                       *)

AllocObjectSlot(p) ==
  /\ request = "none"
  /\ Pop(p)
  /\ UNCHANGED collector

\* Mutant: the collector is called while one slot is still free.
BeginDespawnEarly(p) ==
  /\ request = "none"
  /\ top[p] <= 1
  /\ request' = p /\ destroyed' = 0 /\ inTree' = FALSE
  /\ UNCHANGED <<stacks, active, activeLen, live>>

\* The stack is empty: despawn_objects_outside_radius begins.
BeginDespawn(p) ==
  /\ request = "none"
  /\ top[p] = 0
  /\ request' = p /\ destroyed' = 0 /\ inTree' = FALSE
  /\ UNCHANGED <<stacks, active, activeLen, live>>

\* unlink_and_free_object frees what an object contains before the object, so
\* some other record, the container, is in use and will follow.
DespawnContent(s) ==
  /\ request # "none" /\ s \in live /\ live # {s}
  /\ destroyed < DespawnLimit[request]
  /\ inTree' = TRUE
  /\ FreeObjectSlot(s)
  /\ UNCHANGED <<request, destroyed>>

DespawnRoot(s) ==
  /\ request # "none" /\ s \in live
  /\ destroyed < DespawnLimit[request]
  /\ inTree' = FALSE
  /\ destroyed' = destroyed + 1
  /\ FreeObjectSlot(s)
  /\ UNCHANGED request

\* The collector has returned and the stack has an entry now.
RetrySucceeds ==
  /\ request # "none" /\ ~inTree
  /\ Pop(request)
  /\ request' = "none" /\ destroyed' = 0
  /\ UNCHANGED inTree

\* The collector has returned and the stack is still empty: return 0.
RetryFails ==
  /\ request # "none" /\ ~inTree
  /\ top[request] = 0
  /\ request' = "none" /\ destroyed' = 0
  /\ UNCHANGED <<stacks, active, activeLen, inTree, live>>

\* Every caller of free_object_slot outside the collector.
ReleaseObject(s) ==
  /\ request = "none" /\ s \in live
  /\ FreeObjectSlot(s)
  /\ UNCHANGED collector

Next ==
  \/ \E p \in Pools : AllocObjectSlot(p) \/ BeginDespawn(p)
  \/ \E s \in AllSlots : DespawnContent(s) \/ DespawnRoot(s) \/ ReleaseObject(s)
  \/ RetrySucceeds
  \/ RetryFails
  \/ ResetLevelObjectArena

Spec == Init /\ [][Next]_vars

----------------------------------------------------------------------------
(* Properties.                                                             *)

TypeOK ==
  /\ top \in [Pools -> Nat]
  /\ \A p \in Pools : top[p] <= Capacity(p)
  /\ DOMAIN free = Pools
  /\ \A p \in Pools : free[p] \in [1 .. Capacity(p) -> Slots(p)]
  /\ active \in [1 .. Capacity("mobile") -> Slots("mobile") \cup {0}]
  /\ activeLen \in 0 .. Capacity("mobile")
  /\ request \in Pools \cup {"none"}
  /\ destroyed \in Nat
  /\ inTree \in BOOLEAN
  /\ live \subseteq AllSlots

\* No slot number stands in a stack twice.
StackDistinct(p) ==
  \A i, j \in 1 .. top[p] : free[p][i] = free[p][j] => i = j

\* A stack holds only free slots of its pool, and every one of them.
StackExact(p) ==
  \A s \in Slots(p) : s \notin live <=> \E i \in 1 .. top[p] : free[p][i] = s

\* The free stacks (objects.c alloc_object_slot, free_object_slot): no slot is
\* handed out while it is in use, none is handed out twice, and none leaks,
\* whatever the collector destroys in the middle of an allocation.
FreeStacksExact == \A p \in Pools : StackDistinct(p) /\ StackExact(p)

\* The active list (active_mobile_list_add, active_mobile_list_remove): the
\* sweeps over it meet every live mobile object once and nothing else.
ActiveListExact ==
  /\ \A i \in 1 .. activeLen : active[i] \in Slots("mobile")
  /\ \A i, j \in 1 .. activeLen : active[i] = active[j] => i = j
  /\ \A s \in Slots("mobile") :
       s \in live <=> \E i \in 1 .. activeLen : active[i] = s

\* alloc_object_slot returns 0 only when every record of the pool is in use:
\* a caller that gets 0 could not have been served.
FailureMeansFull ==
  [][RetryFails => Slots(request) \subseteq live]_vars

\* The arena implements the abstract pool: what is in use is the history
\* variable, what waits is the request.  No caller of alloc_object_slot or
\* free_object_slot can tell the stacks, the list and the collector from it.
Abstract == INSTANCE SlotPool WITH
  Mobile <- Slots("mobile"), Static <- Slots("static"),
  inUse <- live, waiting <- request

ImplementsSlotPool == Abstract!Spec
=============================================================================
