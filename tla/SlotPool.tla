------------------------------ MODULE SlotPool ------------------------------
(***************************************************************************)
(* What the allocator promises its callers, without stacks or lists: a set *)
(* of slots in use.  A request takes any slot of its pool that is not in   *)
(* use and is refused only when there is none; between the two the         *)
(* collector may take records away, and nothing else happens.              *)
(***************************************************************************)
CONSTANTS Mobile, Static   \* the slots of the two pools

VARIABLES
  inUse,   \* the slots handed out
  waiting  \* "none", or the pool a request is collecting for

poolVars == <<inUse, waiting>>

PoolSlots(p) == IF p = "mobile" THEN Mobile ELSE Static

Init == inUse = {} /\ waiting = "none"

Grant(p) ==
  /\ waiting \in {"none", p}
  /\ \E s \in PoolSlots(p) \ inUse : inUse' = inUse \cup {s}
  /\ waiting' = "none"

Collect(p) ==
  /\ waiting = "none"
  /\ PoolSlots(p) \subseteq inUse
  /\ waiting' = p
  /\ UNCHANGED inUse

Refuse ==
  /\ waiting # "none"
  /\ PoolSlots(waiting) \subseteq inUse
  /\ waiting' = "none"
  /\ UNCHANGED inUse

Release(s) ==
  /\ inUse' = inUse \ {s}
  /\ UNCHANGED waiting

Clear ==
  /\ waiting = "none"
  /\ inUse' = {}
  /\ UNCHANGED waiting

Next ==
  \/ \E p \in {"mobile", "static"} : Grant(p) \/ Collect(p)
  \/ \E s \in inUse : Release(s)
  \/ Refuse
  \/ Clear

Spec == Init /\ [][Next]_poolVars
=============================================================================
