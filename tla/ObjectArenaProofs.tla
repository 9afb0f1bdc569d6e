------------------------- MODULE ObjectArenaProofs -------------------------
(***************************************************************************)
(* Proofs about the object arena, for every size of the pools and every    *)
(* limit of the collector.  The three invariants are inductive together:   *)
(* that a push stays inside a stack follows from the exactness of the      *)
(* stack (it cannot already hold every slot of its pool, because the slot  *)
(* being freed is in use), by the pigeonhole principle.                    *)
(***************************************************************************)
EXTENDS ObjectArena, FiniteSetTheorems, TLAPS

\* The inductive invariant of the arena.
ArenaInv == TypeOK /\ FreeStacksExact /\ ActiveListExact

----------------------------------------------------------------------------
(* Counting.                                                               *)

\* n distinct numbers of an interval that miss one of its members are fewer
\* than the interval is long (the bound of both stacks and of the active list).
LEMMA ArrayBound ==
  ASSUME NEW a \in Int, NEW b \in Int, NEW n \in Nat, NEW f,
         NEW x \in a .. b,
         \A i \in 1 .. n : f[i] \in a .. b /\ f[i] # x,
         \A i, j \in 1 .. n : f[i] = f[j] => i = j
  PROVE  n <= b - a
<1> DEFINE S == 1 .. n
           T == (a .. b) \ {x}
           g == [i \in S |-> f[i]]
<1>1. IsFiniteSet(S) /\ Cardinality(S) = n
  <2>1. IsFiniteSet(1 .. n) /\ Cardinality(1 .. n) = IF 1 > n THEN 0 ELSE n - 1 + 1
    BY FS_Interval
  <2>2. QED
    BY <2>1
<1>2. IsFiniteSet(T) /\ Cardinality(T) = b - a
  <2>1. IsFiniteSet(a .. b) /\ Cardinality(a .. b) = b - a + 1
    <3>1. IsFiniteSet(a .. b) /\ Cardinality(a .. b) = IF a > b THEN 0 ELSE b - a + 1
      BY FS_Interval
    <3>2. QED
      BY <3>1
  <2>2. IsFiniteSet(T) /\ Cardinality(T) = Cardinality(a .. b) - 1
    BY <2>1, FS_RemoveElement
  <2>3. QED
    BY <2>1, <2>2
<1>3. g \in [S -> T]
  OBVIOUS
<1> HIDE DEF S, T
<1>4. SUFFICES ASSUME Cardinality(T) < Cardinality(S) PROVE FALSE
  BY <1>1, <1>2
<1>5. \E i, j \in S : i # j /\ g[i] = g[j]
  <2> HIDE DEF g
  <2> QED BY <1>1, <1>2, <1>3, <1>4, FS_PigeonHole
<1>6. QED
  BY <1>5 DEF S

----------------------------------------------------------------------------
(* The slot numbers.                                                       *)

\* Each pool has at least one slot, the two pools are disjoint, and PoolOf (the
\* address test of free_object_slot) finds the pool of every slot.
LEMMA SlotFacts ==
  /\ \A p \in Pools : /\ Capacity(p) \in Nat \ {0}
                      /\ FirstSlot(p) \in Nat \ {0}
                      /\ Slots(p) \subseteq AllSlots
  /\ Slots("mobile") \cap Slots("static") = {}
  /\ 0 \notin Slots("mobile")
  /\ \A s \in AllSlots : PoolOf(s) \in Pools /\ s \in Slots(PoolOf(s))
  /\ \A p \in Pools : \A s \in Slots(p) : PoolOf(s) = p
BY ArenaAssumption DEF Pools, Capacity, FirstSlot, Slots, AllSlots, PoolOf

\* The part of the type invariant about the lists, and the rest.
ListTypes ==
  /\ top \in [Pools -> Nat]
  /\ \A p \in Pools : top[p] <= Capacity(p)
  /\ DOMAIN free = Pools
  /\ \A p \in Pools : free[p] \in [1 .. Capacity(p) -> Slots(p)]
  /\ active \in [1 .. Capacity("mobile") -> Slots("mobile") \cup {0}]
  /\ activeLen \in 0 .. Capacity("mobile")
  /\ live \subseteq AllSlots

CollectorTypes ==
  /\ request \in Pools \cup {"none"}
  /\ destroyed \in Nat
  /\ inTree \in BOOLEAN

ListInv == ListTypes /\ FreeStacksExact /\ ActiveListExact

\* The list part (what alloc_object_slot and free_object_slot change) and the
\* collector part of the invariant can be shown separately, before a step ...
LEMMA SplitInv == ArenaInv <=> ListInv /\ CollectorTypes
BY DEF ArenaInv, ListInv, TypeOK, ListTypes, CollectorTypes

\* ... and after it.
LEMMA SplitInvPrime == ArenaInv' <=> ListInv' /\ CollectorTypes'
BY DEF ArenaInv, ListInv, TypeOK, ListTypes, CollectorTypes

----------------------------------------------------------------------------
(* Taking the top of a stack.                                              *)

\* The slot a pop takes is a slot of the pool and was not in use.
LEMMA PopTakesFree ==
  ASSUME ListInv, NEW p \in Pools, Pop(p)
  PROVE  /\ top[p] \in 1 .. Capacity(p)
         /\ free[p][top[p]] \in Slots(p)
         /\ free[p][top[p]] \notin live
         /\ live' = live \cup {free[p][top[p]]}
<1>1. top[p] \in 1 .. Capacity(p)
  BY SlotFacts DEF ListInv, ListTypes, Pop
<1>2. free[p][top[p]] \in Slots(p)
  BY <1>1 DEF ListInv, ListTypes
<1>3. free[p][top[p]] \notin live
  BY <1>1, <1>2, SlotFacts DEF ListInv, ListTypes, FreeStacksExact, StackExact
<1>4. QED
  BY <1>1, <1>2, <1>3 DEF Pop

\* A pop keeps both stacks exact: the slot leaves the stack as it comes in use.
LEMMA PopStacks ==
  ASSUME ListInv, NEW p \in Pools, Pop(p)
  PROVE  FreeStacksExact'
<1> DEFINE s == free[p][top[p]]
<1>1. /\ top[p] \in 1 .. Capacity(p) /\ s \in Slots(p) /\ s \notin live
      /\ live' = live \cup {s} /\ free' = free /\ top' = [top EXCEPT ![p] = @ - 1]
  BY PopTakesFree DEF Pop
<1>2. top \in [Pools -> Nat] /\ \A q \in Pools : StackDistinct(q) /\ StackExact(q)
  BY DEF ListInv, ListTypes, FreeStacksExact
<1> SUFFICES ASSUME NEW q \in Pools PROVE StackDistinct(q)' /\ StackExact(q)'
  BY DEF FreeStacksExact
<1>3. CASE q = p
  <2>1. top'[q] = top[q] - 1 /\ top[q] \in Nat \ {0}
    BY <1>1, <1>2, <1>3, SlotFacts
  <2>2. StackDistinct(q)'
    BY <1>1, <1>2, <2>1 DEF StackDistinct
  <2>3. ASSUME NEW t \in Slots(q)
        PROVE  t \notin live' <=> \E i \in 1 .. top'[q] : free'[q][i] = t
    <3>1. t \notin live <=> \E i \in 1 .. top[q] : free[q][i] = t
      BY <1>2 DEF StackExact
    <3>2. \A i \in 1 .. top'[q] : free[q][i] # s
      BY <1>1, <1>2, <1>3, <2>1 DEF StackDistinct
    <3>3. 1 .. top[q] = (1 .. top'[q]) \cup {top[q]}
      BY <2>1
    <3>4. QED
      BY <1>1, <1>3, <3>1, <3>2, <3>3
  <2>4. QED
    BY <2>2, <2>3 DEF StackExact
<1>4. CASE q # p
  <2>1. top'[q] = top[q] /\ free'[q] = free[q]
    BY <1>1, <1>2, <1>4
  <2>2. s \notin Slots(q)
    BY <1>1, <1>4, SlotFacts DEF Pools
  <2>3. StackDistinct(q)'
    BY <1>2, <2>1 DEF StackDistinct
  <2>4. StackExact(q)'
    BY <1>1, <1>2, <2>1, <2>2 DEF StackExact
  <2>5. QED
    BY <2>3, <2>4
<1>5. QED
  BY <1>3, <1>4

\* A mobile pop appends the slot to the active list, which has room for it: the
\* list holds only live slots and misses this one.
LEMMA PopActive ==
  ASSUME ListInv, NEW p \in Pools, Pop(p)
  PROVE  /\ ActiveListExact'
         /\ active' \in [1 .. Capacity("mobile") -> Slots("mobile") \cup {0}]
         /\ activeLen' \in 0 .. Capacity("mobile")
<1> DEFINE s == free[p][top[p]]
<1>1. s \in Slots(p) /\ s \notin live /\ live' = live \cup {s}
  BY PopTakesFree
<1>2. /\ active \in [1 .. Capacity("mobile") -> Slots("mobile") \cup {0}]
      /\ activeLen \in 0 .. Capacity("mobile")
      /\ \A i, j \in 1 .. activeLen : active[i] = active[j] => i = j
      /\ \A t \in Slots("mobile") :
           t \in live <=> \E i \in 1 .. activeLen : active[i] = t
      /\ \A i \in 1 .. activeLen : active[i] \in Slots("mobile")
  BY DEF ListInv, ListTypes, ActiveListExact
<1> HIDE DEF s
<1>3. CASE p = "mobile"
  <2>1. active' = [active EXCEPT ![activeLen + 1] = s] /\ activeLen' = activeLen + 1
    BY <1>3 DEF Pop, ActiveMobileListAdd, s
  <2>2. \A i \in 1 .. activeLen : active[i] # s
    BY <1>1, <1>2, <1>3
  <2>3. activeLen <= Capacity("mobile") - 1
    <3>1. /\ FirstSlot("mobile") \in Int
          /\ FirstSlot("mobile") + Capacity("mobile") - 1 \in Int
          /\ Capacity("mobile") \in Nat
      BY SlotFacts DEF Pools
    <3>2. activeLen \in Nat
      BY <1>2, <3>1
    <3>3. s \in FirstSlot("mobile") .. (FirstSlot("mobile") + Capacity("mobile") - 1)
      BY <1>1, <1>3 DEF Slots
    <3>4. \A i \in 1 .. activeLen :
            active[i] \in FirstSlot("mobile") .. (FirstSlot("mobile") + Capacity("mobile") - 1)
      BY <1>2 DEF Slots
    <3>5. activeLen <= (FirstSlot("mobile") + Capacity("mobile") - 1) - FirstSlot("mobile")
      BY <1>2, <2>2, <3>1, <3>2, <3>3, <3>4, ArrayBound
    <3>6. QED
      BY <3>1, <3>2, <3>5
  <2>4. activeLen' \in 1 .. Capacity("mobile") /\ activeLen \in Nat
    BY <1>2, <2>1, <2>3, SlotFacts DEF Pools
  <2>5. /\ \A i \in 1 .. activeLen : active'[i] = active[i]
        /\ active'[activeLen + 1] = s
        /\ 1 .. activeLen' = (1 .. activeLen) \cup {activeLen + 1}
    BY <1>2, <2>1, <2>4
  <2>6. active' \in [1 .. Capacity("mobile") -> Slots("mobile") \cup {0}]
    BY <1>1, <1>2, <1>3, <2>1
  <2>7. \A i, j \in 1 .. activeLen' : active'[i] = active'[j] => i = j
    BY <1>2, <2>2, <2>5
  <2>8. \A t \in Slots("mobile") :
          t \in live' <=> \E i \in 1 .. activeLen' : active'[i] = t
    BY <1>1, <1>2, <2>5
  <2>9. \A i \in 1 .. activeLen' : active'[i] \in Slots("mobile")
    BY <1>1, <1>2, <1>3, <2>5
  <2>10. activeLen' \in 0 .. Capacity("mobile")
    BY <2>4, SlotFacts DEF Pools
  <2>11. QED
    BY <2>6, <2>7, <2>8, <2>9, <2>10 DEF ActiveListExact
<1>4. CASE p = "static"
  <2>1. active' = active /\ activeLen' = activeLen
    BY <1>4 DEF Pop
  <2>2. s \notin Slots("mobile")
    BY <1>1, <1>4, SlotFacts
  <2>3. QED
    BY <1>1, <1>2, <2>1, <2>2 DEF ActiveListExact
<1>5. QED
  BY <1>3, <1>4 DEF Pools

\* The pop of alloc_object_slot preserves the list part of the invariant.
LEMMA PopPreserves ==
  ASSUME ListInv, NEW p \in Pools, Pop(p)
  PROVE  ListInv'
<1>1. top' \in [Pools -> Nat] /\ \A q \in Pools : top'[q] <= Capacity(q)
  BY PopTakesFree, SlotFacts DEF ListInv, ListTypes, Pop
<1>2. free' = free
  BY DEF Pop
<1>3. live' \subseteq AllSlots
  BY PopTakesFree, SlotFacts DEF ListInv, ListTypes
<1>4. QED
  BY <1>1, <1>2, <1>3, PopStacks, PopActive DEF ListInv, ListTypes

----------------------------------------------------------------------------
(* Freeing a slot that is in use.                                          *)

\* There is room on the stack for a slot in use.
LEMMA PushFits ==
  ASSUME ListInv, NEW s \in live
  PROVE  /\ PoolOf(s) \in Pools
         /\ s \in Slots(PoolOf(s))
         /\ top[PoolOf(s)] + 1 \in 1 .. Capacity(PoolOf(s))
         /\ \A i \in 1 .. top[PoolOf(s)] : free[PoolOf(s)][i] # s
<1> DEFINE p == PoolOf(s)
<1>1. p \in Pools /\ s \in Slots(p)
  BY SlotFacts DEF ListInv, ListTypes
<1> HIDE DEF p
<1>2. /\ top[p] \in Nat /\ top[p] <= Capacity(p)
      /\ free[p] \in [1 .. Capacity(p) -> Slots(p)]
      /\ StackDistinct(p) /\ StackExact(p)
  BY <1>1 DEF ListInv, ListTypes, FreeStacksExact
<1>3. \A i \in 1 .. top[p] : free[p][i] # s
  BY <1>1, <1>2 DEF StackExact
<1>4. FirstSlot(p) \in Int /\ FirstSlot(p) + Capacity(p) - 1 \in Int /\ Capacity(p) \in Nat
  BY <1>1, SlotFacts
<1>5. \A i \in 1 .. top[p] :
        free[p][i] \in FirstSlot(p) .. (FirstSlot(p) + Capacity(p) - 1)
  BY <1>2, <1>4 DEF Slots
<1>6. s \in FirstSlot(p) .. (FirstSlot(p) + Capacity(p) - 1)
  BY <1>1 DEF Slots
<1>7. \A i, j \in 1 .. top[p] : free[p][i] = free[p][j] => i = j
  BY <1>2 DEF StackDistinct
<1>8. top[p] <= (FirstSlot(p) + Capacity(p) - 1) - FirstSlot(p)
  BY <1>2, <1>3, <1>4, <1>5, <1>6, <1>7, ArrayBound
<1>9. top[p] + 1 \in 1 .. Capacity(p)
  BY <1>2, <1>4, <1>8
<1>10. QED
  BY <1>1, <1>3, <1>9 DEF p

\* A free keeps both stacks exact.
LEMMA FreeStacks ==
  ASSUME ListInv, NEW s \in live, FreeObjectSlot(s)
  PROVE  /\ FreeStacksExact'
         /\ top' \in [Pools -> Nat]
         /\ \A q \in Pools : top'[q] <= Capacity(q)
         /\ DOMAIN free' = Pools
         /\ \A q \in Pools : free'[q] \in [1 .. Capacity(q) -> Slots(q)]
         /\ live' \subseteq AllSlots
<1> DEFINE p == PoolOf(s)
<1>1. /\ p \in Pools /\ s \in Slots(p) /\ top[p] + 1 \in 1 .. Capacity(p)
      /\ \A i \in 1 .. top[p] : free[p][i] # s
  BY PushFits
<1>2. /\ top' = [top EXCEPT ![p] = @ + 1]
      /\ free' = [free EXCEPT ![p][top[p] + 1] = s]
      /\ live' = live \ {s}
  BY DEF FreeObjectSlot
<1> HIDE DEF p
<1>3. /\ top \in [Pools -> Nat] /\ \A q \in Pools : top[q] <= Capacity(q)
      /\ DOMAIN free = Pools /\ live \subseteq AllSlots
      /\ \A q \in Pools : free[q] \in [1 .. Capacity(q) -> Slots(q)]
      /\ \A q \in Pools : StackDistinct(q) /\ StackExact(q)
  BY DEF ListInv, ListTypes, FreeStacksExact
<1>4. top' \in [Pools -> Nat] /\ DOMAIN free' = Pools /\ live' \subseteq AllSlots
  BY <1>1, <1>2, <1>3
<1>5. ASSUME NEW q \in Pools
      PROVE  /\ top'[q] <= Capacity(q)
             /\ free'[q] \in [1 .. Capacity(q) -> Slots(q)]
             /\ StackDistinct(q)' /\ StackExact(q)'
  <2>1. CASE q = p
    <3>1. /\ top'[q] = top[q] + 1 /\ top[q] \in Nat /\ Capacity(q) \in Nat
          /\ top'[q] \in 1 .. Capacity(q)
      BY <1>1, <1>2, <1>3, <2>1, SlotFacts
    <3>2. /\ free'[q] = [free[q] EXCEPT ![top[q] + 1] = s]
          /\ free[q] \in [1 .. Capacity(q) -> Slots(q)]
      BY <1>2, <1>3, <2>1
    <3>3. free'[q] \in [1 .. Capacity(q) -> Slots(q)]
      BY <1>1, <2>1, <3>2
    <3>4. /\ \A i \in 1 .. top[q] : free'[q][i] = free[q][i]
          /\ free'[q][top[q] + 1] = s
          /\ 1 .. top'[q] = (1 .. top[q]) \cup {top[q] + 1}
      BY <3>1, <3>2
    <3>5. StackDistinct(q)'
      BY <1>1, <1>3, <2>1, <3>4 DEF StackDistinct
    <3>6. ASSUME NEW t \in Slots(q)
          PROVE  t \notin live' <=> \E i \in 1 .. top'[q] : free'[q][i] = t
      <4>1. t \notin live <=> \E i \in 1 .. top[q] : free[q][i] = t
        BY <1>3 DEF StackExact
      <4>2. QED
        BY <1>2, <3>4, <4>1
    <3>7. StackExact(q)'
      BY <3>6 DEF StackExact
    <3>8. QED
      BY <3>1, <3>3, <3>5, <3>7
  <2>2. CASE q # p
    <3>1. top'[q] = top[q] /\ free'[q] = free[q]
      BY <1>1, <1>2, <1>3, <2>2
    <3>2. s \notin Slots(q)
      BY <1>1, <2>2, SlotFacts
    <3>3. StackDistinct(q)'
      BY <1>3, <3>1 DEF StackDistinct
    <3>4. StackExact(q)'
      BY <1>2, <1>3, <3>1, <3>2 DEF StackExact
    <3>5. QED
      BY <1>3, <3>1, <3>3, <3>4
  <2>3. QED
    BY <2>1, <2>2
<1>6. QED
  BY <1>4, <1>5 DEF FreeStacksExact

\* A free of a mobile slot closes the gap it leaves in the active list with the
\* last entry; the list still has every other live mobile slot once.
LEMMA FreeActive ==
  ASSUME ListInv, NEW s \in live, FreeObjectSlot(s)
  PROVE  /\ ActiveListExact'
         /\ active' \in [1 .. Capacity("mobile") -> Slots("mobile") \cup {0}]
         /\ activeLen' \in 0 .. Capacity("mobile")
<1>1. live' = live \ {s} /\ PoolOf(s) \in Pools /\ s \in Slots(PoolOf(s))
  BY PushFits DEF FreeObjectSlot
<1>2. /\ active \in [1 .. Capacity("mobile") -> Slots("mobile") \cup {0}]
      /\ activeLen \in 0 .. Capacity("mobile")
      /\ Capacity("mobile") \in Nat
      /\ \A i, j \in 1 .. activeLen : active[i] = active[j] => i = j
      /\ \A t \in Slots("mobile") :
           t \in live <=> \E i \in 1 .. activeLen : active[i] = t
      /\ \A i \in 1 .. activeLen : active[i] \in Slots("mobile")
  BY SlotFacts DEF ListInv, ListTypes, ActiveListExact, Pools
<1>3. CASE PoolOf(s) = "mobile"
  <2>1. \E i \in 1 .. activeLen : active[i] = s
    BY <1>1, <1>2, <1>3
  <2>2. ActiveMobileListRemove(s)
    BY <1>3 DEF FreeObjectSlot
  <2>3. PICK k \in 1 .. activeLen :
          /\ active[k] = s
          /\ activeLen' = activeLen - 1
          /\ active' = [active EXCEPT ![k] = active[activeLen]]
    BY <2>1, <2>2 DEF ActiveMobileListRemove, IsFirstActive
  <2>4. activeLen \in Nat \ {0} /\ activeLen' \in 0 .. Capacity("mobile")
    BY <1>2, <2>3
  <2>5. active' \in [1 .. Capacity("mobile") -> Slots("mobile") \cup {0}]
    BY <1>2, <2>3, <2>4
  <2>6. \A i \in 1 .. activeLen' :
          active'[i] = active[IF i = k THEN activeLen ELSE i]
    BY <1>2, <2>3, <2>4
  <2>7. \A i \in 1 .. activeLen' : active'[i] \in Slots("mobile")
    BY <1>2, <2>3, <2>4, <2>6
  <2>8. \A i, j \in 1 .. activeLen' : active'[i] = active'[j] => i = j
    BY <1>2, <2>3, <2>4, <2>6
  <2>9. ASSUME NEW t \in Slots("mobile")
        PROVE  t \in live' <=> \E i \in 1 .. activeLen' : active'[i] = t
    <3>1. t \in live <=> \E i \in 1 .. activeLen : active[i] = t
      BY <1>2
    <3>2. ASSUME t # s, NEW i \in 1 .. activeLen, active[i] = t
          PROVE  \E j \in 1 .. activeLen' : active'[j] = t
      <4>1. CASE i = activeLen
        <5>1. k \in 1 .. activeLen'
          BY <2>3, <2>4, <3>2, <4>1
        <5>2. QED
          BY <2>6, <3>2, <4>1, <5>1
      <4>2. CASE i # activeLen
        <5>1. i \in 1 .. activeLen' /\ i # k
          BY <2>3, <2>4, <3>2, <4>2
        <5>2. QED
          BY <2>6, <3>2, <5>1
      <4>3. QED
        BY <4>1, <4>2
    <3>3. ASSUME NEW j \in 1 .. activeLen', active'[j] = t
          PROVE  t # s /\ \E i \in 1 .. activeLen : active[i] = t
      <4>1. t = active[IF j = k THEN activeLen ELSE j]
        BY <2>6, <3>3
      <4>2. (IF j = k THEN activeLen ELSE j) \in (1 .. activeLen) \ {k}
        BY <2>3, <2>4
      <4>3. QED
        BY <1>2, <2>3, <4>1, <4>2
    <3>4. QED
      BY <1>1, <3>1, <3>2, <3>3
  <2>10. QED
    BY <2>4, <2>5, <2>7, <2>8, <2>9 DEF ActiveListExact
<1>4. CASE PoolOf(s) = "static"
  <2>1. active' = active /\ activeLen' = activeLen
    BY <1>4 DEF FreeObjectSlot
  <2>2. s \notin Slots("mobile")
    BY <1>1, <1>4, SlotFacts
  <2>3. QED
    BY <1>1, <1>2, <2>1, <2>2 DEF ActiveListExact
<1>5. QED
  BY <1>1, <1>3, <1>4 DEF Pools

\* free_object_slot preserves the list part, when the slot is in use.
LEMMA FreePreserves ==
  ASSUME ListInv, NEW s \in live, FreeObjectSlot(s)
  PROVE  ListInv'
BY FreeStacks, FreeActive DEF ListInv, ListTypes

----------------------------------------------------------------------------
(* The inductive invariant.                                                *)

\* A freshly laid out arena (reset_level_object_arena).
LEMMA FreshLists ==
  ASSUME NEW f, f = FreshFree, NEW t, t = FreshTop
  PROVE  /\ t \in [Pools -> Nat]
         /\ DOMAIN f = Pools
         /\ \A p \in Pools :
              /\ t[p] = Capacity(p)
              /\ f[p] \in [1 .. Capacity(p) -> Slots(p)]
              /\ \A i \in 1 .. Capacity(p) : f[p][i] = FirstSlot(p) + i - 1
<1>1. ASSUME NEW p \in Pools
      PROVE  Capacity(p) \in Nat \ {0} /\ FirstSlot(p) \in Nat \ {0}
  BY SlotFacts
<1>2. ASSUME NEW p \in Pools
      PROVE  /\ t[p] = Capacity(p)
             /\ f[p] \in [1 .. Capacity(p) -> Slots(p)]
             /\ \A i \in 1 .. Capacity(p) : f[p][i] = FirstSlot(p) + i - 1
  BY <1>1 DEF FreshFree, FreshTop, Slots
<1>3. t \in [Pools -> Nat]
  BY <1>1 DEF FreshTop
<1>4. QED
  BY <1>2, <1>3 DEF FreshFree

\* Every slot is on its stack once when the arena is fresh.
LEMMA FreshExact ==
  ASSUME NEW p \in Pools, NEW g,
         \A i \in 1 .. Capacity(p) : g[i] = FirstSlot(p) + i - 1
  PROVE  /\ \A i, j \in 1 .. Capacity(p) : g[i] = g[j] => i = j
         /\ \A s \in Slots(p) : \E i \in 1 .. Capacity(p) : g[i] = s
<1>1. Capacity(p) \in Nat \ {0} /\ FirstSlot(p) \in Nat \ {0}
  BY SlotFacts
<1>2. \A i, j \in 1 .. Capacity(p) : g[i] = g[j] => i = j
  BY <1>1
<1>3. ASSUME NEW s \in Slots(p)
      PROVE  \E i \in 1 .. Capacity(p) : g[i] = s
  <2>1. s - FirstSlot(p) + 1 \in 1 .. Capacity(p)
    BY <1>1 DEF Slots
  <2>2. g[s - FirstSlot(p) + 1] = s
    BY <1>1, <2>1 DEF Slots
  <2>3. QED
    BY <2>1, <2>2
<1>4. QED
  BY <1>2, <1>3

\* The list part speaks of the lists and the history variable only.
LEMMA ListsUnchanged ==
  ASSUME ListInv, UNCHANGED <<free, top, active, activeLen, live>>
  PROVE  ListInv'
<1>1. ListTypes'
  BY DEF ListInv, ListTypes
<1>2. FreeStacksExact'
  BY DEF ListInv, FreeStacksExact, StackDistinct, StackExact
<1>3. ActiveListExact'
  BY DEF ListInv, ActiveListExact
<1>4. QED
  BY <1>1, <1>2, <1>3 DEF ListInv

\* init_level_object_arena followed by the first reset establishes the invariant.
LEMMA InitInv == Init => ArenaInv
<1> SUFFICES ASSUME Init PROVE ArenaInv
  OBVIOUS
<1>1. ListTypes
  BY FreshLists, SlotFacts DEF Init, ListTypes, Pools, AllSlots
<1>2. FreeStacksExact
  BY FreshLists, FreshExact
     DEF Init, FreeStacksExact, StackDistinct, StackExact
<1>3. ActiveListExact
  BY DEF Init, ActiveListExact
<1>4. CollectorTypes
  BY DEF Init, CollectorTypes
<1>5. QED
  BY <1>1, <1>2, <1>3, <1>4, SplitInv DEF ListInv

\* reset_level_object_arena establishes it again, whatever was in use.
LEMMA ResetInv == ArenaInv /\ ResetLevelObjectArena => ArenaInv'
<1> SUFFICES ASSUME ArenaInv, ResetLevelObjectArena PROVE ArenaInv'
  OBVIOUS
<1>1. ListTypes'
  BY FreshLists, SlotFacts, SplitInv
     DEF ResetLevelObjectArena, ListInv, ListTypes, Pools, AllSlots
<1>2. FreeStacksExact'
  BY FreshLists, FreshExact
     DEF ResetLevelObjectArena, FreeStacksExact, StackDistinct, StackExact
<1>3. ActiveListExact'
  BY DEF ResetLevelObjectArena, ActiveListExact
<1>4. CollectorTypes'
  BY SplitInv DEF ResetLevelObjectArena, CollectorTypes, collector
<1>5. QED
  BY <1>1, <1>2, <1>3, <1>4, SplitInvPrime DEF ListInv

\* Every step of the allocator, the collector and the callers preserves it.
LEMMA NextInv == ArenaInv /\ [Next]_vars => ArenaInv'
<1> SUFFICES ASSUME ArenaInv, [Next]_vars PROVE ArenaInv'
  OBVIOUS
<1>0. ListInv /\ CollectorTypes
  BY SplitInv
<1>1. ASSUME NEW p \in Pools, AllocObjectSlot(p) PROVE ArenaInv'
  <2>1. ListInv'
    BY <1>0, <1>1, PopPreserves DEF AllocObjectSlot
  <2>2. CollectorTypes'
    BY <1>0, <1>1 DEF AllocObjectSlot, collector, CollectorTypes
  <2>3. QED
    BY <2>1, <2>2, SplitInvPrime
<1>2. ASSUME NEW p \in Pools, BeginDespawn(p) PROVE ArenaInv'
  <2>1. ListInv'
    BY <1>0, <1>2, ListsUnchanged DEF BeginDespawn, stacks
  <2>2. CollectorTypes'
    BY <1>2 DEF BeginDespawn, CollectorTypes
  <2>3. QED
    BY <2>1, <2>2, SplitInvPrime
<1>3. ASSUME NEW s \in AllSlots, DespawnContent(s) PROVE ArenaInv'
  <2>1. ListInv'
    BY <1>0, <1>3, FreePreserves DEF DespawnContent
  <2>2. CollectorTypes'
    BY <1>0, <1>3 DEF DespawnContent, CollectorTypes
  <2>3. QED
    BY <2>1, <2>2, SplitInvPrime
<1>4. ASSUME NEW s \in AllSlots, DespawnRoot(s) PROVE ArenaInv'
  <2>1. ListInv'
    BY <1>0, <1>4, FreePreserves DEF DespawnRoot
  <2>2. CollectorTypes'
    <3>1. destroyed' \in Nat
      BY <1>0, <1>4 DEF DespawnRoot, CollectorTypes
    <3>2. request' = request /\ inTree' = FALSE
      BY <1>4 DEF DespawnRoot
    <3>3. QED
      BY <1>0, <3>1, <3>2 DEF CollectorTypes
  <2>3. QED
    BY <2>1, <2>2, SplitInvPrime
<1>5. ASSUME NEW s \in AllSlots, ReleaseObject(s) PROVE ArenaInv'
  <2>1. ListInv'
    BY <1>0, <1>5, FreePreserves DEF ReleaseObject
  <2>2. CollectorTypes'
    BY <1>0, <1>5 DEF ReleaseObject, collector, CollectorTypes
  <2>3. QED
    BY <2>1, <2>2, SplitInvPrime
<1>6. CASE RetrySucceeds
  <2>1. request \in Pools
    BY <1>0, <1>6 DEF RetrySucceeds, CollectorTypes
  <2>2. ListInv'
    BY <1>0, <1>6, <2>1, PopPreserves DEF RetrySucceeds
  <2>3. CollectorTypes'
    BY <1>0, <1>6 DEF RetrySucceeds, CollectorTypes
  <2>4. QED
    BY <2>2, <2>3, SplitInvPrime
<1>7. CASE RetryFails
  <2>1. ListInv'
    BY <1>0, <1>7, ListsUnchanged DEF RetryFails, stacks
  <2>2. CollectorTypes'
    BY <1>0, <1>7 DEF RetryFails, CollectorTypes
  <2>3. QED
    BY <2>1, <2>2, SplitInvPrime
<1>8. CASE ResetLevelObjectArena
  BY <1>8, ResetInv
<1>9. CASE UNCHANGED vars
  <2>1. ListInv'
    BY <1>0, <1>9, ListsUnchanged DEF vars
  <2>2. CollectorTypes'
    BY <1>0, <1>9 DEF vars, CollectorTypes
  <2>3. QED
    BY <2>1, <2>2, SplitInvPrime
<1>10. QED
  BY <1>1, <1>2, <1>3, <1>4, <1>5, <1>6, <1>7, <1>8, <1>9 DEF Next

\* The inductive invariant holds in every state of the arena.
THEOREM ArenaInvariant == Spec => []ArenaInv
<1>1. QED
  BY InitInv, NextInv, PTL DEF Spec

\* Types, and that no push of free_object_slot or active_mobile_list_add, none of
\* which checks a bound, leaves its array.
THEOREM ArenaTypes == Spec => []TypeOK
<1>1. ArenaInv => TypeOK
  BY DEF ArenaInv
<1>2. QED
  BY <1>1, ArenaInvariant, PTL

\* No slot is handed out twice, none leaks, for every size of the pools.
THEOREM FreeStacksAreExact == Spec => []FreeStacksExact
<1>1. ArenaInv => FreeStacksExact
  BY DEF ArenaInv
<1>2. QED
  BY <1>1, ArenaInvariant, PTL

\* The sweeps over the active list meet every live mobile object exactly once.
THEOREM ActiveListIsExact == Spec => []ActiveListExact
<1>1. ArenaInv => ActiveListExact
  BY DEF ArenaInv
<1>2. QED
  BY <1>1, ArenaInvariant, PTL

\* alloc_object_slot returns 0 only when every slot of the pool is in use: an
\* empty stack is a stack that misses no live slot.
THEOREM RefusalMeansFull == Spec => FailureMeansFull
<1>1. ASSUME ArenaInv, RetryFails PROVE Slots(request) \subseteq live
  <2>1. request \in Pools /\ top[request] = 0
    BY <1>1, SplitInv DEF RetryFails, CollectorTypes
  <2>2. StackExact(request) /\ 1 .. top[request] = {}
    BY <1>1, <2>1 DEF ArenaInv, FreeStacksExact
  <2>3. QED
    BY <2>2 DEF StackExact
<1>2. ArenaInv /\ [Next]_vars => [RetryFails => Slots(request) \subseteq live]_vars
  BY <1>1
<1>3. QED
  BY <1>2, ArenaInvariant, PTL DEF Spec, FailureMeansFull

----------------------------------------------------------------------------
(* Refinement of the abstract pool.                                        *)

\* A pop grants a slot of the pool that nobody holds.
LEMMA PopGrants ==
  ASSUME ListInv, NEW p \in Pools, Pop(p), request \in {"none", p}, request' = "none"
  PROVE  Abstract!Grant(p)
<1>1. Abstract!PoolSlots(p) = Slots(p)
  BY DEF Abstract!PoolSlots, Pools
<1>2. \E s \in Slots(p) \ live : live' = live \cup {s}
  BY PopTakesFree
<1>3. QED
  BY <1>1, <1>2 DEF Abstract!Grant

\* An empty stack means that every slot of the pool is in use.
LEMMA EmptyMeansFull ==
  ASSUME ArenaInv, NEW p \in Pools, top[p] = 0
  PROVE  Abstract!PoolSlots(p) \subseteq live
<1>1. StackExact(p) /\ 1 .. top[p] = {}
  BY DEF ArenaInv, FreeStacksExact
<1>2. Slots(p) \subseteq live
  BY <1>1 DEF StackExact
<1>3. QED
  BY <1>2 DEF Abstract!PoolSlots, Pools

\* Every step of the arena is a step of the abstract pool or leaves it as it is.
LEMMA StepSimulation ==
  ASSUME ArenaInv, [Next]_vars
  PROVE  [Abstract!Next]_(Abstract!poolVars)
<1>0. ListInv /\ CollectorTypes
  BY SplitInv
<1> USE DEF Abstract!Next
<1>1. ASSUME NEW p \in Pools, AllocObjectSlot(p) PROVE Abstract!Next
  <2>1. Abstract!Grant(p)
    BY <1>0, <1>1, PopGrants DEF AllocObjectSlot, collector
  <2>2. QED
    BY <2>1 DEF Pools
<1>2. ASSUME NEW p \in Pools, BeginDespawn(p) PROVE Abstract!Next
  <2>1. Abstract!Collect(p)
    BY <1>2, EmptyMeansFull DEF BeginDespawn, Abstract!Collect
  <2>2. QED
    BY <2>1 DEF Pools
<1>3. ASSUME NEW s \in AllSlots, DespawnContent(s) \/ DespawnRoot(s) \/ ReleaseObject(s)
      PROVE  Abstract!Next
  <2>1. s \in live /\ live' = live \ {s} /\ request' = request
    BY <1>3 DEF DespawnContent, DespawnRoot, ReleaseObject, FreeObjectSlot, collector
  <2>2. QED
    BY <2>1 DEF Abstract!Release
<1>4. CASE RetrySucceeds
  <2>1. request \in Pools /\ Pop(request) /\ request' = "none"
    BY <1>0, <1>4 DEF RetrySucceeds, CollectorTypes
  <2>2. Abstract!Grant(request)
    BY <1>0, <2>1, PopGrants
  <2>3. QED
    BY <2>1, <2>2 DEF Pools
<1>5. CASE RetryFails
  <2>1. request \in Pools /\ request # "none" /\ top[request] = 0
        /\ request' = "none" /\ live' = live
    BY <1>0, <1>5 DEF RetryFails, CollectorTypes
  <2>2. Abstract!Refuse
    BY <2>1, EmptyMeansFull DEF Abstract!Refuse
  <2>3. QED
    BY <2>2
<1>6. CASE ResetLevelObjectArena
  BY <1>6 DEF ResetLevelObjectArena, collector, Abstract!Clear
<1>7. CASE UNCHANGED vars
  BY <1>7 DEF vars, Abstract!poolVars
<1>8. QED
  BY <1>1, <1>2, <1>3, <1>4, <1>5, <1>6, <1>7 DEF Next

\* The arena, with its stacks, list and collector, implements the abstract pool
\* for every size of the pools (alloc_object_slot, free_object_slot).
THEOREM ArenaImplementsSlotPool == Spec => ImplementsSlotPool
<1>1. Init => Abstract!Init
  BY DEF Init, Abstract!Init
<1>2. ArenaInv /\ [Next]_vars => [Abstract!Next]_(Abstract!poolVars)
  BY StepSimulation
<1>3. QED
  BY <1>1, <1>2, ArenaInvariant, PTL DEF Spec, ImplementsSlotPool, Abstract!Spec
=============================================================================
