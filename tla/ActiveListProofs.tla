-------------------------- MODULE ActiveListProofs --------------------------
(***************************************************************************)
(* Proofs about the two walks over the active list: the sweep that ticks   *)
(* (MobileTick), for any set of mobile records, any speed classes, leads   *)
(* and elapsed times that MobileAssumption allows, and the pass that       *)
(* brings a level to rest (SettlePass), for any set of records.            *)
(***************************************************************************)
EXTENDS MobileTick, SettlePass, TLAPS

----------------------------------------------------------------------------
(* The list.                                                               *)

\* The entries of a list.
LEMMA SetOfList ==
  ASSUME NEW l \in Seq(Mobiles)
  PROVE  /\ ToSet(l) = {l[i] : i \in 1 .. Len(l)}
         /\ ToSet(l) \subseteq Mobiles /\ Len(l) \in Nat
         /\ \A i \in 1 .. Len(l) : l[i] \in ToSet(l)
<1>1. DOMAIN l = 1 .. Len(l)
  OBVIOUS
<1>2. QED
  BY <1>1 DEF ToSet

\* The place of an entry.
LEMMA IndexFacts ==
  ASSUME NEW l \in Seq(Mobiles), NEW m \in ToSet(l)
  PROVE  IndexIn(l, m) \in 1 .. Len(l) /\ l[IndexIn(l, m)] = m
<1>1. \E i \in DOMAIN l : l[i] = m
  BY DEF ToSet
<1>2. DOMAIN l = 1 .. Len(l)
  OBVIOUS
<1>3. QED
  BY <1>1, <1>2 DEF IndexIn

\* active_mobile_list_remove shortens the list by one and moves the last entry only.
LEMMA WithoutFacts ==
  ASSUME NEW l \in Seq(Mobiles), NEW m \in ToSet(l)
  PROVE  /\ Without(l, m) \in Seq(Mobiles) /\ Len(Without(l, m)) = Len(l) - 1
         /\ \A i \in 1 .. Len(l) - 1 :
              Without(l, m)[i] = l[IF i = IndexIn(l, m) THEN Len(l) ELSE i]
<1>1. IndexIn(l, m) \in 1 .. Len(l)
  BY IndexFacts
<1> DEFINE k == IndexIn(l, m)
           f == [l EXCEPT ![k] = l[Len(l)]]
<1>2. Without(l, m) = SubSeq(f, 1, Len(l) - 1)
  BY DEF Without, Last
<1> HIDE DEF k
<1>3. f \in Seq(Mobiles) /\ Len(f) = Len(l)
  BY <1>1 DEF k
<1>4. \A i \in 1 .. Len(l) : f[i] = l[IF i = k THEN Len(l) ELSE i]
  BY <1>1 DEF k
<1> HIDE DEF f
<1>5. /\ SubSeq(f, 1, Len(l) - 1) \in Seq(Mobiles)
      /\ Len(SubSeq(f, 1, Len(l) - 1)) = Len(l) - 1
      /\ \A i \in 1 .. Len(l) - 1 : SubSeq(f, 1, Len(l) - 1)[i] = f[i]
  BY <1>1, <1>3
<1>6. QED
  BY <1>2, <1>4, <1>5 DEF k

\* No object is listed twice.
Distinct(l) == \A i, j \in 1 .. Len(l) : l[i] = l[j] => i = j

\* A removal takes out that object and no other.
LEMMA WithoutSet ==
  ASSUME NEW l \in Seq(Mobiles), Distinct(l), NEW m \in ToSet(l)
  PROVE  Distinct(Without(l, m)) /\ ToSet(Without(l, m)) = ToSet(l) \ {m}
<1> DEFINE k == IndexIn(l, m)
           W == Without(l, m)
<1>1. /\ k \in 1 .. Len(l) /\ l[k] = m
      /\ W \in Seq(Mobiles) /\ Len(W) = Len(l) - 1
      /\ \A i \in 1 .. Len(l) - 1 : W[i] = l[IF i = k THEN Len(l) ELSE i]
  BY IndexFacts, WithoutFacts
<1>2. ToSet(l) = {l[i] : i \in 1 .. Len(l)} /\ ToSet(W) = {W[i] : i \in 1 .. Len(W)}
  BY <1>1, SetOfList
<1> HIDE DEF k, W
<1>3. Distinct(W)
  BY <1>1 DEF Distinct
<1>4. ToSet(W) \subseteq ToSet(l) \ {m}
  BY <1>1, <1>2 DEF Distinct
<1>5. ASSUME NEW i \in 1 .. Len(l), l[i] # m PROVE l[i] \in ToSet(W)
  <2>1. CASE i = Len(l)
    <3>1. k \in 1 .. Len(l) - 1
      BY <1>1, <1>5, <2>1
    <3>2. QED
      BY <1>1, <1>2, <2>1, <3>1
  <2>2. CASE i # Len(l)
    <3>1. i \in 1 .. Len(l) - 1 /\ i # k
      BY <1>1, <1>5, <2>2
    <3>2. QED
      BY <1>1, <1>2, <3>1
  <2>3. QED
    BY <2>1, <2>2
<1>6. QED
  BY <1>2, <1>3, <1>4, <1>5 DEF W

\* An object that was not listed goes to the end.
LEMMA AppendFacts ==
  ASSUME NEW l \in Seq(Mobiles), Distinct(l), NEW m \in Mobiles, m \notin ToSet(l)
  PROVE  /\ Append(l, m) \in Seq(Mobiles) /\ Len(Append(l, m)) = Len(l) + 1
         /\ \A i \in 1 .. Len(l) : Append(l, m)[i] = l[i]
         /\ Append(l, m)[Len(l) + 1] = m
         /\ Distinct(Append(l, m)) /\ ToSet(Append(l, m)) = ToSet(l) \cup {m}
<1>1. /\ Append(l, m) \in Seq(Mobiles) /\ Len(Append(l, m)) = Len(l) + 1
      /\ \A i \in 1 .. Len(l) : Append(l, m)[i] = l[i]
      /\ Append(l, m)[Len(l) + 1] = m /\ Len(l) \in Nat
  OBVIOUS
<1>2. /\ ToSet(l) = {l[i] : i \in 1 .. Len(l)}
      /\ ToSet(Append(l, m)) = {Append(l, m)[i] : i \in 1 .. Len(l) + 1}
  BY <1>1 DEF ToSet
<1> DEFINE A == Append(l, m)
<1> HIDE DEF A
<1>3. Distinct(A)
  BY <1>1, <1>2 DEF Distinct, A
<1>4. ToSet(A) = ToSet(l) \cup {m}
  <2>1. 1 .. Len(l) + 1 = (1 .. Len(l)) \cup {Len(l) + 1}
    BY <1>1
  <2>2. QED
    BY <1>1, <1>2, <2>1 DEF A
<1>5. QED
  BY <1>1, <1>3, <1>4 DEF A

----------------------------------------------------------------------------
(* The ring.                                                               *)

\* The remainder, turn by turn.
LEMMA Turns ==
  ASSUME NEW a \in -15 .. 31
  PROVE  /\ a \in -15 .. -1 => a % 16 = a + 16
         /\ a \in 0 .. 15 => a % 16 = a
         /\ a \in 16 .. 31 => a % 16 = a - 16
OBVIOUS

Phases == 0 .. 15

\* The clock of a sweep is one to five units behind.
Advanced == \E e \in 1 .. 5 : now = (clock + e) % Ring

\* No more than half the ring ahead of the clock of this sweep.
OnTime(p) == Ahead(p, now) <= 7

\* A phase up to three units ahead of the clock is on time, and not due.
LEMMA PlacedOnTime ==
  ASSUME NEW k \in 0 .. 3, now \in Phases, clock \in Phases
  PROVE  /\ (now + k) % Ring \in Phases
         /\ OnTime((now + k) % Ring)
         /\ Advanced => ~ObjectTickIsDue((now + k) % Ring)
<1>1. now + k \in -15 .. 31 /\ (now + k) % 16 \in Phases
  BY Turns DEF Phases
<1>2. (now + k) % 16 = IF now + k <= 15 THEN now + k ELSE now + k - 16
  BY <1>1, Turns DEF Phases
<1>3. (((now + k) % 16) - now) % 16 = k
  <2>1. ((now + k) % 16) - now \in -15 .. 15
    BY <1>1 DEF Phases
  <2>2. QED
    BY <1>2, <2>1, Turns DEF Phases
<1>4. ASSUME NEW e \in 1 .. 5, now = (clock + e) % 16
      PROVE  ~ObjectTickIsDue((now + k) % 16)
  <2>1. now = IF clock + e <= 15 THEN clock + e ELSE clock + e - 16
    BY <1>4, Turns DEF Phases
  <2>2. QED
    BY <1>2, <2>1 DEF ObjectTickIsDue, Phases, Ring
<1>5. QED
  BY <1>1, <1>3, <1>4 DEF OnTime, Ahead, Advanced, Ring

\* What was on time when the sweep before ended is on time in the next one, or due,
\* unless a step of five units misses it.
LEMMA OnTimeOrDueNext ==
  ASSUME clock \in Phases, NEW e \in 1 .. 5, NEW p \in Phases, Ahead(p, clock) <= 7,
         clock' = clock, now' = (clock + e) % Ring, ~(e = 5 /\ p = clock)
  PROVE  \/ Ahead(p, now') <= 7
         \/ p < now' /\ now' <= p + 4
         \/ p < now' + Ring /\ clock' <= p /\ now' < clock'
<1>1. now' = IF clock + e <= 15 THEN clock + e ELSE clock + e - 16
  BY Turns DEF Phases, Ring
<1>2. (p - clock) % 16 = IF p >= clock THEN p - clock ELSE p - clock + 16
  BY Turns DEF Phases
<1>3. now' \in Phases /\ (p - now') % 16 = IF p >= now' THEN p - now' ELSE p - now' + 16
  BY <1>1, Turns DEF Phases
<1>4. QED
  BY <1>1, <1>2, <1>3 DEF Ahead, Phases, Ring

\* A stride takes what is due to a phase that is on time, or still due.
LEMMA StrideOnTimeOrDue ==
  ASSUME clock \in Phases, now \in Phases, Advanced, NEW p \in Phases, ObjectTickIsDue(p),
         NEW s \in 1 .. 8
  PROVE  /\ (p + s) % Ring \in Phases
         /\ OnTime((p + s) % Ring) \/ ObjectTickIsDue((p + s) % Ring)
<1>1. PICK e \in 1 .. 5 : now = (clock + e) % 16
  BY DEF Advanced, Ring
<1>2. now = IF clock + e <= 15 THEN clock + e ELSE clock + e - 16
  BY <1>1, Turns DEF Phases
<1> DEFINE q == (p + s) % 16
<1>3. q = IF p + s <= 15 THEN p + s ELSE p + s - 16
  BY Turns DEF Phases
<1>4. q \in Phases
  BY <1>3 DEF Phases
<1> HIDE DEF q
<1>5. (q - now) % 16 = IF q >= now THEN q - now ELSE q - now + 16
  BY <1>4, Turns DEF Phases
<1>6. OnTime(q) \/ ObjectTickIsDue(q)
  BY <1>2, <1>3, <1>5 DEF OnTime, Ahead, ObjectTickIsDue, Phases, Ring
<1>7. QED
  BY <1>4, <1>6 DEF q, Ring

----------------------------------------------------------------------------
(* The inductive invariant.                                                *)

Types ==
  /\ list \in Seq(Mobiles) /\ Distinct(list)
  /\ phase \in [Mobiles -> Phases]
  /\ clock \in Phases /\ now \in Phases /\ cursor \in Nat
  /\ IF Sweeping THEN Advanced /\ current \in Listed ELSE now = clock

\* The visited object is at the index of the sweep, or will not be ticked again: it has
\* been put to the end of the list. A removal can take it away from the index, but only
\* when there was nobody behind it.
Placed ==
  \/ cursor <= Len(list) /\ list[cursor] = current
  \/ ~ObjectTickIsDue(phase[current])

\* Who is due and not excused is visited or waits behind the index.
DueIsAhead ==
  \A i \in 1 .. Len(list) :
    LET m == list[i]
    IN  m \notin excused =>
          \/ OnTime(phase[m])
          \/ ObjectTickIsDue(phase[m]) /\ (m = current \/ (i > cursor /\ Placed))

EverybodyOnTime == \A m \in Listed \ excused : OnTime(phase[m])

SweepInv ==
  /\ Types
  /\ IF Sweeping THEN DueIsAhead ELSE EverybodyOnTime

\* The same, entry by entry.
LEMMA EntriesOnTime ==
  ASSUME Types, \A i \in 1 .. Len(list) : list[i] \notin excused => OnTime(phase[list[i]])
  PROVE  EverybodyOnTime
BY SetOfList DEF Types, EverybodyOnTime, Listed

\* Between sweeps: a record is added on time or excused, one is removed.
LEMMA BetweenSweeps ==
  ASSUME SweepInv, ~Sweeping,
         \/ \E m \in Mobiles, p \in LoadedPhases \cup {0} : SpawnCreature(m, p)
         \/ \E m \in Mobiles, k \in Leads : PlaceObject(m, k)
         \/ \E m \in Mobiles : RemoveMobile(m)
  PROVE  SweepInv'
<1>1. /\ Types /\ EverybodyOnTime /\ now = clock /\ UNCHANGED <<clock, now, cursor, current>>
  BY DEF SweepInv, Types, SpawnCreature, PlaceObject, RemoveMobile, sweep
<1>2. ~Sweeping'
  BY <1>1 DEF Sweeping
<1>3. ASSUME NEW m \in Mobiles, m \notin Listed, NEW p \in Phases, Join(m, p),
             excused' \in {excused \cup {m}, excused \ {m}},
             OnTime(p) \/ m \in excused'
      PROVE  SweepInv'
  <2>1. /\ list' = Append(list, m) /\ list' \in Seq(Mobiles) /\ Distinct(list')
        /\ Listed' = Listed \cup {m}
    BY <1>1, <1>3, AppendFacts DEF Types, Join, Listed
  <2>2. /\ phase' \in [Mobiles -> Phases] /\ phase'[m] = p
        /\ \A t \in Mobiles \ {m} : phase'[t] = phase[t]
    BY <1>1, <1>3 DEF Types, Join
  <2>3. Types'
    BY <1>1, <1>2, <2>1, <2>2 DEF Types
  <2>4. Listed \subseteq Mobiles
    BY <1>1, SetOfList DEF Types, Listed
  <2>5. ASSUME NEW t \in Listed' \ excused' PROVE OnTime(phase[t])'
    <3>1. CASE t = m
      BY <1>1, <1>3, <2>2, <3>1 DEF OnTime
    <3>2. CASE t # m
      <4>1. t \in Listed \ excused /\ phase'[t] = phase[t]
        BY <1>3, <2>1, <2>2, <2>4, <2>5, <3>2
      <4>2. QED
        BY <1>1, <4>1 DEF EverybodyOnTime, OnTime
    <3>3. QED
      BY <3>1, <3>2
  <2>6. QED
    BY <1>2, <2>3, <2>5 DEF SweepInv, EverybodyOnTime, OnTime
<1>4. ASSUME NEW m \in Mobiles, NEW p \in LoadedPhases \cup {0}, SpawnCreature(m, p)
      PROVE  SweepInv'
  <2>1. p \in Phases
    BY MobileAssumption DEF Phases, Ring
  <2>2. m \notin Listed /\ Join(m, p) /\ excused' = excused \cup {m}
    BY <1>4 DEF SpawnCreature
  <2>3. QED
    BY <1>3, <2>1, <2>2
<1>5. ASSUME NEW m \in Mobiles, NEW k \in Leads, PlaceObject(m, k)
      PROVE  SweepInv'
  <2>1. k \in 0 .. 3
    BY MobileAssumption
  <2>2. (now + k) % Ring \in Phases /\ OnTime((now + k) % Ring)
    BY <1>1, <2>1, PlacedOnTime DEF Types
  <2>3. m \notin Listed /\ Join(m, (now + k) % Ring) /\ excused' = excused \ {m}
    BY <1>5 DEF PlaceObject
  <2>4. QED
    BY <1>3, <2>2, <2>3
<1>6. ASSUME NEW m \in Mobiles, RemoveMobile(m)
      PROVE  SweepInv'
  <2>1. m \in Listed /\ list' = Without(list, m) /\ UNCHANGED <<phase, excused>>
    BY <1>6 DEF RemoveMobile
  <2>2. list' \in Seq(Mobiles) /\ Distinct(list') /\ Listed' = Listed \ {m}
    BY <1>1, <2>1, WithoutFacts, WithoutSet DEF Types, Listed
  <2>3. Types'
    BY <1>1, <1>2, <2>1, <2>2 DEF Types
  <2>4. EverybodyOnTime'
    BY <1>1, <2>1, <2>2 DEF EverybodyOnTime, OnTime
  <2>5. QED
    BY <1>2, <2>3, <2>4 DEF SweepInv
<1>7. QED
  BY <1>4, <1>5, <1>6

\* As a sweep begins, who is not on time is due, or missed by a step of five units.
LEMMA SweepBegins ==
  ASSUME SweepInv, NEW e \in Elapsed, BeginSweep(e)
  PROVE  SweepInv'
<1>1. /\ Types /\ EverybodyOnTime /\ now = clock /\ ~Sweeping
      /\ now' = (clock + e) % Ring /\ excused' = excused \cup MissedBy(e)
      /\ UNCHANGED <<list, phase>>
  BY DEF SweepInv, Types, BeginSweep
<1>2. e \in 1 .. 5 /\ clock \in Phases /\ phase \in [Mobiles -> Phases] /\ list \in Seq(Mobiles)
  BY <1>1, MobileAssumption DEF Types
<1>3. now' \in Phases
  BY <1>1, <1>2, Turns DEF Phases, Ring
<1>4. CASE list = <<>>
  <2>1. clock' = now' /\ cursor' = cursor /\ cursor = 0
    BY <1>1, <1>4 DEF BeginSweep, Sweeping
  <2>2. Listed' = {}
    <3>1. list' = <<>> /\ ToSet(list) = {list[i] : i \in 1 .. 0}
      BY <1>1, <1>2, <1>4, SetOfList
    <3>2. QED
      BY <1>1, <3>1 DEF Listed
  <2>3. QED
    BY <1>1, <1>3, <2>1, <2>2 DEF SweepInv, Types, Sweeping, EverybodyOnTime
<1>5. CASE list # <<>>
  <2>1. cursor' = 1 /\ current' = list[1] /\ clock' = clock /\ Len(list) >= 1
    BY <1>1, <1>2, <1>5 DEF BeginSweep
  <2>2. Advanced'
    BY <1>1, <1>2, <2>1 DEF Advanced
  <2>3. Types' /\ Sweeping' /\ Placed'
    BY <1>1, <1>2, <1>3, <2>1, <2>2, SetOfList DEF Types, Sweeping, Listed, Placed
  <2>4. ASSUME NEW i \in 1 .. Len(list), list[i] \notin excused'
        PROVE  OnTime(phase[list[i]])' \/ ObjectTickIsDue(phase[list[i]])'
    <3>1. /\ list[i] \in Listed \ excused /\ list[i] \in Mobiles
          /\ ~(e = 5 /\ phase[list[i]] = clock)
      BY <1>1, <1>2, <2>4, SetOfList DEF Listed, MissedBy
    <3>2. phase[list[i]] \in Phases /\ Ahead(phase[list[i]], clock) <= 7
      BY <1>1, <1>2, <3>1 DEF EverybodyOnTime, OnTime
    <3>3. OnTime(phase[list[i]])' \/ ObjectTickIsDue(phase[list[i]])'
      BY <1>1, <1>2, <2>1, <3>1, <3>2, OnTimeOrDueNext DEF OnTime, ObjectTickIsDue
    <3>4. QED
      BY <3>3
  <2>5. \A i \in 1 .. Len(list) : i > cursor' \/ list[i] = current'
    BY <1>2, <2>1
  <2>6. DueIsAhead'
    BY <1>1, <2>3, <2>4, <2>5 DEF DueIsAhead
  <2>7. QED
    BY <2>3, <2>6 DEF SweepInv
<1>6. QED
  BY <1>4, <1>5
\* The visit that follows, or the end of the sweep: nobody before it is due.
LEMMA GoesOn ==
  ASSUME Types, Sweeping, NEW c \in Nat \ {0}, GoTo(c), phase' = phase,
         list' \in Seq(Mobiles), Distinct(list'),
         \A i \in 1 .. Len(list') : list'[i] \notin excused' =>
           \/ OnTime(phase[list'[i]])
           \/ ObjectTickIsDue(phase[list'[i]]) /\ i >= c
  PROVE  SweepInv'
<1>1. CASE c <= Len(list')
  <2>1. cursor' = c /\ current' = list'[c] /\ clock' = clock /\ now' = now
    BY <1>1 DEF GoTo
  <2>2. Sweeping' /\ Advanced' /\ current' \in Listed' /\ Placed'
    BY <1>1, <2>1, SetOfList DEF Types, Sweeping, Advanced, Listed, Placed
  <2>3. Types'
    BY <2>1, <2>2 DEF Types
  <2>4. ASSUME NEW i \in 1 .. Len(list'), list'[i] \notin excused', ~OnTime(phase[list'[i]])
        PROVE  ObjectTickIsDue(phase[list'[i]]) /\ (list'[i] = current' \/ i > cursor')
    <3>1. ObjectTickIsDue(phase[list'[i]]) /\ i >= c
      BY <2>4
    <3>2. CASE i = c
      BY <2>1, <3>1, <3>2
    <3>3. CASE i # c
      BY <2>1, <3>1, <3>3
    <3>4. QED
      BY <3>2, <3>3
  <2>5. DueIsAhead'
    BY <2>1, <2>2, <2>4 DEF DueIsAhead, OnTime, ObjectTickIsDue
  <2>6. QED
    BY <2>2, <2>3, <2>5 DEF SweepInv
<1>2. CASE ~(c <= Len(list'))
  <2>1. cursor' = 0 /\ clock' = now /\ now' = now
    BY <1>2 DEF GoTo
  <2>2. Types' /\ ~Sweeping'
    BY <2>1 DEF Types, Sweeping
  <2>3. Len(list') \in Nat
    OBVIOUS
  <2>4. ASSUME NEW i \in 1 .. Len(list'), list'[i] \notin excused'
        PROVE  OnTime(phase[list'[i]])
    BY <1>2, <2>3, <2>4
  <2>5. EverybodyOnTime'
    <3>1. ASSUME NEW m \in Listed' \ excused' PROVE OnTime(phase[m])
      <4>1. PICK i \in 1 .. Len(list') : list'[i] = m
        BY <3>1, SetOfList DEF Listed
      <4>2. QED
        BY <2>4, <3>1, <4>1
    <3>2. QED
      BY <2>1, <3>1 DEF EverybodyOnTime, OnTime
  <2>6. QED
    BY <2>2, <2>5 DEF SweepInv
<1>3. QED
  BY <1>1, <1>2

\* The visited object is not due, so it is on time, and the next one is visited.
LEMMA NextEntryKeeps ==
  ASSUME SweepInv, NextEntry
  PROVE  SweepInv'
<1>1. /\ Types /\ Sweeping /\ DueIsAhead /\ ~ObjectTickIsDue(phase[current])
      /\ UNCHANGED <<list, phase, excused>> /\ GoTo(cursor + 1)
  BY DEF SweepInv, NextEntry, Due
<1>2. cursor + 1 \in Nat \ {0} /\ cursor \in Nat
  BY <1>1 DEF Types
<1>3. ASSUME NEW i \in 1 .. Len(list), list[i] \notin excused
      PROVE  OnTime(phase[list[i]]) \/ (ObjectTickIsDue(phase[list[i]]) /\ i >= cursor + 1)
  BY <1>1, <1>2, <1>3 DEF DueIsAhead
<1>4. QED
  BY <1>1, <1>2, <1>3, GoesOn DEF Types

\* A tick adds a stride to the phase of the visited object and of no other.
LEMMA TickMovesKeeps ==
  ASSUME SweepInv, NEW s \in Strides, TickMoves(s)
  PROVE  SweepInv'
<1>1. /\ Types /\ Sweeping /\ DueIsAhead /\ ObjectTickIsDue(phase[current])
      /\ phase' = [phase EXCEPT ![current] = (phase[current] + s) % Ring]
      /\ excused' = excused \ {current}
      /\ UNCHANGED <<list, clock, now, cursor, current>>
  BY DEF SweepInv, TickMoves, Due, Stepped, sweep
<1>2. /\ list \in Seq(Mobiles) /\ Listed \subseteq Mobiles /\ current \in Mobiles
      /\ phase \in [Mobiles -> Phases] /\ clock \in Phases /\ now \in Phases /\ Advanced
      /\ s \in 1 .. 8
  <2>1. s \in 1 .. 8
    BY MobileAssumption DEF Strides
  <2>2. list \in Seq(Mobiles) /\ current \in Listed
    BY <1>1 DEF Types
  <2>3. Listed \subseteq Mobiles
    BY <2>2, SetOfList DEF Listed
  <2>4. QED
    BY <1>1, <2>1, <2>2, <2>3 DEF Types
<1> DEFINE q == (phase[current] + s) % Ring
<1>3. q \in Phases /\ (OnTime(q) \/ ObjectTickIsDue(q))
  BY <1>1, <1>2, StrideOnTimeOrDue
<1> HIDE DEF q
<1>4. /\ phase' \in [Mobiles -> Phases] /\ phase'[current] = q
      /\ \A m \in Mobiles \ {current} : phase'[m] = phase[m]
  BY <1>1, <1>2, <1>3 DEF q
<1>5. Types' /\ Sweeping'
  BY <1>1, <1>2, <1>4 DEF Types, Sweeping, Advanced, Listed
<1>6. Placed => cursor <= Len(list) /\ list[cursor] = current
  BY <1>1 DEF Placed
<1>7. ASSUME NEW i \in 1 .. Len(list), list[i] \notin excused'
      PROVE  \/ OnTime(phase'[list[i]])
             \/ /\ ObjectTickIsDue(phase'[list[i]])
                /\ list[i] = current \/ (i > cursor /\ Placed)
  <2>1. CASE list[i] = current
    BY <1>3, <1>4, <2>1
  <2>2. CASE list[i] # current
    <3>1. list[i] \in Mobiles /\ phase'[list[i]] = phase[list[i]] /\ list[i] \notin excused
      BY <1>1, <1>2, <1>4, <1>7, <2>2
    <3>2. QED
      BY <1>1, <2>2, <3>1 DEF DueIsAhead
  <2>3. QED
    BY <2>1, <2>2
<1>8. Placed => Placed'
  BY <1>1, <1>6 DEF Placed
<1>9. DueIsAhead'
  BY <1>1, <1>7, <1>8 DEF DueIsAhead, OnTime, ObjectTickIsDue
<1>10. QED
  BY <1>5, <1>9 DEF SweepInv

\* What is thrown in mid-tick is on time.
LEMMA ThrowKeeps ==
  ASSUME SweepInv, NEW m \in Mobiles, NEW k \in Leads, ThrowObject(m, k)
  PROVE  SweepInv'
<1>1. /\ Types /\ Sweeping /\ DueIsAhead /\ ObjectTickIsDue(phase[current]) /\ m \notin Listed
      /\ list' = Append(list, m) /\ phase' = [phase EXCEPT ![m] = (now + k) % Ring]
      /\ excused' = excused \ {m}
      /\ UNCHANGED <<clock, now, cursor, current>>
  BY DEF SweepInv, ThrowObject, Due, Join, sweep
<1>2. /\ list \in Seq(Mobiles) /\ Distinct(list) /\ current \in Listed
      /\ phase \in [Mobiles -> Phases] /\ clock \in Phases /\ now \in Phases /\ cursor \in Nat
  BY <1>1 DEF Types
<1>3. k \in 0 .. 3
  BY MobileAssumption
<1> DEFINE p == (now + k) % Ring
<1>4. p \in Phases /\ OnTime(p)
  BY <1>2, <1>3, PlacedOnTime
<1> HIDE DEF p
<1>5. /\ phase' \in [Mobiles -> Phases] /\ phase'[m] = p
      /\ \A t \in Mobiles \ {m} : phase'[t] = phase[t]
  BY <1>1, <1>2, <1>4 DEF p
<1>6. /\ list' \in Seq(Mobiles) /\ Len(list') = Len(list) + 1 /\ Len(list) \in Nat
      /\ \A i \in 1 .. Len(list) : list'[i] = list[i]
      /\ list'[Len(list) + 1] = m /\ Distinct(list') /\ Listed' = Listed \cup {m}
  BY <1>1, <1>2, AppendFacts DEF Listed
<1>7. current # m /\ current \in Mobiles /\ phase'[current] = phase[current]
  BY <1>1, <1>2, <1>5, SetOfList DEF Listed
<1>8. Types' /\ Sweeping'
  BY <1>1, <1>2, <1>5, <1>6 DEF Types, Sweeping, Advanced
<1>9. cursor >= 1
  BY <1>1, <1>2 DEF Sweeping
<1>10. Placed => Placed'
  BY <1>1, <1>2, <1>6, <1>9 DEF Placed
<1>11. ASSUME NEW i \in 1 .. Len(list'), list'[i] \notin excused'
       PROVE  \/ OnTime(phase'[list'[i]])
              \/ /\ ObjectTickIsDue(phase'[list'[i]])
                 /\ list'[i] = current \/ (i > cursor /\ Placed)
  <2>1. CASE i = Len(list) + 1
    BY <1>4, <1>5, <1>6, <2>1
  <2>2. CASE i # Len(list) + 1
    <3>1. i \in 1 .. Len(list) /\ list'[i] = list[i] /\ list[i] \in Listed
      BY <1>2, <1>6, <2>2, SetOfList DEF Listed
    <3>2. list[i] # m /\ list[i] \in Mobiles /\ list[i] \notin excused
      BY <1>1, <1>2, <1>11, <3>1, SetOfList DEF Listed
    <3>3. phase'[list[i]] = phase[list[i]]
      BY <1>5, <3>2
    <3>4. QED
      BY <1>1, <3>1, <3>2, <3>3 DEF DueIsAhead
  <2>3. QED
    BY <2>1, <2>2
<1>12. DueIsAhead'
  BY <1>1, <1>10, <1>11 DEF DueIsAhead, OnTime, ObjectTickIsDue
<1>13. QED
  BY <1>8, <1>12 DEF SweepInv

\* While an object is ticked, who else is due waits behind the index where it stands.
LEMMA OthersWait ==
  ASSUME SweepInv, Due
  PROVE  /\ Types /\ Sweeping /\ current \in Listed
         /\ \A i \in 1 .. Len(list) :
              list[i] \notin excused /\ list[i] # current =>
                \/ OnTime(phase[list[i]])
                \/ /\ ObjectTickIsDue(phase[list[i]]) /\ i > cursor
                   /\ cursor <= Len(list) /\ list[cursor] = current
         /\ current \notin excused =>
              OnTime(phase[current]) \/ ObjectTickIsDue(phase[current])
<1>1. Types /\ Sweeping /\ DueIsAhead /\ current \in Listed /\ ObjectTickIsDue(phase[current])
  BY DEF SweepInv, Due, Types
<1>2. QED
  BY <1>1 DEF DueIsAhead, Placed

\* The entry that fills a gap before the index is excused: it has been passed.
LEMMA FreeOtherKeeps ==
  ASSUME SweepInv, NEW m \in Mobiles, FreeOther(m)
  PROVE  SweepInv'
<1>1. /\ Due /\ m \in Listed /\ m # current /\ list' = Without(list, m)
      /\ excused' = excused \cup (Overtaken(list, m, cursor) \ {current})
      /\ UNCHANGED <<phase, clock, now, cursor, current>>
  BY DEF FreeOther, sweep
<1>2. /\ Types /\ Sweeping /\ current \in Listed
      /\ list \in Seq(Mobiles) /\ Distinct(list) /\ cursor \in Nat \ {0} /\ Len(list) \in Nat
  BY <1>1, OthersWait, SetOfList DEF Types, Sweeping
<1> DEFINE k == IndexIn(list, m)
<1>3. k \in 1 .. Len(list) /\ list[k] = m
  BY <1>1, <1>2, IndexFacts DEF Listed
<1>4. /\ list' \in Seq(Mobiles) /\ Len(list') = Len(list) - 1
      /\ \A i \in 1 .. Len(list) - 1 : list'[i] = list[IF i = k THEN Len(list) ELSE i]
      /\ Distinct(list') /\ Listed' = Listed \ {m}
  BY <1>1, <1>2, WithoutFacts, WithoutSet DEF Listed
<1>5. k < cursor /\ cursor <= Len(list) /\ list[Len(list)] \notin {m, current} =>
        list[Len(list)] \in excused'
  BY <1>1 DEF Overtaken, Last
<1> HIDE DEF k
<1>6. Types' /\ Sweeping'
  BY <1>1, <1>2, <1>4 DEF Types, Sweeping, Advanced
<1>7. ASSUME NEW i \in 1 .. Len(list'), list'[i] \notin excused', list'[i] # current,
             ~OnTime(phase[list'[i]])
      PROVE  /\ ObjectTickIsDue(phase[list'[i]]) /\ i > cursor
             /\ cursor <= Len(list') /\ list'[cursor] = current
  <2> DEFINE j == IF i = k THEN Len(list) ELSE i
  <2>1. j \in 1 .. Len(list) /\ list'[i] = list[j] /\ i \in 1 .. Len(list) - 1
    BY <1>2, <1>3, <1>4
  <2>2. list[j] \notin excused
    BY <1>1, <1>7, <2>1
  <2>3. /\ ObjectTickIsDue(phase[list[j]]) /\ j > cursor
        /\ cursor <= Len(list) /\ list[cursor] = current
    BY <1>1, <1>7, <2>1, <2>2, OthersWait
  <2>4. cursor # k
    BY <1>1, <1>3, <2>3
  <2>5. i > cursor
    <3>1. CASE i = k
      <4>1. list[Len(list)] # m
        BY <1>2, <1>3, <1>4, <2>1, <3>1 DEF Distinct
      <4>2. ~(k < cursor)
        BY <1>5, <1>7, <2>1, <2>3, <3>1, <4>1
      <4>3. QED
        BY <1>2, <1>3, <2>4, <3>1, <4>2
    <3>2. CASE i # k
      BY <2>3, <3>2
    <3>3. QED
      BY <3>1, <3>2
  <2>6. cursor \in 1 .. Len(list) - 1
    BY <1>2, <2>1, <2>5
  <2>7. list'[cursor] = current
    BY <1>4, <2>3, <2>4, <2>6
  <2>8. QED
    BY <1>4, <2>1, <2>3, <2>5, <2>6, <2>7
<1>8. current \notin excused' => OnTime(phase[current]) \/ ObjectTickIsDue(phase[current])
  BY <1>1, OthersWait
<1>9. DueIsAhead'
  <2>1. ASSUME NEW i \in 1 .. Len(list'), list'[i] \notin excused', ~OnTime(phase[list'[i]])
        PROVE  /\ ObjectTickIsDue(phase[list'[i]])
               /\ \/ list'[i] = current
                  \/ i > cursor /\ cursor <= Len(list') /\ list'[cursor] = current
    BY <1>7, <1>8, <2>1
  <2>2. QED
    BY <1>1, <2>1 DEF DueIsAhead, OnTime, ObjectTickIsDue, Placed
<1>10. QED
  BY <1>6, <1>9 DEF SweepInv

\* The same index is visited again, and has the last entry if that was behind it.
LEMMA TickLeavesKeeps ==
  ASSUME SweepInv, TickLeaves
  PROVE  SweepInv'
<1>1. /\ Due /\ list' = Without(list, current) /\ GoTo(cursor) /\ UNCHANGED <<phase, excused>>
  BY DEF TickLeaves
<1>2. /\ Types /\ Sweeping /\ current \in Listed
      /\ list \in Seq(Mobiles) /\ Distinct(list) /\ cursor \in Nat \ {0} /\ Len(list) \in Nat
  BY <1>1, OthersWait, SetOfList DEF Types, Sweeping
<1> DEFINE k == IndexIn(list, current)
<1>3. k \in 1 .. Len(list) /\ list[k] = current
  BY <1>1, <1>2, IndexFacts DEF Listed
<1>4. /\ list' \in Seq(Mobiles) /\ Len(list') = Len(list) - 1
      /\ \A i \in 1 .. Len(list) - 1 : list'[i] = list[IF i = k THEN Len(list) ELSE i]
      /\ Distinct(list') /\ Listed' = Listed \ {current}
  BY <1>1, <1>2, WithoutFacts, WithoutSet DEF Listed
<1> HIDE DEF k
<1>5. ASSUME NEW i \in 1 .. Len(list'), list'[i] \notin excused'
      PROVE  \/ OnTime(phase[list'[i]])
             \/ ObjectTickIsDue(phase[list'[i]]) /\ i >= cursor
  <2> DEFINE j == IF i = k THEN Len(list) ELSE i
  <2>1. j \in 1 .. Len(list) /\ list'[i] = list[j] /\ list[j] # current
    BY <1>2, <1>3, <1>4, SetOfList DEF Listed
  <2>2. \/ OnTime(phase[list[j]])
        \/ /\ ObjectTickIsDue(phase[list[j]]) /\ j > cursor
           /\ cursor <= Len(list) /\ list[cursor] = current
    BY <1>1, <1>5, <2>1, OthersWait
  <2>3. CASE j > cursor /\ cursor <= Len(list) /\ list[cursor] = current
    <3>1. cursor = k
      BY <1>2, <1>3, <2>3 DEF Distinct
    <3>2. i >= cursor
      <4>1. cursor \in Nat /\ i \in Nat
        BY <1>2, <1>4
      <4>2. QED
        BY <2>3, <3>1, <4>1
    <3>3. QED
      BY <2>1, <2>2, <3>2
  <2>4. QED
    BY <2>1, <2>2, <2>3
<1>6. QED
  BY <1>1, <1>2, <1>4, <1>5, GoesOn

\* The object is on time at the end of the list; who came to its place has been passed.
LEMMA TickFallsKeeps ==
  ASSUME SweepInv, TickSettlesAndFalls
  PROVE  SweepInv'
<1>1. /\ Due /\ list' = Append(Without(list, current), current)
      /\ phase' = [phase EXCEPT ![current] = (now + 1 + 2) % Ring]
      /\ excused' = (excused \ {current}) \cup Overtaken(list, current, cursor + 1)
      /\ UNCHANGED <<clock, now, cursor, current>>
  BY DEF TickSettlesAndFalls, sweep
<1>2. /\ Types /\ Sweeping /\ current \in Listed /\ current \in Mobiles
      /\ list \in Seq(Mobiles) /\ Distinct(list) /\ cursor \in Nat \ {0} /\ Len(list) \in Nat
      /\ phase \in [Mobiles -> Phases] /\ clock \in Phases /\ now \in Phases /\ Advanced
  BY <1>1, OthersWait, SetOfList DEF Types, Sweeping, Listed
<1> DEFINE k == IndexIn(list, current)
           W == Without(list, current)
<1>3. k \in 1 .. Len(list) /\ list[k] = current
  BY <1>1, <1>2, IndexFacts DEF Listed
<1>4. /\ W \in Seq(Mobiles) /\ Len(W) = Len(list) - 1
      /\ \A i \in 1 .. Len(list) - 1 : W[i] = list[IF i = k THEN Len(list) ELSE i]
      /\ Distinct(W) /\ ToSet(W) = Listed \ {current}
  BY <1>1, <1>2, WithoutFacts, WithoutSet DEF Listed
<1>5. k < cursor + 1 /\ cursor + 1 <= Len(list) /\ list[Len(list)] # current =>
        list[Len(list)] \in excused'
  BY <1>1 DEF Overtaken, Last
<1>6. list' = Append(W, current)
  BY <1>1
<1> HIDE DEF k, W
<1>7. /\ list' \in Seq(Mobiles) /\ Len(list') = Len(list)
      /\ \A i \in 1 .. Len(list) - 1 : list'[i] = W[i]
      /\ list'[Len(list)] = current /\ Distinct(list') /\ Listed' = Listed
  <2>1. current \notin ToSet(W)
    BY <1>4
  <2>2. /\ list' \in Seq(Mobiles) /\ Len(list') = Len(W) + 1
        /\ \A i \in 1 .. Len(W) : list'[i] = W[i]
        /\ list'[Len(W) + 1] = current
        /\ Distinct(list') /\ ToSet(list') = ToSet(W) \cup {current}
    BY <1>2, <1>4, <1>6, <2>1, AppendFacts
  <2>3. Len(list) - 1 + 1 = Len(list)
    BY <1>2
  <2>4. QED
    BY <1>2, <1>4, <2>2, <2>3 DEF Listed
<1> DEFINE p == (now + 3) % Ring
<1>8. p \in Phases /\ OnTime(p) /\ ~ObjectTickIsDue(p)
  BY <1>2, PlacedOnTime
<1>9. phase' = [phase EXCEPT ![current] = p]
  <2>1. now + 1 + 2 = now + 3
    BY <1>2 DEF Phases
  <2>2. QED
    BY <1>1, <2>1
<1> HIDE DEF p
<1>10. /\ phase' \in [Mobiles -> Phases] /\ phase'[current] = p
       /\ \A m \in Mobiles \ {current} : phase'[m] = phase[m]
  BY <1>2, <1>8, <1>9
<1>11. Types' /\ Sweeping'
  BY <1>1, <1>2, <1>7, <1>10 DEF Types, Sweeping, Advanced
<1>12. Placed'
  BY <1>1, <1>8, <1>10 DEF Placed, ObjectTickIsDue
<1>13. ASSUME NEW i \in 1 .. Len(list'), list'[i] \notin excused'
       PROVE  \/ OnTime(phase'[list'[i]])
              \/ ObjectTickIsDue(phase'[list'[i]]) /\ i > cursor
  <2>1. CASE i = Len(list)
    BY <1>7, <1>8, <1>10, <2>1
  <2>2. CASE i # Len(list)
    <3> DEFINE j == IF i = k THEN Len(list) ELSE i
    <3>1. i \in 1 .. Len(list) - 1 /\ j \in 1 .. Len(list) /\ list'[i] = list[j]
      BY <1>3, <1>4, <1>7, <2>2
    <3>2. list[j] # current /\ list[j] \in Mobiles
      BY <1>2, <1>3, <3>1, SetOfList DEF Distinct
    <3>3. list[j] \notin excused /\ phase'[list'[i]] = phase[list[j]]
      BY <1>1, <1>10, <1>13, <3>1, <3>2
    <3>4. \/ OnTime(phase[list[j]])
          \/ /\ ObjectTickIsDue(phase[list[j]]) /\ j > cursor
             /\ cursor <= Len(list) /\ list[cursor] = current
      BY <1>1, <3>1, <3>2, <3>3, OthersWait
    <3>5. CASE j > cursor /\ cursor <= Len(list) /\ list[cursor] = current
      <4>1. cursor = k
        BY <1>2, <1>3, <3>5 DEF Distinct
      <4>2. i # k
        <5>1. SUFFICES ASSUME i = k PROVE FALSE
          OBVIOUS
        <5>2. j = Len(list) /\ cursor + 1 <= Len(list) /\ k < cursor + 1
          BY <1>2, <3>5, <4>1, <5>1
        <5>3. list[j] \in excused'
          BY <1>5, <3>2, <5>2
        <5>4. QED
          BY <1>13, <3>1, <5>3
      <4>3. i > cursor
        BY <3>5, <4>2
      <4>4. QED
        BY <3>3, <3>4, <4>3
    <3>6. QED
      BY <3>3, <3>4, <3>5
  <2>3. QED
    BY <2>1, <2>2
<1>14. DueIsAhead'
  BY <1>1, <1>12, <1>13 DEF DueIsAhead, OnTime, ObjectTickIsDue
<1>15. QED
  BY <1>11, <1>14 DEF SweepInv

\* Every step keeps the invariant.
LEMMA NextSweepInv ==
  ASSUME SweepInv, [Next]_vars
  PROVE  SweepInv'
<1>1. CASE UNCHANGED vars
  <2>1. UNCHANGED <<list, phase, clock, now, cursor, current, excused>>
    BY <1>1 DEF vars, sweep
  <2>2. QED
    BY <2>1 DEF SweepInv, Types, DueIsAhead, EverybodyOnTime, Placed, Advanced, Sweeping, Listed,
       OnTime, ObjectTickIsDue
<1>2. ASSUME NEW m \in Mobiles, RemoveMobile(m) PROVE SweepInv'
  BY <1>2, BetweenSweeps DEF RemoveMobile
<1>3. ASSUME NEW m \in Mobiles, NEW p \in LoadedPhases \cup {0}, SpawnCreature(m, p)
      PROVE  SweepInv'
  BY <1>3, BetweenSweeps DEF SpawnCreature
<1>4. ASSUME NEW m \in Mobiles, NEW k \in Leads, PlaceObject(m, k) PROVE SweepInv'
  BY <1>4, BetweenSweeps DEF PlaceObject
<1>5. QED
  BY <1>1, <1>2, <1>3, <1>4, SweepBegins, NextEntryKeeps, TickMovesKeeps, ThrowKeeps,
     FreeOtherKeeps, TickLeavesKeeps, TickFallsKeeps DEF Next, Visit, Tick

\* The invariant of the sweep.
THEOREM SweepInvariant == Spec => []SweepInv
<1>1. Init => SweepInv
  <2> SUFFICES ASSUME Init PROVE SweepInv
    OBVIOUS
  <2>1. list \in Seq(Mobiles) /\ Distinct(list)
    <3>1. PICK n \in 0 .. 2 : list \in [1 .. n -> Mobiles]
      BY DEF Init, SeqOf
    <3>2. list \in Seq(Mobiles) /\ Len(list) = n /\ DOMAIN list = 1 .. n
      BY <3>1
    <3>3. QED
      BY <3>2 DEF Init, IsInjective, Distinct
  <2>2. phase \in [Mobiles -> Phases]
    <3>1. LoadedPhases \subseteq Phases
      BY MobileAssumption DEF Phases, Ring
    <3>2. QED
      BY <3>1 DEF Init
  <2>3. ~Sweeping /\ Types
    BY <2>1, <2>2 DEF Init, Types, Sweeping, Phases
  <2>4. EverybodyOnTime
    BY <2>1, SetOfList DEF Init, EverybodyOnTime, Listed
  <2>5. QED
    BY <2>3, <2>4 DEF SweepInv
<1>2. SweepInv /\ [Next]_vars => SweepInv'
  BY NextSweepInv
<1>3. QED
  BY <1>1, <1>2, PTL DEF Spec

\* After a sweep nobody on the list is late, for any number of creatures and flying
\* objects that move, fall, are thrown or are freed in the middle of it, but those that
\* a file, a creation, a removal or a step of five units has made so
\* (tick_mobile_objects, object_tick_is_due).
THEOREM NobodyIsLate == Spec => []NobodyLate
<1>1. SweepInv => NobodyLate
  BY DEF SweepInv, Types, EverybodyOnTime, OnTime, NobodyLate
<1>2. QED
  BY <1>1, SweepInvariant, PTL

----------------------------------------------------------------------------
(* The pass that brings a level to rest.                                   *)

\* The list and what is known of its objects.
SettleLists ==
  /\ list \in Seq(Mobiles) /\ Distinct(list)
  /\ creatures \subseteq Listed /\ temporary \subseteq creatures

\* The visited entry is at the index, or it flies and has been moved before the index,
\* which is then past the end.
AtIndex ==
  /\ passObject \in Listed
  /\ \/ passIndex <= Len(list) /\ list[passIndex] = passObject
     \/ passIndex > Len(list) /\ passObject \notin creatures

\* The pass has reached m and m stays, or a removal has taken m past the index.
Reached(m) == m \in passedOver \/ (m \in visited /\ m \notin temporary)

\* All but the visited entry have been reached before the index, and none behind it.
BeforeIndex ==
  \A i \in 1 .. Len(list) :
    /\ i < passIndex /\ list[i] # passObject => Reached(list[i])
    /\ list[i] \in visited => i < passIndex /\ list[i] # passObject

SettleInv ==
  /\ SettleLists /\ passIndex \in Nat
  /\ Passing => AtIndex /\ BeforeIndex

\* Nobody is left who flies, whom a trap made, or whom the pass did not reach.
AllReached == \A m \in Listed : Reached(m)

\* The visit that follows, or the end of the pass.
LEMMA PassGoesOn ==
  ASSUME NEW c \in Nat \ {0}, PassGoTo(c), SettleLists',
         \A i \in 1 .. Len(list') : i < c => Reached(list[i])',
         \A i \in 1 .. Len(list') : list'[i] \in visited' => i < c
  PROVE  SettleInv' /\ (passIndex' = 0 => AllReached')
<1>1. list' \in Seq(Mobiles) /\ Distinct(list') /\ Len(list') \in Nat
  BY SetOfList DEF SettleLists
<1>2. CASE c <= Len(list')
  <2>1. passIndex' = c /\ passObject' = list'[c] /\ c \in 1 .. Len(list')
    BY <1>1, <1>2 DEF PassGoTo
  <2>2. AtIndex'
    BY <1>1, <1>2, <2>1, SetOfList DEF AtIndex, Listed
  <2>3. ASSUME NEW i \in 1 .. Len(list') PROVE list'[i] \in visited' => list'[i] # passObject'
    <3>1. i < c => list'[i] # list'[c]
      BY <1>1, <2>1 DEF Distinct
    <3>2. QED
      BY <2>1, <3>1
  <2>4. BeforeIndex'
    BY <2>1, <2>3 DEF BeforeIndex
  <2>5. QED
    BY <2>1, <2>2, <2>4 DEF SettleInv
<1>3. CASE ~(c <= Len(list'))
  <2>1. passIndex' = 0
    BY <1>3 DEF PassGoTo
  <2>2. ASSUME NEW i \in 1 .. Len(list') PROVE Reached(list[i])'
    BY <1>1, <1>3
  <2>3. \A m \in Listed' : \E i \in 1 .. Len(list') : m = list'[i]
    BY <1>1, SetOfList DEF Listed
  <2>4. AllReached'
    BY <2>2, <2>3 DEF AllReached, Reached
  <2>5. QED
    BY <2>1, <2>4 DEF SettleInv, Passing
<1>4. QED
  BY <1>2, <1>3

\* An entry is taken off the list, where it stands and what takes its place.
LEMMA TakenOff ==
  ASSUME SettleLists, NEW m \in Listed, TakeOff(m)
  PROVE  /\ SettleLists' /\ Listed' = Listed \ {m}
         /\ creatures' = creatures \ {m} /\ temporary' = temporary \ {m}
         /\ IndexIn(list, m) \in 1 .. Len(list) /\ list[IndexIn(list, m)] = m
         /\ Len(list) \in Nat \ {0} /\ Len(list') = Len(list) - 1
         /\ \A i \in 1 .. Len(list) - 1 :
              list'[i] = list[IF i = IndexIn(list, m) THEN Len(list) ELSE i]
<1>1. /\ list' = Without(list, m) /\ creatures' = creatures \ {m}
      /\ temporary' = temporary \ {m}
  BY DEF TakeOff
<1>2. list \in Seq(Mobiles) /\ Distinct(list) /\ m \in ToSet(list)
  BY DEF SettleLists, Listed
<1>3. IndexIn(list, m) \in 1 .. Len(list) /\ list[IndexIn(list, m)] = m /\ Len(list) \in Nat
  BY <1>2, IndexFacts, SetOfList
<1>4. /\ list' \in Seq(Mobiles) /\ Len(list') = Len(list) - 1
      /\ \A i \in 1 .. Len(list) - 1 :
           list'[i] = list[IF i = IndexIn(list, m) THEN Len(list) ELSE i]
      /\ Distinct(list') /\ ToSet(list') = ToSet(list) \ {m}
  BY <1>1, <1>2, WithoutFacts, WithoutSet
<1>5. SettleLists' /\ Listed' = Listed \ {m}
  BY <1>1, <1>4 DEF SettleLists, Listed
<1>6. QED
  BY <1>1, <1>3, <1>4, <1>5

\* What a removal leaves reached, it leaves reached.
LEMMA ReachedStays ==
  ASSUME NEW m, Reached(m), temporary' \subseteq temporary, passedOver \subseteq passedOver',
         visited \subseteq visited'
  PROVE  m \in passedOver' \/ (m \in visited' /\ m \notin temporary')
BY DEF Reached

\* Between passes only the lists matter.
LEMMA BetweenPasses ==
  ASSUME SettleInv, ~Passing,
         \/ \E m \in Mobiles : ObjectThrown(m) \/ MobileRemoved(m)
         \/ \E m \in Mobiles, byTrap \in BOOLEAN : CreatureMade(m, byTrap)
  PROVE  SettleInv' /\ ~Passing'
<1>1. passIndex' = passIndex /\ passIndex = 0 /\ SettleLists
  BY DEF ObjectThrown, MobileRemoved, CreatureMade, place, Passing,
     SettleInv
<1>2. ASSUME NEW m \in Mobiles, m \notin Listed, list' = Append(list, m),
             creatures' \subseteq creatures \cup {m}, temporary' \subseteq creatures'
      PROVE  SettleLists'
  <2>1. /\ list' \in Seq(Mobiles) /\ Distinct(list') /\ ToSet(list') = ToSet(list) \cup {m}
    BY <1>1, <1>2, AppendFacts DEF SettleLists, Listed
  <2>2. QED
    BY <1>1, <1>2, <2>1 DEF SettleLists, Listed
<1>3. ASSUME NEW m \in Mobiles, ObjectThrown(m) PROVE SettleLists'
  BY <1>1, <1>2, <1>3 DEF ObjectThrown, kinds, SettleLists
<1>4. ASSUME NEW m \in Mobiles, NEW byTrap \in BOOLEAN, CreatureMade(m, byTrap)
      PROVE  SettleLists'
  BY <1>1, <1>2, <1>4 DEF CreatureMade, SettleLists
<1>5. ASSUME NEW m \in Mobiles, MobileRemoved(m) PROVE SettleLists'
  BY <1>1, <1>5, TakenOff DEF MobileRemoved
<1>6. SettleLists'
  BY <1>3, <1>4, <1>5
<1>7. QED
  BY <1>1, <1>6 DEF SettleInv, Passing

\* What a visit or a removal of the pass leaves true, and what it promises.
StepKept ==
  /\ SettleInv'
  /\ PassEnds => AllReached'
  /\ VisitCreature => passObject \notin visited

LEMMA PassBegins ==
  ASSUME SettleInv, BeginPass
  PROVE  StepKept
<1>1. /\ ~Passing /\ list # <<>> /\ passIndex' = 1 /\ passObject' = list[1] /\ visited' = {}
      /\ UNCHANGED <<list, creatures, temporary>>
  BY DEF BeginPass, Passing, kinds
<1>2. SettleLists /\ list \in Seq(Mobiles) /\ Len(list) \in Nat \ {0}
  BY <1>1, SetOfList DEF SettleInv, SettleLists
<1>3. SettleLists' /\ AtIndex' /\ BeforeIndex'
  BY <1>1, <1>2, SetOfList DEF SettleLists, AtIndex, BeforeIndex, Listed
<1>4. ~PassEnds
  BY <1>1 DEF PassEnds
<1>5. ~VisitCreature
  BY <1>1 DEF VisitCreature, Passing
<1>6. QED
  BY <1>1, <1>3, <1>4, <1>5 DEF StepKept, SettleInv

\* The state of a pass.
LEMMA PassState ==
  ASSUME SettleInv, Passing
  PROVE  /\ SettleLists /\ list \in Seq(Mobiles) /\ Distinct(list)
         /\ passObject \in Listed /\ Len(list) \in Nat \ {0} /\ passIndex \in Nat \ {0}
         /\ AtIndex /\ BeforeIndex
<1>1. SettleLists /\ AtIndex /\ BeforeIndex /\ passIndex \in Nat \ {0} /\ passObject \in Listed
  BY DEF SettleInv, Passing, AtIndex
<1>2. list \in Seq(Mobiles) /\ Distinct(list)
  BY <1>1 DEF SettleLists
<1>3. \E i \in 1 .. Len(list) : list[i] = passObject
  BY <1>1, <1>2, SetOfList DEF Listed
<1>4. QED
  BY <1>1, <1>2, <1>3, SetOfList

\* A creature takes its step and stays.
LEMMA VisitCreatureKeeps ==
  ASSUME SettleInv, VisitCreature
  PROVE  StepKept
<1>1. /\ Passing /\ passObject \in creatures /\ passObject \notin temporary
      /\ visited' = visited \cup {passObject}
      /\ UNCHANGED <<list, creatures, temporary, passedOver>> /\ PassGoTo(passIndex + 1)
  BY DEF VisitCreature, kinds
<1>2. /\ SettleLists /\ list \in Seq(Mobiles) /\ Distinct(list) /\ Len(list) \in Nat
      /\ passIndex \in Nat \ {0} /\ BeforeIndex
      /\ passIndex <= Len(list) /\ list[passIndex] = passObject
  BY <1>1, PassState DEF AtIndex
<1>3. passObject \notin visited
  BY <1>2 DEF BeforeIndex
<1>4. SettleLists'
  BY <1>1, <1>2 DEF SettleLists, Listed
<1>5. ASSUME NEW i \in 1 .. Len(list), i < passIndex + 1 PROVE Reached(list[i])'
  <2>1. CASE list[i] = passObject
    BY <1>1, <2>1 DEF Reached
  <2>2. CASE list[i] # passObject
    <3>1. i # passIndex
      BY <1>2, <2>2
    <3>2. i < passIndex
      BY <1>2, <1>5, <3>1
    <3>3. Reached(list[i])
      BY <1>2, <2>2, <3>2 DEF BeforeIndex
    <3>4. QED
      BY <1>1, <3>3 DEF Reached
  <2>3. QED
    BY <2>1, <2>2
<1>6. ASSUME NEW i \in 1 .. Len(list), list[i] \in visited' PROVE i < passIndex + 1
  <2>1. CASE list[i] = passObject
    BY <1>2, <2>1 DEF Distinct
  <2>2. CASE list[i] # passObject
    BY <1>1, <1>2, <1>6, <2>2 DEF BeforeIndex
  <2>3. QED
    BY <2>1, <2>2
<1>7. SettleInv' /\ (passIndex' = 0 => AllReached')
  <2>1. passIndex + 1 \in Nat \ {0}
    BY <1>2
  <2>2. QED
    BY <1>1, <1>4, <1>5, <1>6, <2>1, PassGoesOn
<1>8. QED
  BY <1>3, <1>7 DEF StepKept, PassEnds

\* The entry that comes to the place of a creature taken away is passed over.
LEMMA VisitTemporaryKeeps ==
  ASSUME SettleInv, VisitTemporary
  PROVE  StepKept
<1>1. /\ Passing /\ passObject \in temporary /\ TakeOff(passObject)
      /\ passedOver' = passedOver \cup Overtaken(list, passObject, passIndex + 1)
      /\ visited' = visited /\ PassGoTo(passIndex + 1)
  BY DEF VisitTemporary
<1>2. /\ SettleLists /\ list \in Seq(Mobiles) /\ Distinct(list) /\ Len(list) \in Nat
      /\ passIndex \in Nat \ {0} /\ BeforeIndex /\ passObject \in Listed
      /\ passIndex <= Len(list) /\ list[passIndex] = passObject
  BY <1>1, PassState DEF AtIndex, SettleLists
<1> DEFINE k == IndexIn(list, passObject)
<1>3. /\ SettleLists' /\ temporary' \subseteq temporary
      /\ k \in 1 .. Len(list) /\ list[k] = passObject
      /\ Len(list') = Len(list) - 1
      /\ \A i \in 1 .. Len(list) - 1 : list'[i] = list[IF i = k THEN Len(list) ELSE i]
  BY <1>1, <1>2, TakenOff
<1>4. k < passIndex + 1 /\ passIndex + 1 <= Len(list) /\ list[Len(list)] # passObject =>
        list[Len(list)] \in passedOver'
  BY <1>1 DEF Overtaken, Last
<1> HIDE DEF k
<1>5. k = passIndex
  BY <1>2, <1>3 DEF Distinct
<1>6. ASSUME NEW i \in 1 .. Len(list'), i < passIndex + 1 PROVE Reached(list[i])'
  <2>1. CASE i = passIndex
    <3>1. list'[i] = list[Len(list)] /\ i \in 1 .. Len(list) - 1
      BY <1>2, <1>3, <1>5, <2>1
    <3>2. list[Len(list)] # passObject
      BY <1>2, <2>1, <3>1 DEF Distinct
    <3>3. QED
      BY <1>2, <1>4, <1>5, <2>1, <3>1, <3>2 DEF Reached
  <2>2. CASE i # passIndex
    <3>1. i < passIndex /\ list'[i] = list[i] /\ i \in 1 .. Len(list)
      BY <1>2, <1>3, <1>5, <1>6, <2>2
    <3>2. list[i] # passObject
      BY <1>2, <3>1 DEF Distinct
    <3>3. Reached(list[i])
      BY <1>2, <3>1, <3>2 DEF BeforeIndex
    <3>4. QED
      BY <1>1, <1>3, <3>1, <3>3 DEF Reached
  <2>3. QED
    BY <2>1, <2>2
<1>7. ASSUME NEW i \in 1 .. Len(list'), list'[i] \in visited' PROVE i < passIndex + 1
  <2>1. CASE i = passIndex
    BY <1>2, <2>1
  <2>2. CASE i # passIndex
    <3>1. list'[i] = list[i] /\ i \in 1 .. Len(list)
      BY <1>2, <1>3, <1>5, <2>2
    <3>2. QED
      BY <1>1, <1>2, <1>7, <3>1 DEF BeforeIndex
  <2>3. QED
    BY <2>1, <2>2
<1>8. SettleInv' /\ (passIndex' = 0 => AllReached')
  <2>1. passIndex + 1 \in Nat \ {0}
    BY <1>2
  <2>2. QED
    BY <1>1, <1>3, <1>6, <1>7, <2>1, PassGoesOn
<1>9. ~VisitCreature
  BY <1>1 DEF VisitCreature
<1>10. QED
  BY <1>8, <1>9 DEF StepKept, PassEnds

\* The garbage collector frees another entry while one that flies is settled.
LEMMA CollectOtherKeeps ==
  ASSUME SettleInv, NEW m \in Mobiles, CollectOther(m)
  PROVE  StepKept
<1>1. /\ Passing /\ passObject \notin creatures /\ m \in Listed /\ m # passObject
      /\ TakeOff(m)
      /\ passedOver' = passedOver \cup (Overtaken(list, m, passIndex) \ {passObject})
      /\ UNCHANGED <<passIndex, passObject, visited>>
  BY DEF CollectOther, place, Flying
<1>2. /\ SettleLists /\ list \in Seq(Mobiles) /\ Distinct(list) /\ Len(list) \in Nat
      /\ passIndex \in Nat \ {0} /\ AtIndex /\ BeforeIndex /\ passObject \in Listed
  BY <1>1, PassState
<1> DEFINE k == IndexIn(list, m)
<1>3. /\ SettleLists' /\ temporary' \subseteq temporary /\ creatures' \subseteq creatures
      /\ Listed' = Listed \ {m} /\ k \in 1 .. Len(list) /\ list[k] = m
      /\ Len(list') = Len(list) - 1
      /\ \A i \in 1 .. Len(list) - 1 : list'[i] = list[IF i = k THEN Len(list) ELSE i]
  BY <1>1, <1>2, TakenOff
<1>4. k < passIndex /\ passIndex <= Len(list) /\ list[Len(list)] \notin {m, passObject} =>
        list[Len(list)] \in passedOver'
  BY <1>1 DEF Overtaken, Last
<1> HIDE DEF k
<1>5. AtIndex'
  <2>1. CASE passIndex > Len(list) - 1
    BY <1>1, <1>2, <1>3, <2>1 DEF AtIndex
  <2>2. CASE ~(passIndex > Len(list) - 1)
    <3>1. passIndex \in 1 .. Len(list) - 1 /\ list[passIndex] = passObject /\ passIndex # k
      BY <1>1, <1>2, <1>3, <2>2 DEF AtIndex
    <3>2. list'[passIndex] = passObject
      BY <1>3, <3>1
    <3>3. QED
      BY <1>1, <1>2, <1>3, <3>1, <3>2 DEF AtIndex
  <2>3. QED
    BY <2>1, <2>2
<1>6. ASSUME NEW i \in 1 .. Len(list')
      PROVE  /\ i < passIndex /\ list'[i] # passObject => Reached(list[i])'
             /\ list'[i] \in visited => i < passIndex /\ list'[i] # passObject
  <2> DEFINE j == IF i = k THEN Len(list) ELSE i
  <2>1. /\ i \in 1 .. Len(list) - 1 /\ j \in 1 .. Len(list) /\ list'[i] = list[j]
        /\ i <= j
    BY <1>2, <1>3
  <2>2. list'[i] \in visited => i < passIndex /\ list'[i] # passObject
    BY <1>2, <2>1 DEF BeforeIndex
  <2>3. ASSUME i < passIndex, list'[i] # passObject PROVE Reached(list[i])'
    <3>1. CASE j < passIndex
      <4>1. Reached(list[j])
        BY <1>2, <2>1, <2>3, <3>1 DEF BeforeIndex
      <4>2. QED
        BY <1>1, <1>3, <2>1, <4>1 DEF Reached
    <3>2. CASE ~(j < passIndex)
      <4>1. i = k /\ j = Len(list) /\ passIndex <= Len(list) /\ k < passIndex
        BY <1>2, <2>1, <2>3, <3>2
      <4>2. list[Len(list)] # m
        BY <1>2, <1>3, <2>1, <4>1 DEF Distinct
      <4>3. list'[i] \in passedOver'
        BY <1>4, <2>1, <2>3, <4>1, <4>2
      <4>4. QED
        BY <4>3 DEF Reached
    <3>3. QED
      BY <3>1, <3>2
  <2>4. QED
    BY <2>2, <2>3
<1>7. BeforeIndex'
  BY <1>1, <1>6 DEF BeforeIndex
<1>8. SettleInv' /\ passIndex' # 0
  BY <1>1, <1>2, <1>3, <1>5, <1>7 DEF SettleInv
<1>9. QED
  BY <1>1, <1>8 DEF StepKept, PassEnds, VisitCreature

\* What flies settles, and the same index is visited again.
LEMMA VisitFlyingKeeps ==
  ASSUME SettleInv, VisitFlying
  PROVE  StepKept
<1>1. /\ Passing /\ passObject \notin creatures /\ TakeOff(passObject)
      /\ UNCHANGED <<visited, passedOver>> /\ PassGoTo(passIndex)
  BY DEF VisitFlying, Flying, history
<1>2. /\ SettleLists /\ list \in Seq(Mobiles) /\ Distinct(list) /\ Len(list) \in Nat
      /\ passIndex \in Nat \ {0} /\ AtIndex /\ BeforeIndex /\ passObject \in Listed
  BY <1>1, PassState
<1> DEFINE k == IndexIn(list, passObject)
<1>3. /\ SettleLists' /\ temporary' \subseteq temporary
      /\ k \in 1 .. Len(list) /\ list[k] = passObject
      /\ Len(list') = Len(list) - 1
      /\ \A i \in 1 .. Len(list) - 1 : list'[i] = list[IF i = k THEN Len(list) ELSE i]
  BY <1>1, <1>2, TakenOff
<1> HIDE DEF k
<1>4. k = passIndex \/ passIndex > Len(list)
  BY <1>2, <1>3 DEF AtIndex, Distinct
<1>5. ASSUME NEW i \in 1 .. Len(list')
      PROVE  /\ i < passIndex => Reached(list[i])'
             /\ list'[i] \in visited => i < passIndex
  <2> DEFINE j == IF i = k THEN Len(list) ELSE i
  <2>1. /\ i \in 1 .. Len(list) - 1 /\ j \in 1 .. Len(list) /\ list'[i] = list[j]
        /\ i <= j /\ (i < passIndex => j < passIndex)
    BY <1>2, <1>3, <1>4
  <2>2. list[j] # passObject
    BY <1>2, <1>3, <2>1 DEF Distinct
  <2>3. list'[i] \in visited => i < passIndex
    BY <1>2, <2>1 DEF BeforeIndex
  <2>4. i < passIndex => Reached(list[j])
    BY <1>2, <2>1, <2>2 DEF BeforeIndex
  <2>5. QED
    BY <1>1, <1>3, <2>1, <2>3, <2>4 DEF Reached
<1>6. SettleInv' /\ (passIndex' = 0 => AllReached')
  BY <1>1, <1>2, <1>3, <1>5, PassGoesOn
<1>7. QED
  BY <1>1, <1>6 DEF StepKept, PassEnds, VisitCreature

\* What flies settles, falls and flies again, at the end of the list.
LEMMA VisitFlyingFallsKeeps ==
  ASSUME SettleInv, VisitFlyingFalls
  PROVE  StepKept
<1>1. /\ Passing /\ passObject \notin creatures
      /\ list' = Append(Without(list, passObject), passObject)
      /\ passedOver' = passedOver \cup (IF passIndex > Len(list) THEN {passObject} ELSE {})
      /\ UNCHANGED <<creatures, temporary, visited>> /\ PassGoTo(passIndex)
  BY DEF VisitFlyingFalls, Flying, kinds
<1>2. /\ SettleLists /\ list \in Seq(Mobiles) /\ Distinct(list) /\ Len(list) \in Nat
      /\ passIndex \in Nat \ {0} /\ AtIndex /\ BeforeIndex /\ passObject \in Listed
  BY <1>1, PassState
<1> DEFINE k == IndexIn(list, passObject)
           W == Without(list, passObject)
<1>3. k \in 1 .. Len(list) /\ list[k] = passObject
  BY <1>2, IndexFacts DEF Listed
<1>4. /\ W \in Seq(Mobiles) /\ Len(W) = Len(list) - 1
      /\ \A i \in 1 .. Len(list) - 1 : W[i] = list[IF i = k THEN Len(list) ELSE i]
      /\ Distinct(W) /\ ToSet(W) = Listed \ {passObject}
  BY <1>2, WithoutFacts, WithoutSet DEF Listed
<1>5. list' = Append(W, passObject) /\ passObject \in Mobiles
  BY <1>1, <1>2, SetOfList DEF Listed
<1> HIDE DEF k, W
<1>6. /\ list' \in Seq(Mobiles) /\ Len(list') = Len(list)
      /\ \A i \in 1 .. Len(list) - 1 : list'[i] = W[i]
      /\ list'[Len(list)] = passObject /\ Distinct(list') /\ Listed' = Listed
  <2>1. passObject \notin ToSet(W)
    BY <1>4
  <2>2. /\ list' \in Seq(Mobiles) /\ Len(list') = Len(W) + 1
        /\ \A i \in 1 .. Len(W) : list'[i] = W[i]
        /\ list'[Len(W) + 1] = passObject
        /\ Distinct(list') /\ ToSet(list') = ToSet(W) \cup {passObject}
    BY <1>4, <1>5, <2>1, AppendFacts
  <2>3. Len(list) - 1 + 1 = Len(list)
    BY <1>2
  <2>4. QED
    BY <1>2, <1>4, <2>2, <2>3 DEF Listed
<1>7. SettleLists'
  BY <1>1, <1>2, <1>6 DEF SettleLists
<1>8. k = passIndex \/ passIndex > Len(list)
  BY <1>2, <1>3 DEF AtIndex, Distinct
<1>9. passObject \notin visited
  BY <1>2, <1>3 DEF BeforeIndex
<1>10. ASSUME NEW i \in 1 .. Len(list')
       PROVE  /\ i < passIndex => Reached(list[i])'
              /\ list'[i] \in visited => i < passIndex
  <2>1. CASE i = Len(list)
    BY <1>1, <1>2, <1>6, <1>9, <2>1 DEF Reached
  <2>2. CASE i # Len(list)
    <3> DEFINE j == IF i = k THEN Len(list) ELSE i
    <3>1. /\ i \in 1 .. Len(list) - 1 /\ j \in 1 .. Len(list) /\ list'[i] = list[j]
          /\ i <= j /\ (i < passIndex => j < passIndex)
      BY <1>2, <1>3, <1>4, <1>6, <1>8, <2>2
    <3>2. list[j] # passObject
      BY <1>2, <1>3, <3>1 DEF Distinct
    <3>3. list'[i] \in visited => i < passIndex
      BY <1>2, <3>1 DEF BeforeIndex
    <3>4. i < passIndex => Reached(list[j])
      BY <1>2, <3>1, <3>2 DEF BeforeIndex
    <3>5. QED
      BY <1>1, <3>1, <3>3, <3>4 DEF Reached
  <2>3. QED
    BY <2>1, <2>2
<1>11. SettleInv' /\ (passIndex' = 0 => AllReached')
  BY <1>1, <1>2, <1>7, <1>10, PassGoesOn
<1>12. QED
  BY <1>1, <1>11 DEF StepKept, PassEnds, VisitCreature

\* Every step keeps the invariant and the promises.
LEMMA NextSettleInv ==
  ASSUME SettleInv, [PassNext]_passVars
  PROVE  StepKept \/ (UNCHANGED passVars /\ SettleInv')
<1>1. CASE UNCHANGED passVars
  <2>1. UNCHANGED <<list, creatures, temporary, passIndex, passObject, visited, passedOver>>
    BY <1>1 DEF passVars, kinds, place, history
  <2>2. QED
    BY <1>1, <2>1 DEF SettleInv, SettleLists, AtIndex, BeforeIndex, Reached, Passing, Listed
<1>2. ASSUME NEW m \in Mobiles,
             \/ ObjectThrown(m) \/ MobileRemoved(m)
             \/ \E byTrap \in BOOLEAN : CreatureMade(m, byTrap)
      PROVE  StepKept
  <2>1. ~Passing
    BY <1>2 DEF ObjectThrown, MobileRemoved, CreatureMade
  <2>2. SettleInv'
    BY <1>2, <2>1, BetweenPasses
  <2>3. QED
    BY <2>1, <2>2 DEF StepKept, PassEnds, VisitCreature
<1>3. QED
  BY <1>1, <1>2, PassBegins, VisitCreatureKeeps, VisitTemporaryKeeps, CollectOtherKeeps,
     VisitFlyingKeeps, VisitFlyingFallsKeeps DEF PassNext

\* When a level has been brought to rest nothing flies, no creature of a trap is left
\* and every other creature has taken its step, but those a removal took past the
\* index; and none takes it twice, for any list (advance_mobile_objects).
THEOREM PassReachesEverybody == PassSpec => PassReachesAll
<1>1. PassInit => SettleInv
  <2>1. ASSUME PassInit PROVE list = <<>> /\ creatures = {} /\ temporary = {} /\ passIndex = 0
    BY <2>1 DEF PassInit, NoPass
  <2>2. <<>> \in Seq(Mobiles) /\ Distinct(<<>>)
    BY DEF Distinct
  <2>3. QED
    BY <2>1, <2>2 DEF SettleInv, SettleLists, Passing
<1>2. SettleInv /\ [PassNext]_passVars => SettleInv'
  BY NextSettleInv DEF StepKept
<1>3. SettleInv /\ [PassNext]_passVars =>
        [/\ PassEnds => \A m \in Listed' \ passedOver' : m \in visited' /\ m \notin temporary'
         /\ VisitCreature => passObject \notin visited]_passVars
  <2>1. AllReached' => \A m \in Listed' \ passedOver' : m \in visited' /\ m \notin temporary'
    BY DEF AllReached, Reached
  <2>2. QED
    BY <2>1, NextSettleInv DEF StepKept
<1>4. QED
  BY <1>1, <1>2, <1>3, PTL DEF PassSpec, PassReachesAll
=============================================================================
