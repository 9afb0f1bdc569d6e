--------------------------- MODULE BindingsProofs ---------------------------
(***************************************************************************)
(* While the handler table has room, a click is given to the handler that  *)
(* was registered with the region it matches, for every length of the      *)
(* table, every number of regions registered at the start and every        *)
(* sequence of screens.                                                    *)
(*                                                                         *)
(* The argument looks at a table as the set of regions in it (On): adding  *)
(* and removing change that set in the obvious way whatever places the     *)
(* regions have, and a table is sound if the handler at each place is that *)
(* of the region there.                                                    *)
(***************************************************************************)
EXTENDS Bindings, TLAPS

Owners == {"fixed", "view", "notes", "inventory", "stats"}
Region == [id : Nat, owner : Owners]
Tables == [regions : Seq(Region),
           handlers : [1 .. TableLength -> Owners \cup {Nobody}],
           nextId : Nat]

On(t) == {t.regions[i] : i \in 1 .. Len(t.regions)}
New(t, owner, n) == {[id |-> t.nextId + k - 1, owner |-> owner] : k \in 1 .. n}

\* The two tables agree, and no two regions have one id.
Sound(t) ==
  /\ t \in Tables
  /\ Len(t.regions) <= TableLength
  /\ \A i \in 1 .. Len(t.regions) : t.handlers[i] = t.regions[i].owner
  /\ \A i \in 1 .. Len(t.regions) : t.regions[i].id < t.nextId
  /\ \A i, j \in 1 .. Len(t.regions) : t.regions[i].id = t.regions[j].id => i = j

\* The regions that k returns to the dungeon and d more drawings of the map can
\* leave: the fixed ones, the view's and the inventory's, the panel's once for
\* each entry of the dungeon, and the notes of the maps drawn twice.
Bound(k, d) == Fixed + 2 + Stats * (k + 1) + d

\* The handler table has an entry for each of them.
BindingsHypothesis ==
  /\ TableLength \in Nat /\ Fixed \in Nat /\ MaxReturns \in Nat /\ MaxRedraws \in Nat
  /\ Bound(MaxReturns, MaxRedraws) <= TableLength

TypeOK ==
  /\ hasInventory \in BOOLEAN /\ pending \in BOOLEAN
  /\ screen \in {"menu", "dungeon", "map", "talk"}
  /\ returns \in 0 .. MaxReturns /\ redraws \in 0 .. MaxRedraws

Shows(t, id) == \E r \in On(t) : r.id = id

\* The saved ids were given, the view's to the view and nothing else, and
\* nothing but notes has the id of the notes.
Saved(t, view, notes) ==
  /\ view \in Nat /\ view < t.nextId /\ notes \in Nat /\ notes < t.nextId
  /\ \A r \in On(t) : r.owner = "view" <=> r.id = view
  /\ \A r \in On(t) : r.id = notes => r.owner = "notes"

\* Before the game there are the fixed regions; a shown map has its notes.
Bounded ==
  /\ screen = "menu" => Len(table.regions) <= Fixed
  /\ screen # "menu" => Len(table.regions) <= Bound(returns, redraws) + 1
  /\ screen # "menu" /\ ~(screen = "map" /\ ~pending) =>
       Len(table.regions) <= Bound(returns, redraws)

\* A map that is shown has its notes at the end of the table.
NotesOnTop ==
  screen = "map" /\ ~pending =>
    /\ Len(table.regions) > 0
    /\ table.regions[Len(table.regions)] = [id |-> notesId, owner |-> "notes"]

BindingsInv ==
  /\ TypeOK
  /\ Sound(table) /\ Bounded
  /\ Saved(table, viewId, notesId)
  /\ screen # "menu" => Shows(table, viewId)
  /\ NotesOnTop
  /\ hasInventory <=> screen # "menu"
  /\ screen \in {"map", "talk"} => returns < MaxReturns

-----------------------------------------------------------------------------
(* Adding and removing.                                                    *)

\* u is t with n regions more at its end.
Longer(t, u, owner, n) ==
  /\ u \in Tables /\ u.nextId = t.nextId + n
  /\ Len(t.regions) \in Nat /\ Len(u.regions) = Len(t.regions) + n
  /\ \A i \in 1 .. Len(t.regions) : u.regions[i] = t.regions[i]
  /\ \A i \in Len(t.regions) + 1 .. Len(t.regions) + n :
       u.regions[i] = [id |-> t.nextId + (i - Len(t.regions)) - 1, owner |-> owner]
  /\ \A i \in 1 .. TableLength :
       u.handlers[i] =
         IF i \in Len(t.regions) + 1 .. Len(t.regions) + n THEN owner ELSE t.handlers[i]

\* Regions registered in a row come after those that are there.
LEMMA TimesIsLonger ==
  ASSUME NEW t \in Tables, NEW owner \in Owners, NEW n \in Nat, TableLength \in Nat
  PROVE  Longer(t, Times(t, owner, n), owner, n)
<1> DEFINE m == Len(t.regions)
           added == [k \in 1 .. n |-> [id |-> t.nextId + k - 1, owner |-> owner]]
           u == Times(t, owner, n)
<1>1. /\ t.regions \in Seq(Region) /\ t.nextId \in Nat /\ m \in Nat
      /\ t.handlers \in [1 .. TableLength -> Owners \cup {Nobody}]
  BY DEF Tables
<1>2. added \in Seq(Region) /\ Len(added) = n
  <2>1. \A k \in 1 .. n : [id |-> t.nextId + k - 1, owner |-> owner] \in Region
    BY <1>1 DEF Region
  <2> QED
    BY <2>1
<1>3. u = [regions |-> t.regions \o added,
           handlers |-> [i \in 1 .. TableLength |->
                           IF i \in m + 1 .. m + n THEN owner ELSE t.handlers[i]],
           nextId |-> t.nextId + n]
  BY <1>1 DEF Times
<1>4. /\ t.regions \o added \in Seq(Region) /\ Len(t.regions \o added) = m + n
      /\ \A i \in 1 .. m : (t.regions \o added)[i] = t.regions[i]
      /\ \A i \in m + 1 .. m + n : (t.regions \o added)[i] = added[i - m]
  <2> HIDE DEF added, m
  <2>1. \A i \in 1 .. Len(t.regions) + Len(added) :
          (t.regions \o added)[i] = IF i <= Len(t.regions) THEN t.regions[i]
                                    ELSE added[i - Len(t.regions)]
    BY <1>1, <1>2
  <2>2. t.regions \o added \in Seq(Region)
    BY <1>1, <1>2
  <2>3. Len(t.regions \o added) = m + n
    BY <1>1, <1>2 DEF m
  <2> QED
    BY <1>1, <1>2, <2>1, <2>2, <2>3 DEF m
<1>5. \A i \in m + 1 .. m + n :
        added[i - m] = [id |-> t.nextId + (i - m) - 1, owner |-> owner]
  BY <1>1
<1>6. u \in Tables
  <2> HIDE DEF added
  <2>1. [i \in 1 .. TableLength |-> IF i \in m + 1 .. m + n THEN owner ELSE t.handlers[i]]
          \in [1 .. TableLength -> Owners \cup {Nobody}]
    BY <1>1
  <2>2. t.nextId + n \in Nat
    BY <1>1
  <2> QED
    BY <1>3, <1>4, <2>1, <2>2 DEF Tables
<1> HIDE DEF added
<1> QED
  BY <1>1, <1>3, <1>4, <1>5, <1>6 DEF Longer

\* The set of regions grows by the new ones, and a table with room stays sound.
LEMMA TimesAdds ==
  ASSUME NEW t, Sound(t), NEW owner \in Owners, NEW n \in Nat, TableLength \in Nat,
         Len(t.regions) + n <= TableLength
  PROVE  LET u == Times(t, owner, n)
         IN /\ Sound(u) /\ u.nextId = t.nextId + n
            /\ Len(u.regions) = Len(t.regions) + n
            /\ On(u) = On(t) \cup New(t, owner, n)
<1> DEFINE u == Times(t, owner, n)
           m == Len(t.regions)
<1>1. t \in Tables
  BY DEF Sound
<1>2. /\ u \in Tables /\ u.nextId = t.nextId + n
      /\ m \in Nat /\ Len(u.regions) = m + n
      /\ \A i \in 1 .. m : u.regions[i] = t.regions[i]
      /\ \A i \in m + 1 .. m + n :
           u.regions[i] = [id |-> t.nextId + (i - m) - 1, owner |-> owner]
      /\ \A i \in 1 .. TableLength :
           u.handlers[i] = IF i \in m + 1 .. m + n THEN owner ELSE t.handlers[i]
  <2>1. Longer(t, u, owner, n)
    BY <1>1, TimesIsLonger
  <2> HIDE DEF u
  <2> QED
    BY <2>1 DEF Longer
<1> HIDE DEF u
<1>3. /\ t.nextId \in Nat
      /\ \A i \in 1 .. m : t.regions[i].id \in Nat
  <2>1. t.regions \in Seq(Region) /\ t.nextId \in Nat
    BY <1>1 DEF Tables
  <2>2. \A i \in 1 .. m : t.regions[i] \in Region
    BY <2>1
  <2> QED
    BY <2>1, <2>2 DEF Region
<1>4. \A i \in m + 1 .. m + n :
        u.regions[i].id = t.nextId + (i - m) - 1 /\ u.regions[i].owner = owner
  <2> TAKE i \in m + 1 .. m + n
  <2>1. u.regions[i] = [id |-> t.nextId + (i - m) - 1, owner |-> owner]
    BY <1>2
  <2> QED
    BY <2>1
<1>5. Sound(u)
  <2>1. \A i \in 1 .. m :
          /\ u.regions[i].id = t.regions[i].id /\ t.regions[i].id < t.nextId
          /\ u.handlers[i] = u.regions[i].owner
    BY <1>2 DEF Sound
  <2>2. \A i \in m + 1 .. m + n : u.handlers[i] = u.regions[i].owner
    BY <1>2, <1>4
  <2>3. \A i \in m + 1 .. m + n :
          t.nextId <= u.regions[i].id /\ u.regions[i].id < u.nextId
    <3> TAKE i \in m + 1 .. m + n
    <3>1. u.regions[i].id = t.nextId + (i - m) - 1 /\ u.nextId = t.nextId + n
      BY <1>2, <1>4
    <3>2. i - m \in 1 .. n
      BY <1>2
    <3> QED
      BY <1>3, <3>1, <3>2
  <2>4. \A i \in 1 .. m + n : u.regions[i].id < u.nextId
    <3> TAKE i \in 1 .. m + n
    <3>1. CASE i \in 1 .. m
      <4>1. u.regions[i].id \in Nat /\ u.regions[i].id < t.nextId
        BY <1>3, <2>1, <3>1
      <4>2. t.nextId \in Nat /\ u.nextId = t.nextId + n
        BY <1>2, <1>3
      <4> QED
        BY <4>1, <4>2
    <3>2. CASE i \in m + 1 .. m + n
      BY <2>3, <3>2
    <3> QED
      BY <1>2, <3>1, <3>2
  <2>5. ASSUME NEW i \in 1 .. m + n, NEW j \in 1 .. m + n,
               u.regions[i].id = u.regions[j].id
        PROVE  i = j
    <3>1. CASE i \in 1 .. m /\ j \in 1 .. m
      BY <2>1, <2>5, <3>1 DEF Sound
    <3>2. CASE i \in m + 1 .. m + n /\ j \in m + 1 .. m + n
      <4>1. t.nextId + (i - m) - 1 = t.nextId + (j - m) - 1
        BY <1>4, <2>5, <3>2
      <4> QED
        BY <1>2, <1>3, <4>1
    <3>3. CASE i \in 1 .. m /\ j \in m + 1 .. m + n
      <4>1. u.regions[i].id < t.nextId /\ t.nextId <= u.regions[i].id
        BY <2>1, <2>5, <2>3, <3>3
      <4> QED
        BY <1>3, <2>1, <3>3, <4>1
    <3>4. CASE j \in 1 .. m /\ i \in m + 1 .. m + n
      <4>1. u.regions[j].id < t.nextId /\ t.nextId <= u.regions[j].id
        BY <2>1, <2>5, <2>3, <3>4
      <4> QED
        BY <1>3, <2>1, <3>4, <4>1
    <3> QED
      BY <1>2, <3>1, <3>2, <3>3, <3>4
  <2> QED
    BY <1>2, <2>1, <2>2, <2>4, <2>5 DEF Sound
<1>6. On(u) = On(t) \cup New(t, owner, n)
  <2>1. ASSUME NEW r \in On(u) PROVE r \in On(t) \cup New(t, owner, n)
    <3>1. PICK i \in 1 .. m + n : r = u.regions[i]
      BY <1>2 DEF On
    <3>2. CASE i \in 1 .. m
      BY <1>2, <3>1, <3>2 DEF On
    <3>3. CASE i \in m + 1 .. m + n
      <4>1. i - m \in 1 .. n
        BY <1>2, <3>3
      <4> QED
        BY <1>2, <3>1, <3>3, <4>1 DEF New
    <3> QED
      BY <1>2, <3>1, <3>2, <3>3
  <2>2. ASSUME NEW r \in On(t) PROVE r \in On(u)
    <3>1. PICK i \in 1 .. m : r = t.regions[i]
      BY DEF On
    <3>2. i \in 1 .. m + n /\ r = u.regions[i]
      BY <1>2, <3>1
    <3> QED
      BY <1>2, <3>2 DEF On
  <2>3. ASSUME NEW r \in New(t, owner, n) PROVE r \in On(u)
    <3>1. PICK k \in 1 .. n : r = [id |-> t.nextId + k - 1, owner |-> owner]
      BY DEF New
    <3>2. m + k \in m + 1 .. m + n /\ m + k \in 1 .. m + n /\ (m + k) - m = k
      BY <1>2
    <3>3. r = u.regions[m + k]
      BY <1>2, <3>1, <3>2
    <3> QED
      BY <1>2, <3>2, <3>3 DEF On
  <2> QED
    BY <2>1, <2>2, <2>3
<1> QED
  BY <1>2, <1>5, <1>6 DEF u

\* The region with the id goes, whatever its place, and its handler with it.
LEMMA UnregisterRemoves ==
  ASSUME NEW t, Sound(t), NEW id \in Nat, TableLength \in Nat
  PROVE  LET u == Unregister(t, id)
         IN /\ Sound(u) /\ u.nextId = t.nextId
            /\ On(u) = {r \in On(t) : r.id # id}
            /\ Shows(t, id) => Len(u.regions) = Len(t.regions) - 1
            /\ ~Shows(t, id) => Len(u.regions) = Len(t.regions)
<1> DEFINE n == Len(t.regions)
           found == {p \in 1 .. n : t.regions[p].id = id}
           u == Unregister(t, id)
<1>1. /\ t \in Tables /\ t.regions \in Seq(Region) /\ t.nextId \in Nat
      /\ t.handlers \in [1 .. TableLength -> Owners \cup {Nobody}]
      /\ n \in Nat /\ n <= TableLength
  BY DEF Sound, Tables
<1>2. CASE found = {}
  <2>1. u = t
    BY <1>2 DEF Unregister
  <2>2. \A r \in On(t) : r.id # id
    BY <1>2 DEF On
  <2>3. On(u) = {r \in On(t) : r.id # id}
    BY <2>1, <2>2
  <2>4. ~Shows(t, id)
    BY <2>2 DEF Shows
  <2> QED
    BY <2>1, <2>3, <2>4
<1>3. CASE found # {}
  <2> DEFINE p == CHOOSE p \in found : TRUE
             moved == [t.regions EXCEPT ![p] = t.regions[n]]
  <2>1. p \in 1 .. n /\ t.regions[p].id = id
    BY <1>3
  <2>2. u = [t EXCEPT !.regions = SubSeq(moved, 1, n - 1),
                      !.handlers = IF p < n /\ n \in DOMAIN t.handlers
                                     THEN [t.handlers EXCEPT ![p] = t.handlers[n]]
                                     ELSE t.handlers]
    BY <1>3 DEF Unregister
  <2> HIDE DEF p, found
  <2>3. /\ moved \in Seq(Region) /\ Len(moved) = n
        /\ \A i \in 1 .. n : moved[i] = IF i = p THEN t.regions[n] ELSE t.regions[i]
    BY <1>1, <2>1
  <2> HIDE DEF moved
  <2>4. /\ SubSeq(moved, 1, n - 1) \in Seq(Region)
        /\ Len(SubSeq(moved, 1, n - 1)) = n - 1
        /\ \A i \in 1 .. n - 1 : SubSeq(moved, 1, n - 1)[i] = moved[i]
    BY <1>1, <2>1, <2>3
  <2> DEFINE h == IF p < n /\ n \in DOMAIN t.handlers
                    THEN [t.handlers EXCEPT ![p] = t.handlers[n]] ELSE t.handlers
  <2>5. /\ h \in [1 .. TableLength -> Owners \cup {Nobody}]
        /\ \A i \in 1 .. n - 1 : h[i] = IF i = p THEN t.handlers[n] ELSE t.handlers[i]
    BY <1>1, <2>1
  <2> HIDE DEF h
  <2>6. /\ u.regions = SubSeq(moved, 1, n - 1) /\ u.handlers = h
        /\ u.nextId = t.nextId /\ u \in Tables
    BY <1>1, <2>2, <2>4, <2>5 DEF Tables, h
  <2> HIDE DEF u
  <2>7. /\ Len(u.regions) = n - 1
        /\ \A i \in 1 .. n - 1 :
             u.regions[i] = IF i = p THEN t.regions[n] ELSE t.regions[i]
    BY <1>1, <2>3, <2>4, <2>6
  <2> DEFINE from(i) == IF i = p THEN n ELSE i
  <2>14. \A i \in 1 .. n - 1 :
          /\ from(i) \in 1 .. n
          /\ u.regions[i] = t.regions[from(i)] /\ u.handlers[i] = t.handlers[from(i)]
    BY <1>1, <2>5, <2>6, <2>7
  <2>15. \A i, j \in 1 .. n - 1 : from(i) = from(j) => i = j
    BY <1>1
  <2> HIDE DEF from
  <2>8. \A i \in 1 .. n - 1 : u.handlers[i] = u.regions[i].owner
    BY <2>14 DEF Sound
  <2>9. \A i \in 1 .. n - 1 : u.regions[i].id < u.nextId
    BY <2>6, <2>14 DEF Sound
  <2>10. ASSUME NEW i \in 1 .. n - 1, NEW j \in 1 .. n - 1,
                u.regions[i].id = u.regions[j].id
         PROVE  i = j
    <3>1. t.regions[from(i)].id = t.regions[from(j)].id
      BY <2>14, <2>10
    <3>2. from(i) \in 1 .. n /\ from(j) \in 1 .. n
      BY <2>14
    <3>3. from(i) = from(j)
      BY <3>1, <3>2 DEF Sound
    <3> QED
      BY <2>15, <3>3
  <2>11. Sound(u)
    <3>1. u \in Tables /\ Len(u.regions) <= TableLength
      BY <1>1, <2>6, <2>7
    <3>2. 1 .. Len(u.regions) = 1 .. n - 1
      BY <2>7
    <3> QED
      BY <2>8, <2>9, <2>10, <3>1, <3>2 DEF Sound
  <2>12. On(u) = {r \in On(t) : r.id # id}
    <3>1. ASSUME NEW r \in On(u) PROVE r \in On(t) /\ r.id # id
      <4>1. PICK i \in 1 .. n - 1 : r = u.regions[i]
        BY <2>7 DEF On
      <4>2. PICK j \in 1 .. n : r = t.regions[j] /\ j # p
        BY <1>1, <2>1, <2>7, <4>1
      <4> QED
        BY <2>1, <4>2 DEF On, Sound
    <3>2. ASSUME NEW r \in On(t), r.id # id PROVE r \in On(u)
      <4>1. PICK i \in 1 .. n : r = t.regions[i] /\ i # p
        BY <2>1, <3>2 DEF On
      <4>2. CASE i = n
        <5>1. p \in 1 .. n - 1 /\ r = u.regions[p]
          BY <1>1, <2>1, <2>7, <4>1, <4>2
        <5> QED
          BY <2>7, <5>1 DEF On
      <4>3. CASE i # n
        <5>1. i \in 1 .. n - 1 /\ r = u.regions[i]
          BY <1>1, <2>7, <4>1, <4>3
        <5> QED
          BY <2>7, <5>1 DEF On
      <4> QED
        BY <4>2, <4>3
    <3> QED
      BY <3>1, <3>2
  <2>13. Shows(t, id)
    BY <2>1 DEF On, Shows
  <2> QED
    BY <1>1, <2>6, <2>7, <2>11, <2>12, <2>13 DEF u
<1> QED
  BY <1>2, <1>3
-----------------------------------------------------------------------------
(* What the saved ids find.                                                *)

LEMMA SoundTypes ==
  ASSUME NEW t, Sound(t)
  PROVE  /\ t.nextId \in Nat /\ Len(t.regions) \in Nat
         /\ \A r \in On(t) : r \in Region /\ r.id \in Nat /\ r.id < t.nextId
<1>1. t.regions \in Seq(Region) /\ t.nextId \in Nat
  BY DEF Sound, Tables
<1>2. \A i \in 1 .. Len(t.regions) : t.regions[i] \in Region /\ t.regions[i].id < t.nextId
  BY <1>1 DEF Sound
<1>3. \A r \in On(t) : r \in Region /\ r.id < t.nextId
  BY <1>2 DEF On
<1> QED
  BY <1>1, <1>3 DEF Region

\* Regions that are neither a view nor notes change nothing of that.
LEMMA OthersKeepSaved ==
  ASSUME NEW t, Sound(t), NEW owner \in Owners \ {"view", "notes"}, NEW n \in Nat,
         TableLength \in Nat, Len(t.regions) + n <= TableLength,
         NEW view, NEW notes, Saved(t, view, notes)
  PROVE  LET u == Times(t, owner, n)
         IN /\ Sound(u) /\ Len(u.regions) = Len(t.regions) + n
            /\ Saved(u, view, notes)
            /\ Shows(t, view) => Shows(u, view)
<1> DEFINE u == Times(t, owner, n)
<1>1. /\ Sound(u) /\ u.nextId = t.nextId + n
      /\ Len(u.regions) = Len(t.regions) + n
      /\ On(u) = On(t) \cup New(t, owner, n)
  BY TimesAdds
<1> HIDE DEF u
<1>2. t.nextId \in Nat /\ view \in Nat /\ notes \in Nat /\ view < t.nextId /\ notes < t.nextId
  BY SoundTypes DEF Saved
<1>3. \A r \in New(t, owner, n) : r.owner = owner /\ r.id # view /\ r.id # notes
  <2> TAKE r \in New(t, owner, n)
  <2>1. PICK k \in 1 .. n : r = [id |-> t.nextId + k - 1, owner |-> owner]
    BY DEF New
  <2>2. r.owner = owner /\ r.id = t.nextId + k - 1
    BY <2>1
  <2> QED
    BY <1>2, <2>2
<1>4. Saved(u, view, notes)
  <2>1. view < u.nextId /\ notes < u.nextId
    BY <1>1, <1>2
  <2>2. \A r \in On(u) : r.owner = "view" <=> r.id = view
    BY <1>1, <1>3 DEF Saved
  <2>3. \A r \in On(u) : r.id = notes => r.owner = "notes"
    BY <1>1, <1>3 DEF Saved
  <2> QED
    BY <1>2, <2>1, <2>2, <2>3 DEF Saved
<1>5. Shows(t, view) => Shows(u, view)
  BY <1>1 DEF Shows
<1> QED
  BY <1>1, <1>4, <1>5 DEF u

\* Taking the notes away takes no view.
LEMMA UnregisterKeepsSaved ==
  ASSUME NEW t, Sound(t), TableLength \in Nat,
         NEW view, NEW notes, Saved(t, view, notes)
  PROVE  LET u == Unregister(t, notes)
         IN /\ Sound(u) /\ u.nextId = t.nextId /\ Saved(u, view, notes)
            /\ Shows(t, notes) => Len(u.regions) = Len(t.regions) - 1
            /\ ~Shows(t, notes) => Len(u.regions) = Len(t.regions)
            /\ Shows(t, view) => Shows(u, view)
<1> DEFINE u == Unregister(t, notes)
<1>1. /\ Sound(u) /\ u.nextId = t.nextId
      /\ On(u) = {r \in On(t) : r.id # notes}
      /\ Shows(t, notes) => Len(u.regions) = Len(t.regions) - 1
      /\ ~Shows(t, notes) => Len(u.regions) = Len(t.regions)
  BY UnregisterRemoves DEF Saved
<1> HIDE DEF u
<1>2. Saved(u, view, notes)
  BY <1>1 DEF Saved
<1>3. Shows(t, view) => Shows(u, view)
  <2> SUFFICES ASSUME NEW r \in On(t), r.id = view PROVE r \in On(u)
    BY DEF Shows
  <2>1. r.owner = "view"
    BY DEF Saved
  <2>2. r.id # notes
    BY <2>1 DEF Saved
  <2> QED
    BY <1>1, <2>2
<1> QED
  BY <1>1, <1>2, <1>3 DEF u

\* A new view takes the place of the old one.
LEMMA ViewAgainIsSaved ==
  ASSUME NEW t, Sound(t), TableLength \in Nat,
         NEW notes, Saved(t, viewId, notes),
         ~Shows(t, viewId) => Len(t.regions) + 1 <= TableLength
  PROVE  LET u == ViewAgain(t)
         IN /\ Sound(u) /\ Saved(u, t.nextId, notes) /\ Shows(u, t.nextId)
            /\ Shows(t, viewId) => Len(u.regions) = Len(t.regions)
            /\ ~Shows(t, viewId) => Len(u.regions) = Len(t.regions) + 1
<1> DEFINE a == Unregister(t, viewId)
           u == Times(a, "view", 1)
<1>1. /\ Sound(a) /\ a.nextId = t.nextId
      /\ On(a) = {r \in On(t) : r.id # viewId}
      /\ Shows(t, viewId) => Len(a.regions) = Len(t.regions) - 1
      /\ ~Shows(t, viewId) => Len(a.regions) = Len(t.regions)
  BY UnregisterRemoves DEF Saved
<1> HIDE DEF a
<1>2. Len(t.regions) \in Nat /\ Len(t.regions) <= TableLength
  BY SoundTypes DEF Sound
<1>3. Len(a.regions) + 1 <= TableLength
  BY <1>1, <1>2
<1>4. /\ Sound(u) /\ u.nextId = t.nextId + 1
      /\ Len(u.regions) = Len(a.regions) + 1
      /\ On(u) = On(a) \cup New(a, "view", 1)
  <2>1. "view" \in Owners /\ 1 \in Nat
    BY DEF Owners
  <2>2. /\ Sound(u) /\ u.nextId = a.nextId + 1
        /\ Len(u.regions) = Len(a.regions) + 1
        /\ On(u) = On(a) \cup New(a, "view", 1)
    BY <1>1, <1>3, <2>1, TimesAdds
  <2> QED
    BY <1>1, <2>2
<1> HIDE DEF u
<1>5. t.nextId \in Nat /\ \A r \in On(t) : r.id \in Nat /\ r.id < t.nextId
  BY SoundTypes
<1>6. New(a, "view", 1) = {[id |-> t.nextId, owner |-> "view"]}
  <2>1. t.nextId + 1 - 1 = t.nextId /\ 1 .. 1 = {1}
    BY <1>5
  <2> QED
    BY <1>1, <2>1 DEF New
<1>7. \A r \in On(a) : r.owner # "view" /\ r.id # t.nextId
  BY <1>1, <1>5 DEF Saved
<1>8. Saved(u, t.nextId, notes)
  <2>1. t.nextId < u.nextId /\ notes < u.nextId /\ notes \in Nat /\ notes # t.nextId
    BY <1>4, <1>5 DEF Saved
  <2>2. \A r \in On(u) : r.owner = "view" <=> r.id = t.nextId
    BY <1>4, <1>6, <1>7
  <2>3. \A r \in On(u) : r.id = notes => r.owner = "notes"
    BY <1>1, <1>4, <1>6, <2>1 DEF Saved
  <2> QED
    BY <1>5, <2>1, <2>2, <2>3 DEF Saved
<1>9. Shows(u, t.nextId)
  <2>1. [id |-> t.nextId, owner |-> "view"] \in On(u)
    BY <1>4, <1>6
  <2> QED
    BY <2>1 DEF Shows
<1>10. /\ Shows(t, viewId) => Len(u.regions) = Len(t.regions)
       /\ ~Shows(t, viewId) => Len(u.regions) = Len(t.regions) + 1
  BY <1>1, <1>2, <1>4
<1>11. ViewAgain(t) = u
  BY DEF ViewAgain, Register, u, a
<1> QED
  BY <1>4, <1>8, <1>9, <1>10, <1>11

\* Entering the dungeon adds the stats panel, and at first the view and the
\* inventory.
LEMMA EnterDungeonIsSaved ==
  ASSUME BindingsHypothesis, TypeOK, NEW t, Sound(t), Saved(t, viewId, notesId),
         hasInventory <=> screen # "menu",
         screen # "menu" => Shows(t, viewId),
         NEW more \in Nat, Len(t.regions) + more + Stats <= TableLength,
         screen = "menu" => more = 2,
         EnterDungeon(t), notesId' = notesId
  PROVE  /\ Sound(table') /\ Saved(table', viewId', notesId') /\ Shows(table', viewId')
         /\ Len(table'.regions) <= Len(t.regions) + more + Stats
<1> DEFINE shown == ViewAgain(t)
           panel == IF hasInventory THEN shown ELSE Register(shown, "inventory")
<1>1. /\ Len(t.regions) \in Nat /\ TableLength \in Nat
      /\ ~Shows(t, viewId) => Len(t.regions) + 1 <= TableLength
  <2>1. Len(t.regions) \in Nat /\ TableLength \in Nat
    BY SoundTypes DEF BindingsHypothesis
  <2> QED
    BY <2>1 DEF Stats
<1>2. /\ Sound(shown) /\ Saved(shown, t.nextId, notesId) /\ Shows(shown, t.nextId)
      /\ Shows(t, viewId) => Len(shown.regions) = Len(t.regions)
      /\ ~Shows(t, viewId) => Len(shown.regions) = Len(t.regions) + 1
  BY <1>1, ViewAgainIsSaved
<1>3. /\ table' = Times(panel, "stats", Stats) /\ viewId' = t.nextId
  BY DEF EnterDungeon
<1> HIDE DEF shown
<1>4. /\ Sound(panel) /\ Saved(panel, t.nextId, notesId) /\ Shows(panel, t.nextId)
      /\ Len(panel.regions) <= Len(t.regions) + more
  <2>1. CASE screen = "menu"
    <3>1. panel = Times(shown, "inventory", 1)
      BY <2>1 DEF Register
    <3>2. /\ Len(shown.regions) \in Nat /\ Len(shown.regions) <= Len(t.regions) + 1
          /\ Len(shown.regions) + 1 <= TableLength
      BY <1>1, <1>2, <2>1 DEF Stats
    <3>3. /\ Sound(Times(shown, "inventory", 1))
          /\ Len(Times(shown, "inventory", 1).regions) = Len(shown.regions) + 1
          /\ Saved(Times(shown, "inventory", 1), t.nextId, notesId)
          /\ Shows(Times(shown, "inventory", 1), t.nextId)
      BY <1>1, <1>2, <3>2, OthersKeepSaved DEF Owners
    <3> QED
      BY <1>1, <2>1, <3>1, <3>2, <3>3
  <2>2. CASE screen # "menu"
    BY <1>1, <1>2, <2>2
  <2> QED
    BY <2>1, <2>2
<1> HIDE DEF panel
<1>5. Len(panel.regions) \in Nat /\ Len(panel.regions) + Stats <= TableLength
  <2>1. Len(panel.regions) \in Nat
    BY <1>4, SoundTypes
  <2> QED
    BY <1>1, <1>4, <2>1 DEF Stats
<1>6. /\ Sound(table') /\ Len(table'.regions) = Len(panel.regions) + Stats
      /\ Saved(table', t.nextId, notesId) /\ Shows(table', t.nextId)
  <2>1. "stats" \in Owners \ {"view", "notes"} /\ Stats \in Nat
    BY DEF Owners, Stats
  <2> QED
    BY <1>1, <1>3, <1>4, <1>5, <2>1, OthersKeepSaved
<1> QED
  BY <1>1, <1>3, <1>4, <1>5, <1>6 DEF Stats
-----------------------------------------------------------------------------
(* The screens.                                                            *)

LEMMA BoundGrows ==
  ASSUME BindingsHypothesis, NEW k \in 0 .. MaxReturns, NEW d \in 0 .. MaxRedraws
  PROVE  /\ Bound(k, d) \in Nat /\ Bound(k, d) <= TableLength
         /\ Bound(k, d + 1) = Bound(k, d) + 1
         /\ Bound(k + 1, d) = Bound(k, d) + Stats
         /\ k < MaxReturns => Bound(k, d) + Stats <= TableLength
         /\ Fixed + 2 + Stats <= Bound(k, d)
BY DEF BindingsHypothesis, Bound, Stats

LEMMA CountsAreNumbers ==
  ASSUME BindingsHypothesis, BindingsInv
  PROVE  /\ Len(table.regions) \in Nat /\ TableLength \in Nat /\ Fixed \in Nat
         /\ returns \in 0 .. MaxReturns /\ redraws \in 0 .. MaxRedraws
         /\ returns \in Nat /\ redraws \in Nat /\ MaxReturns \in Nat /\ MaxRedraws \in Nat
<1>1. Len(table.regions) \in Nat
  BY SoundTypes DEF BindingsInv
<1> QED
  BY <1>1 DEF BindingsInv, TypeOK, BindingsHypothesis

LEMMA InitHolds ==
  ASSUME BindingsHypothesis, Init
  PROVE  BindingsInv
<1> DEFINE none == [regions |-> <<>>, handlers |-> [i \in 1 .. TableLength |-> Nobody],
                    nextId |-> 1]
<1>1. /\ table = Times(none, "fixed", Fixed) /\ viewId = 0 /\ notesId = 0
      /\ hasInventory = FALSE /\ screen = "menu" /\ pending = FALSE
      /\ returns = 0 /\ redraws = 0
  BY DEF Init
<1>2. none.regions = <<>> /\ Len(none.regions) = 0 /\ none.nextId = 1 /\ On(none) = {}
  BY DEF On
<1>3. none \in Tables
  BY DEF Tables
<1> HIDE DEF none
<1>4. Sound(none)
  BY <1>2, <1>3 DEF Sound, BindingsHypothesis
<1>5. Saved(none, 0, 0)
  BY <1>2 DEF Saved
<1>6. /\ Sound(table) /\ Len(table.regions) = Fixed /\ Saved(table, 0, 0)
  <2>1. "fixed" \in Owners \ {"view", "notes"}
    BY DEF Owners
  <2>2. /\ Fixed \in Nat /\ TableLength \in Nat /\ Len(none.regions) + Fixed <= TableLength
        /\ Len(none.regions) + Fixed = Fixed
    <3>1. Fixed + 2 + Stats <= TableLength
      BY BoundGrows DEF BindingsHypothesis, Bound, Stats
    <3> QED
      BY <1>2, <3>1 DEF BindingsHypothesis, Stats
  <2> QED
    BY <1>1, <1>4, <1>5, <2>1, <2>2, OthersKeepSaved
<1>7. Bounded
  BY <1>1, <1>6 DEF Bounded, BindingsHypothesis
<1>8. TypeOK
  <2>1. returns \in 0 .. MaxReturns /\ redraws \in 0 .. MaxRedraws
    BY <1>1 DEF BindingsHypothesis
  <2> QED
    BY <1>1, <2>1, Zenon DEF TypeOK
<1>9. NotesOnTop
  BY <1>1 DEF NotesOnTop
<1> QED
  BY <1>1, <1>6, <1>7, <1>8, <1>9 DEF BindingsInv

\* Entering the dungeon from any screen, the notes already taken away.
LEMMA EnteringHolds ==
  ASSUME BindingsHypothesis, BindingsInv, NEW t, Sound(t), Saved(t, viewId, notesId),
         screen # "menu" => Shows(t, viewId),
         NEW more \in Nat, screen = "menu" => more = 2,
         NEW k \in 0 .. MaxReturns, Len(t.regions) + more + Stats <= Bound(k, redraws),
         EnterDungeon(t), notesId' = notesId, redraws' = redraws, returns' = k
  PROVE  BindingsInv'
<1>1. /\ Len(t.regions) \in Nat /\ TableLength \in Nat /\ redraws \in 0 .. MaxRedraws
      /\ Bound(k, redraws) \in Nat /\ Bound(k, redraws) <= TableLength
  BY SoundTypes, CountsAreNumbers, BoundGrows
<1>2. Len(t.regions) + more + Stats <= TableLength
  BY <1>1 DEF Stats
<1>3. /\ Sound(table') /\ Saved(table', viewId', notesId') /\ Shows(table', viewId')
      /\ Len(table'.regions) <= Len(t.regions) + more + Stats
  BY <1>2, EnterDungeonIsSaved DEF BindingsInv
<1>4. hasInventory' = TRUE /\ screen' = "dungeon" /\ pending' = FALSE
  BY DEF EnterDungeon
<1>5. Len(table'.regions) \in Nat
  BY <1>3, SoundTypes
<1>6. Bounded'
  <2>1. Len(table'.regions) <= Bound(k, redraws)
    BY <1>1, <1>3, <1>5 DEF Stats
  <2>2. Len(table'.regions) <= Bound(k, redraws) + 1
    BY <1>1, <1>5, <2>1
  <2> QED
    BY <1>4, <2>1, <2>2 DEF Bounded
<1>7. TypeOK'
  BY <1>4 DEF TypeOK, BindingsInv
<1> QED
  BY <1>3, <1>4, <1>6, <1>7 DEF BindingsInv, NotesOnTop

LEMMA StartGameHolds ==
  ASSUME BindingsHypothesis, BindingsInv, StartGame
  PROVE  BindingsInv'
<1>1. /\ screen = "menu" /\ EnterDungeon(table) /\ notesId' = notesId
      /\ returns' = returns /\ redraws' = redraws
  BY DEF StartGame
<1>2. Len(table.regions) <= Fixed
  BY <1>1 DEF BindingsInv, Bounded
<1>3. Len(table.regions) + 2 + Stats <= Bound(returns, redraws)
  <2>1. Bound(returns, redraws) \in Nat /\ Fixed + 2 + Stats <= Bound(returns, redraws)
    BY CountsAreNumbers, BoundGrows
  <2> QED
    BY <1>2, <2>1, CountsAreNumbers DEF Stats
<1> QED
  BY <1>1, <1>3, CountsAreNumbers, EnteringHolds DEF BindingsInv

\* The notes of a map that is shown are found and leave.
LEMMA LeaveMapHolds ==
  ASSUME BindingsHypothesis, BindingsInv, LeaveMap
  PROVE  BindingsInv'
<1> DEFINE t == Unregister(table, notesId)
<1>1. /\ screen = "map" /\ EnterDungeon(t) /\ notesId' = notesId
      /\ returns' = returns + 1 /\ redraws' = redraws
  BY DEF LeaveMap
<1>2. /\ Sound(t) /\ Saved(t, viewId, notesId) /\ Shows(t, viewId)
      /\ Shows(table, notesId) => Len(t.regions) = Len(table.regions) - 1
      /\ ~Shows(table, notesId) => Len(t.regions) = Len(table.regions)
  BY <1>1, CountsAreNumbers, UnregisterKeepsSaved DEF BindingsInv
<1> HIDE DEF t
<1>3. /\ Bound(returns, redraws) \in Nat
      /\ Bound(returns + 1, redraws) = Bound(returns, redraws) + Stats
  BY CountsAreNumbers, BoundGrows
<1>4. Len(t.regions) <= Bound(returns, redraws)
  <2>1. CASE pending
    BY <1>1, <1>2, <1>3, <2>1, CountsAreNumbers DEF BindingsInv, Bounded
  <2>2. CASE ~pending
    <3>1. Len(table.regions) <= Bound(returns, redraws) + 1
      BY <1>1 DEF BindingsInv, Bounded
    <3>2. Shows(table, notesId)
      <4>1. /\ Len(table.regions) \in 1 .. Len(table.regions)
            /\ table.regions[Len(table.regions)].id = notesId
        BY <1>1, <2>2, CountsAreNumbers DEF BindingsInv, NotesOnTop
      <4> QED
        BY <4>1 DEF Shows, On
    <3> QED
      BY <1>2, <1>3, <3>1, <3>2, CountsAreNumbers
  <2> QED
    BY <2>1, <2>2
<1>5. Len(t.regions) + 0 + Stats <= Bound(returns + 1, redraws)
  BY <1>2, <1>3, <1>4, SoundTypes DEF Stats
<1>6. returns + 1 \in 0 .. MaxReturns
  BY <1>1, CountsAreNumbers DEF BindingsInv
<1> QED
  BY <1>1, <1>2, <1>5, <1>6, EnteringHolds

LEMMA LeaveTalkHolds ==
  ASSUME BindingsHypothesis, BindingsInv, LeaveTalk
  PROVE  BindingsInv'
<1>1. /\ screen = "talk" /\ EnterDungeon(table) /\ notesId' = notesId
      /\ returns' = returns + 1 /\ redraws' = redraws
  BY DEF LeaveTalk
<1>2. Len(table.regions) <= Bound(returns, redraws)
  BY <1>1 DEF BindingsInv, Bounded
<1>3. /\ Bound(returns, redraws) \in Nat
      /\ Bound(returns + 1, redraws) = Bound(returns, redraws) + Stats
  BY CountsAreNumbers, BoundGrows
<1>4. Len(table.regions) + 0 + Stats <= Bound(returns + 1, redraws)
  BY <1>2, <1>3, CountsAreNumbers DEF Stats
<1>5. returns + 1 \in 0 .. MaxReturns
  BY <1>1, CountsAreNumbers DEF BindingsInv
<1> QED
  BY <1>1, <1>4, <1>5, EnteringHolds DEF BindingsInv

LEMMA GoToHolds ==
  ASSUME BindingsHypothesis, BindingsInv, NEW s \in {"map", "talk"}, GoTo(s)
  PROVE  BindingsInv'
<1>1. /\ screen = "dungeon" /\ screen' = s /\ pending' = (s = "map") /\ returns < MaxReturns
      /\ table' = table /\ viewId' = viewId /\ notesId' = notesId
      /\ hasInventory' = hasInventory /\ returns' = returns /\ redraws' = redraws
  BY DEF GoTo
<1>2. Bounded'
  BY <1>1 DEF BindingsInv, Bounded
<1>3. TypeOK' /\ NotesOnTop'
  BY <1>1 DEF BindingsInv, TypeOK, NotesOnTop
<1> QED
  BY <1>1, <1>2, <1>3 DEF BindingsInv

\* The map is drawn: its notes are the last region, whatever is left of older
\* ones.
LEMMA ShowMapHolds ==
  ASSUME BindingsHypothesis, BindingsInv, ShowMap
  PROVE  BindingsInv'
<1>1. PICK readable \in BOOLEAN :
        LET t == IF readable THEN table ELSE Unregister(table, notesId)
        IN table' = Register(t, "notes") /\ notesId' = t.nextId
  BY DEF ShowMap
<1> DEFINE t == IF readable THEN table ELSE Unregister(table, notesId)
<1>2. /\ screen = "map" /\ pending /\ ~pending' /\ pending' \in BOOLEAN
      /\ viewId' = viewId /\ hasInventory' = hasInventory /\ screen' = screen
      /\ returns' = returns /\ redraws' = redraws
  BY DEF ShowMap
<1>3. table' = Times(t, "notes", 1) /\ notesId' = t.nextId
  BY <1>1 DEF Register
<1>4. /\ Sound(t) /\ Saved(t, viewId, notesId) /\ Shows(t, viewId)
      /\ Len(t.regions) <= Len(table.regions)
  BY <1>2, CountsAreNumbers, UnregisterKeepsSaved DEF BindingsInv
<1> HIDE DEF t
<1>5. /\ t.nextId \in Nat /\ Len(t.regions) \in Nat
      /\ \A r \in On(t) : r.id \in Nat /\ r.id < t.nextId
  BY <1>4, SoundTypes
<1>6. Len(t.regions) <= Bound(returns, redraws)
  <2>1. Len(table.regions) <= Bound(returns, redraws)
    BY <1>2 DEF BindingsInv, Bounded
  <2>2. Bound(returns, redraws) \in Nat
    BY CountsAreNumbers, BoundGrows
  <2> QED
    BY <1>4, <1>5, <2>1, <2>2, CountsAreNumbers
<1>7. /\ Bound(returns, redraws) \in Nat
      /\ Bound(returns, redraws) + Stats <= TableLength
  BY <1>2, CountsAreNumbers, BoundGrows DEF BindingsInv
<1>8. Len(t.regions) + 1 <= TableLength
  BY <1>5, <1>6, <1>7, CountsAreNumbers DEF Stats
<1>9. "notes" \in Owners /\ 1 \in Nat
  BY DEF Owners
<1>10. /\ Sound(table') /\ table'.nextId = t.nextId + 1
       /\ Len(table'.regions) = Len(t.regions) + 1
       /\ On(table') = On(t) \cup New(t, "notes", 1)
  BY <1>3, <1>4, <1>8, <1>9, CountsAreNumbers, TimesAdds
<1>11. New(t, "notes", 1) = {[id |-> t.nextId, owner |-> "notes"]}
  <2>1. t.nextId + 1 - 1 = t.nextId /\ 1 .. 1 = {1}
    BY <1>5
  <2> QED
    BY <2>1 DEF New
<1>12. Saved(table', viewId, t.nextId) /\ Shows(table', viewId)
  <2>1. /\ viewId \in Nat /\ viewId < table'.nextId /\ viewId # t.nextId
        /\ t.nextId < table'.nextId
    BY <1>4, <1>5, <1>10 DEF Saved
  <2>2. \A r \in On(table') : r.owner = "view" <=> r.id = viewId
    BY <1>4, <1>10, <1>11, <2>1 DEF Saved
  <2>3. \A r \in On(table') : r.id = t.nextId => r.owner = "notes"
    BY <1>5, <1>10, <1>11
  <2>4. Shows(table', viewId)
    BY <1>4, <1>10 DEF Shows
  <2> QED
    BY <1>5, <2>1, <2>2, <2>3, <2>4 DEF Saved
<1>13. NotesOnTop'
  <2>1. Longer(t, table', "notes", 1)
    BY <1>3, <1>4, <1>9, CountsAreNumbers, TimesIsLonger DEF Sound
  <2>2. Len(t.regions) + 1 \in Len(t.regions) + 1 .. Len(t.regions) + 1
    BY <1>5
  <2>3. table'.regions[Len(t.regions) + 1] =
          [id |-> t.nextId + (Len(t.regions) + 1 - Len(t.regions)) - 1, owner |-> "notes"]
    BY <2>1, <2>2 DEF Longer
  <2>4. t.nextId + (Len(t.regions) + 1 - Len(t.regions)) - 1 = t.nextId
    BY <1>5
  <2> QED
    BY <1>3, <1>5, <1>10, <2>3, <2>4 DEF NotesOnTop
<1>14. Bounded'
  <2>1. Len(table'.regions) <= Bound(returns, redraws) + 1
    BY <1>5, <1>6, <1>7, <1>10
  <2> QED
    BY <1>2, <2>1 DEF Bounded
<1>15. TypeOK'
  BY <1>2 DEF BindingsInv, TypeOK
<1> QED
  BY <1>2, <1>3, <1>10, <1>12, <1>13, <1>14, <1>15 DEF BindingsInv

LEMMA RedrawMapHolds ==
  ASSUME BindingsHypothesis, BindingsInv, RedrawMap
  PROVE  BindingsInv'
<1>1. /\ screen = "map" /\ ~pending /\ pending' = TRUE
      /\ redraws < MaxRedraws /\ redraws' = redraws + 1 /\ screen' = screen
      /\ table' = table /\ viewId' = viewId /\ notesId' = notesId
      /\ hasInventory' = hasInventory /\ returns' = returns
  BY DEF RedrawMap
<1>2. Bounded'
  <2>1. Len(table.regions) <= Bound(returns, redraws) + 1
    BY <1>1 DEF BindingsInv, Bounded
  <2>2. /\ Bound(returns, redraws) \in Nat
        /\ Bound(returns, redraws + 1) = Bound(returns, redraws) + 1
    BY CountsAreNumbers, BoundGrows
  <2>3. /\ Len(table.regions) <= Bound(returns, redraws + 1)
        /\ Len(table.regions) <= Bound(returns, redraws + 1) + 1
    BY <2>1, <2>2, CountsAreNumbers
  <2> QED
    BY <1>1, <2>3 DEF Bounded
<1>3. TypeOK' /\ NotesOnTop'
  BY <1>1, CountsAreNumbers DEF BindingsInv, BindingsHypothesis, TypeOK, NotesOnTop
<1> QED
  BY <1>1, <1>2, <1>3 DEF BindingsInv

LEMMA ToggleFullscreenHolds ==
  ASSUME BindingsHypothesis, BindingsInv, ToggleFullscreen
  PROVE  BindingsInv'
<1>1. /\ screen = "dungeon" /\ table' = ViewAgain(table) /\ viewId' = table.nextId
      /\ notesId' = notesId /\ hasInventory' = hasInventory /\ screen' = screen
      /\ pending' = pending /\ returns' = returns /\ redraws' = redraws
  BY DEF ToggleFullscreen
<1>2. /\ Sound(table') /\ Saved(table', viewId', notesId') /\ Shows(table', viewId')
      /\ Len(table'.regions) = Len(table.regions)
  BY <1>1, CountsAreNumbers, ViewAgainIsSaved DEF BindingsInv
<1>3. Bounded'
  BY <1>1, <1>2 DEF BindingsInv, Bounded
<1>4. TypeOK' /\ NotesOnTop'
  BY <1>1 DEF BindingsInv, TypeOK, NotesOnTop
<1> QED
  BY <1>1, <1>2, <1>3, <1>4 DEF BindingsInv

-----------------------------------------------------------------------------
(* The theorem.                                                            *)

\* The invariant is inductive.
THEOREM RegionInvariant ==
  ASSUME BindingsHypothesis PROVE Spec => []BindingsInv
<1>1. Init => BindingsInv
  BY InitHolds
<1>2. BindingsInv /\ [Next]_vars => BindingsInv'
  <2> SUFFICES ASSUME BindingsInv, [Next]_vars PROVE BindingsInv'
    OBVIOUS
  <2>1. CASE StartGame
    BY <2>1, StartGameHolds
  <2>2. CASE GoTo("map") \/ GoTo("talk")
    BY <2>2, GoToHolds
  <2>3. CASE ShowMap
    BY <2>3, ShowMapHolds
  <2>4. CASE RedrawMap
    BY <2>4, RedrawMapHolds
  <2>5. CASE LeaveMap
    BY <2>5, LeaveMapHolds
  <2>6. CASE LeaveTalk
    BY <2>6, LeaveTalkHolds
  <2>7. CASE ToggleFullscreen
    BY <2>7, ToggleFullscreenHolds
  <2>8. CASE UNCHANGED vars
    BY <2>8 DEF vars, BindingsInv, TypeOK, NotesOnTop, Bounded
  <2> QED
    BY <2>1, <2>2, <2>3, <2>4, <2>5, <2>6, <2>7, <2>8 DEF Next
<1> QED
  BY <1>1, <1>2, PTL DEF Spec

\* While the bounds leave the handler table room (eighteen returns to the
\* dungeon at its true length), every click calls what was registered with the
\* region it matches, the view's saved id finds its one region, and the notes
\* take the clicks on a map that is shown (input.c:470, input.c:980).
THEOREM BindingsAreExact ==
  ASSUME BindingsHypothesis PROVE Spec => []BindingsExact
<1>1. BindingsInv => BindingsExact
  <2> SUFFICES ASSUME BindingsInv PROVE BindingsExact
    OBVIOUS
  <2> DEFINE n == Len(table.regions)
  <2>1. /\ n \in Nat /\ n <= TableLength /\ TableLength \in Nat
        /\ DOMAIN table.regions = 1 .. n /\ DOMAIN table.handlers = 1 .. TableLength
        /\ \A i \in 1 .. n : table.handlers[i] = table.regions[i].owner
    <3>1. /\ table.regions \in Seq(Region)
          /\ table.handlers \in [1 .. TableLength -> Owners \cup {Nobody}]
      BY DEF BindingsInv, Sound, Tables
    <3> QED
      BY <3>1, CountsAreNumbers DEF BindingsInv, Sound
  <2> HIDE DEF n
  <2>2. \A i \in 1 .. n : Called(i) = table.regions[i].owner
    BY <2>1 DEF Called
  <2>3. ClicksCallTheMatch
    BY <2>1, <2>2 DEF ClicksCallTheMatch
  <2>4. ASSUME screen # "menu"
        PROVE  \E i \in OwnedBy("view") :
                 OwnedBy("view") = {i} /\ table.regions[i].id = viewId
    <3>1. PICK i \in 1 .. n : table.regions[i].id = viewId
      BY <2>4 DEF BindingsInv, Shows, On, n
    <3>2. \A j \in 1 .. n : table.regions[j].owner = "view" <=> table.regions[j].id = viewId
      BY DEF BindingsInv, Saved, On, n
    <3>3. \A j \in 1 .. n : table.regions[j].id = viewId => i = j
      BY <3>1 DEF BindingsInv, Sound, n
    <3>4. OwnedBy("view") = {i}
      BY <2>1, <3>1, <3>2, <3>3 DEF OwnedBy
    <3> QED
      BY <3>1, <3>4
  <2>5. ASSUME screen = "map", ~pending
        PROVE  LET matching == {i \in DOMAIN table.regions :
                                  screen \in Screens(table.regions[i].owner)}
                   top == CHOOSE i \in matching : \A j \in matching : j <= i
               IN Called(top) = "notes"
    <3> DEFINE matching == {i \in DOMAIN table.regions :
                              screen \in Screens(table.regions[i].owner)}
               top == CHOOSE i \in matching : \A j \in matching : j <= i
    <3>1. n \in 1 .. n /\ table.regions[n].owner = "notes"
      BY <2>1, <2>5 DEF BindingsInv, NotesOnTop, n
    <3>2. n \in matching /\ matching \subseteq 1 .. n
      BY <2>1, <2>5, <3>1 DEF Screens
    <3> HIDE DEF matching
    <3>3. n \in matching /\ \A j \in matching : j <= n
      BY <2>1, <3>2
    <3>4. top \in matching /\ \A j \in matching : j <= top
      BY <3>3
    <3> HIDE DEF top
    <3>5. top = n
      BY <2>1, <3>2, <3>3, <3>4
    <3>6. Called(top) = "notes"
      BY <2>2, <3>1, <3>5
    <3> QED
      BY <3>6 DEF top, matching
  <2> QED
    BY <2>3, <2>4, <2>5 DEF BindingsExact
<1> QED
  BY <1>1, RegionInvariant, PTL
=============================================================================
