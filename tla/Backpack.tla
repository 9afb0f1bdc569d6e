------------------------------ MODULE Backpack ------------------------------
(***************************************************************************)
(* What the player carries and what its panel shows (containers.c,         *)
(* inventory.c, item_use.c).  Every object he carries directly is shown in *)
(* a numbered slot; open containers are kept in a list, each inside the    *)
(* one before it, and the cells of a grid show a run of the last one's     *)
(* contents.  Slots and cells are copies of links: every handler keeps     *)
(* them in step by hand, as it does the weight he carries and the weight   *)
(* recorded for each open container.                                       *)
(***************************************************************************)
EXTENDS Integers, Sequences, FiniteSets, FiniteSetsExt, SequencesExt

CONSTANTS
  Boxes,     \* the containers (object ids 0x80 .. 0x8f)
  Stones,    \* records of a kind of object that stacks
  Hands,     \* slots 0 .. 10 that are in use: always shown
  Packs,     \* slots 11 .. 18: shown while no container is open
  Grid,      \* cells of the grid, slots 20 and up (8)
  Row,       \* cells it scrolls by (4)
  Capacity,  \* of a container
  MaxCarry,  \* g_player_max_carry_weight
  Sizes,     \* of the one stack at first
  Me,        \* the player's record, which heads a chain
  None

LeaveSlot == 19  \* the indicator of the open container
Cells == 20 .. 19 + Grid
Slots == Hands \cup Packs
Objects == Boxes \cup Stones

VARIABLES
  w,     \* inside: chains; count: size of a stack, 0 for a free record; shows:
         \* slots and cells; open: the list of open containers, each with its
         \* weight; drawnOpen: containers whose id shows them open; carried:
         \* g_player_carry_weight; forward, back: the arrows of the grid;
         \* drift: which weights are no longer kept exactly (history);
         \* broken: a null pointer was read, after which nothing is known
  held   \* the object on the cursor

vars == <<w, held>>

----------------------------------------------------------------------------
(* Reading.                                                                *)

Within(v, h) ==
  LET grow[n \in 0 .. Cardinality(Boxes) + 1] ==
        IF n = 0 THEN {h}
        ELSE LET seen == grow[n - 1]
             IN  seen \cup UNION {ToSet(v.inside[b]) : b \in seen \cap (Boxes \cup {Me})}
  IN  grow[Cardinality(Boxes) + 1] \ {Me}

\* calculate_object_weight and, for what is inside, sum_container_weight.
Weight(v, o) == MapThenSumSet(LAMBDA p : v.count[p], Within(v, o))
ContentsWeight(v, h) == MapThenSumSet(LAMBDA p : v.count[p], Within(v, h) \ {h})

Current(v) == IF v.open = <<>> THEN None ELSE v.open[Len(v.open)].box
OpenBoxes(v) == {v.open[i].box : i \in DOMAIN v.open}
Shown(v) == Hands \cup (IF v.open = <<>> THEN Packs ELSE Cells)
Carried(v) == Within(v, Me)
Lying == {o \in Objects : w.count[o] > 0 /\ o # held} \ (Carried(w) \cup
           (IF held = None THEN {} ELSE Within(w, held)) \cup
           UNION {ToSet(w.inside[b]) : b \in Boxes})
FreeRecords(v) == {s \in Stones : v.count[s] = 0}
CanStack(v, o, p) == o \in Stones /\ p \in Stones

\* The weight to add is within the capacity of every open container.
OpenHold(v, weight) == \A i \in DOMAIN v.open : v.open[i].weight + weight <= Capacity[v.open[i].box]

\* check_object_fits_in_slot: one's own slots take anything but for the hands,
\* which depends on the object (willing).
FitsInSlot(v, o, i, willing) ==
  IF i \in Slots /\ v.shows[i] \notin Boxes THEN i \in Packs \/ willing
  ELSE IF i = LeaveSlot /\ Len(v.open) = 1 THEN \E p \in Packs : v.shows[p] = None
  ELSE LET box == IF i = LeaveSlot THEN v.open[Len(v.open) - 1].box
                  ELSE IF v.shows[i] \in Boxes THEN v.shows[i] ELSE Current(v)
       IN  /\ ContentsWeight(v, box) + Weight(v, o) <= Capacity[box]
           /\ i \in Cells => OpenHold(v, Weight(v, o))

----------------------------------------------------------------------------
(* Writing.                                                                *)

SetChain(v, h, chain) == [v EXCEPT !.inside = [v.inside EXCEPT ![h] = chain]]
Show(v, i, o) == [v EXCEPT !.shows = [v.shows EXCEPT ![i] = o]]
AddCarried(v, n) == [v EXCEPT !.carried = v.carried + n]

\* n is added to the weight of the first k open containers.
AddOpen(v, k, n) ==
  [v EXCEPT !.open = [i \in DOMAIN v.open |->
     IF i <= k THEN [v.open[i] EXCEPT !.weight = v.open[i].weight + n] ELSE v.open[i]]]

Drift(v, what) == [v EXCEPT !.drift = v.drift \cup {what}]

\* Bound: one handler of a behaviour loses count.
Exact == w.drift = {}
Break(v) == [v EXCEPT !.broken = TRUE]

\* free_object_slot, of a stack.
FreeStack(v, o) == [v EXCEPT !.count = [v.count EXCEPT ![o] = 0]]

\* The cells show the contents from the given place on.
ShowFrom(v, start) ==
  LET chain == v.inside[Current(v)]
  IN  [v EXCEPT !.shows = [i \in DOMAIN v.shows |->
         IF i \notin Cells THEN v.shows[i]
         ELSE LET k == start + i - 20 IN IF k \in DOMAIN chain THEN chain[k] ELSE None]]

\* repopulate_container_grid_slots: from the first object the cells still show;
\* when they show none of the contents, the last rows.
Repopulate(v) ==
  LET chain == v.inside[Current(v)]
      filled == {i \in Cells : v.shows[i] # None}
      first == v.shows[Min(filled)]
  IN  IF filled # {} /\ first \in ToSet(chain)
      THEN ShowFrom(v, CHOOSE k \in DOMAIN chain : chain[k] = first)
      ELSE ShowFrom(v, 1 + Row * Min({k \in 0 .. Len(chain) : Row * k + Grid >= Len(chain)}))

\* refresh_container_view
Refresh(v) ==
  LET chain == v.inside[Current(v)]
  IN  [v EXCEPT !.back = v.shows[20] # (IF chain = <<>> THEN None ELSE chain[1]),
                !.forward = v.shows[19 + Grid] # None]

\* release_container_reference, for each that closes.
Release(v, boxes) == [v EXCEPT !.drawnOpen = v.drawnOpen \ boxes]

\* Mutant: the containers stay drawn open.
FreeOpenChainForgets(v) == [v EXCEPT !.open = <<>>]

\* free_open_container_chain
FreeOpenChain(v) == [Release(v, OpenBoxes(v)) EXCEPT !.open = <<>>]

\* close_backpack_container: the cells keep what they showed.
CloseAll(v) == [FreeOpenChain(v) EXCEPT !.forward = FALSE, !.back = FALSE]

\* Mutant: the weight carried stays as it was.
ExtractKeepsWeight(v, i, n) ==
  LET o == v.shows[i]
      chain == IF i \in Slots THEN Me ELSE Current(v)
      rest == IF n # 0 /\ v.count[o] > n THEN Min(FreeRecords(v)) ELSE None
      split == IF rest = None THEN v
               ELSE [v EXCEPT !.count = [v.count EXCEPT ![o] = n, ![rest] = v.count[o] - n]]
      k == CHOOSE j \in DOMAIN v.inside[chain] : v.inside[chain][j] = o
  IN  Show(SetChain(split, chain, IF rest = None THEN RemoveAt(v.inside[chain], k)
                                  ELSE ReplaceAt(v.inside[chain], k, rest)), i, rest)

\* extract_matching_object_from_slot, asked for whatever the slot shows: n of a
\* stack or, for 0, all of it.  The slot is cleared before the search for it that
\* should lower the weights of the open containers, so that they are not lowered.
Extract(v, i, n) ==
  LET o == v.shows[i]
      chain == IF i \in Slots THEN Me ELSE Current(v)
      rest == IF n # 0 /\ v.count[o] > n THEN Min(FreeRecords(v)) ELSE None
      split == IF rest = None THEN v
               ELSE [v EXCEPT !.count = [v.count EXCEPT ![o] = n, ![rest] = v.count[o] - n]]
      k == CHOOSE j \in DOMAIN v.inside[chain] : v.inside[chain][j] = o
      left == SetChain(split, chain, IF rest = None THEN RemoveAt(v.inside[chain], k)
                                     ELSE ReplaceAt(v.inside[chain], k, rest))
  IN  AddCarried(Show(left, i, rest), -Weight(split, o))

\* place_object_in_backpack_slot
PutInSlot(v, o, i) ==
  LET chain == IF i \in Slots THEN Me ELSE Current(v)
      weighed == IF i \in Slots THEN v ELSE AddOpen(v, Len(v.open), Weight(v, o))
      put == SetChain(Show(weighed, i, o), chain, Append(v.inside[chain], o))
  IN  AddCarried(put, Weight(v, o))

\* One stack is added to another, and its record is freed.
Merge(v, o, into) ==
  FreeStack([v EXCEPT !.count = [v.count EXCEPT ![into] = v.count[into] + v.count[o]]], o)

\* auto_place_in_container, when it fits.  The weights of open containers are
\* raised when a cell was chosen or the parent of the current one, and not when
\* an open container's own slot was.
AutoPlace(v, o, i) ==
  LET root == i = LeaveSlot /\ Len(v.open) = 1
      target == IF root THEN Me
                ELSE IF i = LeaveSlot THEN v.open[Len(v.open) - 1].box ELSE v.shows[i]
      raised == IF i \in Cells THEN Len(v.open) ELSE IF i = LeaveSlot THEN Len(v.open) - 1 ELSE 0
      weighed == AddOpen(AddCarried(v, Weight(v, o)), raised, Weight(v, o))
      noted == IF i \in Slots /\ target \in OpenBoxes(v) THEN Drift(weighed, "open") ELSE weighed
      chain == v.inside[target]
      stacks == {k \in DOMAIN chain : CanStack(v, o, chain[k])}
      appended == SetChain(noted, target, Append(chain, o))
      placed == IF stacks # {} THEN Merge(noted, o, chain[Min(stacks)])
                ELSE IF root THEN Show(appended, Min({p \in Packs : v.shows[p] = None}), o)
                ELSE appended
  IN  IF target = Current(v) THEN Repopulate(placed) ELSE placed

Running == ~w.broken

----------------------------------------------------------------------------
(* The handlers.                                                           *)

Init ==
  /\ held = None
  /\ \E s \in Stones, n \in Sizes :
       w = [inside |-> [h \in Boxes \cup {Me} |-> <<>>],
            count |-> [o \in Objects |-> IF o \in Boxes THEN 1 ELSE IF o = s THEN n ELSE 0],
            shows |-> [i \in Slots \cup Cells |-> None],
            open |-> <<>>, drawnOpen |-> {}, carried |-> 0,
            forward |-> FALSE, back |-> FALSE, drift |-> {}, broken |-> FALSE]

\* interact_default, check_object_carry_weight, attach_picked_up_object_to_cursor
PickUp(o) ==
  /\ held = None /\ o \in Lying
  /\ w.carried + Weight(w, o) <= MaxCarry
  /\ held' = o /\ UNCHANGED w

\* drop_held_object_near_player
Drop == held # None /\ held' = None /\ UNCHANGED w

\* handle_inventory_panel_click, swap_cursor_and_slot_item, prompt_split_object_stack:
\* n of what slot i shows is taken; an open container stays where it is.
TakeFrom(i, n) ==
  /\ held = None /\ i \in Shown(w) /\ w.shows[i] # None
  /\ w.shows[i] \notin OpenBoxes(w)
  /\ n \in 1 .. w.count[w.shows[i]]
  /\ n < w.count[w.shows[i]] => FreeRecords(w) # {}
  /\ held' = w.shows[i]
  /\ LET taken == Extract(w, i, n)
     IN  w' = IF i \in Slots THEN taken
              ELSE Refresh(Repopulate(AddOpen(taken, Len(w.open), -Weight(taken, w.shows[i]))))

\* handle_backpack_slot_click, place_held_item_in_empty_slot
PutInEmpty(i) ==
  /\ held # None /\ i \in Shown(w) /\ w.shows[i] = None
  /\ FitsInSlot(w, held, i, TRUE)
  /\ w' = LET put == PutInSlot(w, held, i) IN IF i \in Slots THEN put ELSE Refresh(Repopulate(put))
  /\ held' = None

\* handle_backpack_slot_interact on a container.
PutInBox(i) ==
  /\ held # None /\ i \in Shown(w) /\ w.shows[i] \in Boxes
  /\ i \in Slots /\ w.shows[i] \in OpenBoxes(w) => Exact
  /\ FitsInSlot(w, held, i, TRUE)
  /\ w' = AutoPlace(w, held, i) /\ held' = None

\* handle_backpack_slot_interact on a stack of the same kind.
PutOnStack(i) ==
  /\ held # None /\ i \in Shown(w) /\ w.shows[i] # None
  /\ CanStack(w, held, w.shows[i]) /\ FitsInSlot(w, held, i, TRUE)
  /\ LET n == w.count[held]
     IN  w' = Merge(AddCarried(IF i \in Cells THEN AddOpen(w, Len(w.open), n) ELSE w, n), held, w.shows[i])
  /\ held' = None

\* handle_backpack_slot_interact on another object in a slot: they change places,
\* or the old one is put back.
SwapInSlot(i, willing) ==
  /\ held # None /\ i \in Shown(w) \cap Slots
  /\ w.shows[i] \in Objects \ Boxes /\ ~CanStack(w, held, w.shows[i])
  /\ LET taken == Extract(w, i, 0)
     IN  IF FitsInSlot(taken, held, i, willing)
         THEN w' = PutInSlot(taken, held, i) /\ held' = w.shows[i]
         ELSE w' = PutInSlot(taken, w.shows[i], i) /\ UNCHANGED held

\* handle_backpack_slot_interact on another object in a cell
\* (place_object_in_equipment_slot): the new one takes its place in the chain.
SwapInCell(i) ==
  /\ held # None /\ i \in Shown(w) \cap Cells
  /\ w.shows[i] \in Objects \ Boxes /\ ~CanStack(w, held, w.shows[i])
  /\ LET old == w.shows[i]
         chain == w.inside[Current(w)]
         k == CHOOSE j \in DOMAIN chain : chain[j] = old
         taken == Extract(w, i, 0)
         new == IF FitsInSlot(taken, held, i, TRUE) THEN held ELSE old
         put == SetChain(Show(taken, i, new), Current(w), ReplaceAt(chain, k, new))
     IN  /\ w' = Repopulate(AddCarried(AddOpen(put, Len(w.open), Weight(w, new) - Weight(w, old)), Weight(w, new)))
         /\ held' = IF new = held THEN old ELSE held

\* handle_object_drop_target on the indicator, with an object: it goes to the
\* container around the current one, or to one's own slots; an option then leaves.
LeaveLevel(v) ==
  IF v.open = <<>> THEN v
  ELSE IF Len(v.open) = 1 THEN CloseAll(v)
  ELSE LET up == [Release(v, {Current(v)}) EXCEPT !.open = SubSeq(v.open, 1, Len(v.open) - 1)]
           chain == up.inside[Current(up)]
       IN  Refresh(Repopulate(Show(up, 20, IF chain = <<>> THEN None ELSE chain[1])))

PutOutside(autoclose) ==
  /\ held # None /\ w.open # <<>>
  /\ LET fits == FitsInSlot(w, held, LeaveSlot, TRUE)
         put == IF fits THEN AutoPlace(w, held, LeaveSlot) ELSE w
     IN  /\ w' = IF autoclose THEN LeaveLevel(put) ELSE put
         /\ held' = IF fits THEN None ELSE held

\* leave_nested_container_level, the indicator without an object.
Leave == held = None /\ w.open # <<>> /\ w' = LeaveLevel(w) /\ UNCHANGED held

\* find_or_assign_object_widget fails for what lies inside something another slot
\* shows, the current container apart.
Findable(b, i) ==
  ~\E j \in Shown(w) : j < i /\ w.shows[j] \in Boxes /\ w.shows[j] # Current(w) /\ b \in Within(w, w.shows[j])

\* try_combine_or_stow_object, open_backpack_container
OpenBox(i) ==
  /\ held = None /\ i \in Shown(w) /\ w.shows[i] \in Boxes /\ Findable(w.shows[i], i)
  /\ LET b == w.shows[i]
         v == IF i \in Hands THEN FreeOpenChain(w) ELSE w
         pushed == [v EXCEPT !.open = Append(v.open, [box |-> b, weight |-> ContentsWeight(v, b)]),
                             !.drawnOpen = v.drawnOpen \cup {b}]
     IN  w' = IF b \in OpenBoxes(w) THEN CloseAll(w) ELSE Refresh(ShowFrom(pushed, 1))
  /\ UNCHANGED held

\* scroll_container_grid_up
ScrollForward ==
  /\ w.open # <<>> /\ w.forward
  /\ w' = Refresh(Repopulate(Show(w, 20, w.shows[20 + Row])))
  /\ UNCHANGED held

\* scroll_container_grid_down
ScrollBack ==
  /\ w.open # <<>> /\ w.back
  /\ LET chain == w.inside[Current(w)]
         k == CHOOSE j \in DOMAIN chain : chain[j] = w.shows[20]
     IN  /\ w.shows[20] \in ToSet(chain)
         /\ w' = Refresh(Repopulate(Show(w, 20, chain[IF k = 1 THEN 1 ELSE 1 + Row * ((k - 2) \div Row)])))
  /\ UNCHANGED held

\* reduce_object_count by one, as an object is used up (finish_object_use) that was
\* chosen before the panel changed; the caller discards what comes off.  Without an
\* open container a cell's chain is that of a null object, and so is the chain that
\* the view is built from.
UseUp(o) ==
  /\ o \in Stones \cap Carried(w)
  /\ w.count[o] > 1 => FreeRecords(w) # {}
  /\ Exact \/ \E i \in Slots : w.shows[i] = o
  /\ LET places == {i \in Slots \cup Cells : w.shows[i] = o}
         i == Min(places)
         full == Weight(w, o)
         h == CHOOSE c \in Boxes \cup {Me} : o \in ToSet(w.inside[c])
         k == CHOOSE j \in DOMAIN w.inside[h] : w.inside[h][j] = o
     IN  w' = IF places # {} /\ i \in Slots THEN FreeStack(Extract(w, i, 1), o)
              ELSE IF w.open = <<>> THEN Break(w)
              ELSE IF places # {}
              THEN LET v == Refresh(Repopulate(FreeStack(Extract(w, i, 1), o)))
                       last == Len(v.open)
                       lowered == [v EXCEPT !.open = [v.open EXCEPT ![last] =
                                     [v.open[last] EXCEPT !.weight = v.open[last].weight - full]]]
                   IN  Drift(lowered, "open")
              ELSE IF w.count[o] > 1
              THEN LET fewer == [w EXCEPT !.count = [w.count EXCEPT ![o] = w.count[o] - 1]]
                   IN  Drift(Drift(AddCarried(Refresh(Repopulate(fewer)), -full), "carried"), "open")
              ELSE LET gone == SetChain(FreeStack(w, o), h, RemoveAt(w.inside[h], k))
                   IN  Drift(AddCarried(Refresh(Repopulate(gone)), -full), "open")
  /\ UNCHANGED held

Next ==
  /\ Running
  /\ \/ Drop \/ Leave \/ ScrollForward \/ ScrollBack
     \/ \E o \in Objects : PickUp(o) \/ UseUp(o)
     \/ \E b \in BOOLEAN : PutOutside(b)
     \/ \E i \in Slots \cup Cells :
          \/ PutInEmpty(i) \/ PutInBox(i) \/ PutOnStack(i) \/ SwapInCell(i) \/ OpenBox(i)
          \/ \E n \in 1 .. Max(Sizes) : TakeFrom(i, n)
          \/ \E willing \in BOOLEAN : SwapInSlot(i, willing)

Spec == Init /\ [][Next]_vars

----------------------------------------------------------------------------
(* Properties, as long as nothing is broken.                               *)

\* Every object carried directly is shown by one slot and no slot shows another;
\* the list of open containers leads from one's own things inwards, and just these
\* are drawn open; the cells show a run of the last one's contents, in order
\* (extract_matching_object_from_slot, repopulate_container_grid_slots and every
\* handler of the panel).
PanelShowsPack ==
  Running =>
    LET mine == w.inside[Me]
        used == {i \in Slots : w.shows[i] # None}
        chain == w.inside[Current(w)]
    IN  /\ {w.shows[i] : i \in used} = ToSet(mine) /\ Cardinality(used) = Len(mine)
        /\ w.drawnOpen = OpenBoxes(w)
        /\ \A i \in DOMAIN w.open :
             w.open[i].box \in ToSet(w.inside[IF i = 1 THEN Me ELSE w.open[i - 1].box])
        /\ w.open # <<>> =>
             \E start \in 1 .. Max({1, Len(chain)}) :
               \A i \in Cells : w.shows[i] = (IF start + i - 20 \in DOMAIN chain
                                              THEN chain[start + i - 20] ELSE None)

\* However objects are moved, stacked, split and swapped, the weight carried and the
\* weights of the open containers are those of the things in them, except after the
\* handlers known to lose count (reduce_object_count, and auto_place_in_container
\* through the slot of an open container).
WeightsAreExact ==
  Running =>
    /\ "carried" \notin w.drift => w.carried = ContentsWeight(w, Me)
    /\ "open" \notin w.drift =>
         \A i \in DOMAIN w.open : w.open[i].weight = ContentsWeight(w, w.open[i].box)
=============================================================================
