------------------------------- MODULE Barter -------------------------------
(***************************************************************************)
(* Goods that change hands in a conversation (babl.c).  Creature and       *)
(* player each have barter slots; a slot holds the number of an object     *)
(* that is in no chain, and a mark that it is part of the offer.  Scripts  *)
(* call the handlers in any order (the conversations are data), and        *)
(* between two calls the player drags things to, from and between slots.   *)
(***************************************************************************)
EXTENDS Integers, Sequences, FiniteSets, FiniteSetsExt, SequencesExt

CONSTANTS
  Goods,     \* object records
  Coins,     \* those that stack (object id 0xa1)
  Boxes,     \* containers, on which nothing can be dropped (0x80 .. 0x8f)
  Unwanted,  \* what the creature does not take (check_npc_item_preference)
  Places,    \* barter slots of each side, from 1 (4)
  MaxStack,  \* stacks stay smaller (999)
  None

Sides == {"player", "npc"}

VARIABLE
  b  \* npc: the creature's chain; slot, marked: of each side (DAT_000bbfd0 and
     \* DAT_000bbf98, DAT_000bbfe8 and DAT_000bbff0); held: on the cursor; mine, floor:
     \* what the player carries and what lies about; adrift: what place_object took out
     \* of the creature's chain and could not place; count: sizes of stacks, 0 for a
     \* free record; priced: whose price is kept for a slot of the player's
     \* (DAT_000bbfb0); open: DAT_000bc008; talking.  History: total, of all counts;
     \* taken: slots filled by take_from_npc; broken: how the chains were corrupted

vars == <<b>>

Range1(f) == {f[x] : x \in DOMAIN f} \ {None}
NoThings == [s \in Sides |-> [p \in Places |-> None]]
NoPrices == [p \in Places |-> None]
NoMarks == [s \in Sides |-> [p \in Places |-> FALSE]]

----------------------------------------------------------------------------
(* Slots.                                                                  *)

SetSlot(v, s, p, o) == [v EXCEPT !.slot = [v.slot EXCEPT ![s] = [v.slot[s] EXCEPT ![p] = o]]]
Mark(v, s, p, m) == [v EXCEPT !.marked = [v.marked EXCEPT ![s] = [v.marked[s] EXCEPT ![p] = m]]]
Unprice(v, p) == [v EXCEPT !.priced = [v.priced EXCEPT ![p] = None]]
Untake(v, p) == [v EXCEPT !.taken = v.taken \ {p}]

\* The slots whose things a bargain is about (barter_offer_is_empty).
Offered(v, s) == {p \in Places : v.marked[s][p] /\ v.slot[s][p] # None}

Together(v, o, q) == o \in Coins /\ q \in Coins /\ v.count[o] + v.count[q] < MaxStack
Pour(v, o, q) == [v EXCEPT !.count = [v.count EXCEPT ![q] = v.count[q] + v.count[o], ![o] = 0]]

\* Mutant: the record of coins that joined a stack is kept as well.
AddToNpcKeeps(v, o) ==
  LET stacks == SelectSeq(v.npc, LAMBDA q : Together(v, o, q))
      poured == IF stacks = <<>> THEN v ELSE Pour(v, o, stacks[1])
  IN  [poured EXCEPT !.npc = <<o>> \o v.npc]

\* add_item_to_npc_inventory: coins join the first stack with room.
AddToNpc(v, o) ==
  LET stacks == SelectSeq(v.npc, LAMBDA q : Together(v, o, q))
  IN  IF stacks = <<>> THEN [v EXCEPT !.npc = <<o>> \o v.npc] ELSE Pour(v, o, stacks[1])

\* finalize_npc_barter_items: what is not marked, or everything, goes back.
ReturnToNpc(v, all) ==
  FoldLeft(LAMBDA acc, p :
             IF acc.slot["npc"][p] = None \/ (acc.marked["npc"][p] /\ ~all) THEN acc
             ELSE [Mark(SetSlot(acc, "npc", p, None), "npc", p, FALSE) EXCEPT
                     !.npc = <<acc.slot["npc"][p]>> \o acc.npc],
           v, SetToSortSeq(Places, <))

\* finalize_player_barter_items: what is marked and wanted is the creature's.
TakeOffer(v) ==
  FoldLeft(LAMBDA acc, p :
             LET o == acc.slot["player"][p]
             IN  IF p \notin Offered(acc, "player") \/ o \in Unwanted THEN acc
                 ELSE Untake(AddToNpc(Mark(SetSlot(acc, "player", p, None), "player", p, FALSE), o), p),
           v, SetToSortSeq(Places, <))

\* give_barter_item_by_item_id
Give(v, o) ==
  LET ps == {p \in Places : v.slot["player"][p] = o}
  IN  FoldSet(LAMBDA p, acc : Untake(Mark(SetSlot(acc, "player", p, None), "player", p, FALSE), p),
              AddToNpc(v, o), ps)

\* drop_object_near_target: lying somewhere near, or destroyed.
DropNear(v, o) ==
  {[v EXCEPT !.floor = v.floor \cup {o}],
   [v EXCEPT !.total = v.total - v.count[o], !.count = [v.count EXCEPT ![o] = 0]]}

\* end_barter_ui: the slots keep what they held.
PutAllDown(v) ==
  LET all == Range1(v.slot["player"]) \cup Range1(v.slot["npc"])
  IN  FoldSet(LAMBDA o, acc : UNION {DropNear(u, o) : u \in acc}, {v}, all)

\* Mutant: the price of what lay there before stays with the slot.
PlaceKeepsPrice(v, p) ==
  LET q == v.slot["player"][p]
      put == IF q = None THEN [SetSlot(v, "player", p, v.held) EXCEPT !.held = None]
             ELSE IF q \in Boxes THEN v
             ELSE IF Together(v, v.held, q) THEN [Pour(v, v.held, q) EXCEPT !.held = None]
             ELSE [SetSlot(v, "player", p, v.held) EXCEPT !.held = q]
  IN  Untake(Mark(put, "player", p, TRUE), p)

\* place_item_in_barter_slot, merge_or_swap_barter_slot_item, and the end of
\* handle_barter_slot_click.
Place(v, p) ==
  LET q == v.slot["player"][p]
      put == IF q = None THEN [SetSlot(v, "player", p, v.held) EXCEPT !.held = None]
             ELSE IF q \in Boxes THEN v
             ELSE IF Together(v, v.held, q) THEN [Pour(v, v.held, q) EXCEPT !.held = None]
             ELSE [SetSlot(v, "player", p, v.held) EXCEPT !.held = q]
  IN  Untake(Unprice(Mark(put, "player", p, TRUE), p), p)

----------------------------------------------------------------------------
(* The conversation.                                                       *)

Init ==
  \E chain \in {s \in BoundedSeq(Goods, Cardinality(Goods)) : IsInjective(s)},
     sizes \in [Goods -> 0 .. 2] :
    /\ ToSet(chain) \subseteq {o \in Goods : sizes[o] > 0}
    /\ \A o \in Goods : sizes[o] = 2 => o \in Coins
    /\ b = [npc |-> chain, slot |-> NoThings, marked |-> NoMarks, held |-> None,
            mine |-> {o \in Goods : sizes[o] > 0} \ ToSet(chain), floor |-> {}, adrift |-> {},
            count |-> sizes, priced |-> NoPrices, open |-> FALSE, talking |-> FALSE,
            total |-> MapThenSumSet(LAMBDA o : sizes[o], Goods), taken |-> {}, broken |-> "no"]

\* enter_conversation_mode_screen, init_barter_ui
Begin ==
  /\ ~b.talking
  /\ b' = [b EXCEPT !.talking = TRUE, !.slot = NoThings, !.marked = NoMarks,
                    !.priced = NoPrices, !.taken = {}, !.open = FALSE]

\* setup_to_barter: some of the creature's things, in the order of its chain, go to
\* its slots in turn; what a slot held goes back to the head of the chain.
SetupToBarter(shown) ==
  LET chosen == SelectSeq(b.npc, LAMBDA o : o \in shown)
      step(acc, k) ==
        LET p == 1 + ((k - 1) % Cardinality(Places))
            back == IF acc.slot["npc"][p] = None THEN <<>> ELSE <<acc.slot["npc"][p]>>
        IN  [SetSlot(acc, "npc", p, chosen[k]) EXCEPT
               !.npc = back \o SelectSeq(acc.npc, LAMBDA o : o # chosen[k])]
  IN  /\ shown # {} /\ shown \subseteq ToSet(b.npc)
      /\ b' = FoldLeft(step, b, [k \in 1 .. Len(chosen) |-> k])

\* A click with the other button: handle_barter_slot_click with nothing held.
Toggle(s, p) ==
  /\ b.held = None /\ b.slot[s][p] # None
  /\ b' = Mark(b, s, p, ~b.marked[s][p])

\* pick_up_barter_slot_item
PickUp(v, s, p) ==
  LET up == Unprice(Mark([SetSlot(v, s, p, None) EXCEPT !.held = v.slot[s][p]], s, p, FALSE), p)
  IN  IF s = "player" THEN Untake(up, p) ELSE up

CanDrag(s, p) == b.held = None /\ b.slot[s][p] # None /\ (s = "npc" => b.open)

\* Dragging a whole thing out of a slot: to one of the player's slots, to what he
\* carries, or nowhere, and it stays on the cursor.
DragTo(s, p, to) ==
  /\ CanDrag(s, p)
  /\ b' = Place(PickUp(b, s, p), to)
DragOut(s, p, keep) ==
  /\ CanDrag(s, p)
  /\ LET up == PickUp(b, s, p)
     IN  b' = IF keep THEN up ELSE [up EXCEPT !.held = None, !.mine = up.mine \cup {up.held}]

\* Part of a stack: the rest should be left in the slot, but its number is read from
\* the wrong word of the object (pick_up_barter_slot_item reads a char pointer plus 2).
DragPart(s, p) ==
  /\ CanDrag(s, p) /\ b.count[b.slot[s][p]] > 1
  /\ b' = [b EXCEPT !.broken = "split"]

\* With something on the cursor: handle_barter_player_slot_drop and a click on the panel.
DropIn(p) ==
  /\ b.held # None
  /\ b' = Place(b, p)

\* The inventory panel: Backpack has its handlers.
Draw(o) == b.held = None /\ o \in b.mine /\ b' = [b EXCEPT !.held = o, !.mine = b.mine \ {o}]
Pack == b.held # None /\ b' = [b EXCEPT !.held = None, !.mine = b.mine \cup {b.held}]

----------------------------------------------------------------------------
(* What scripts call.                                                      *)

\* sum_barter_offer_value, of the player's side: a price that is kept is used again.
Price(v) ==
  [v EXCEPT !.priced = [p \in Places |->
     IF p \in Offered(v, "player") /\ v.priced[p] = None THEN v.slot["player"][p] ELSE v.priced[p]]]

\* do_offer: the creature has lost its patience, there is nothing to judge, it agrees
\* or it does not.
DoOffer ==
  \/ UNCHANGED b
  \/ /\ Offered(b, "player") = {} \/ Offered(b, "npc") = {}
     /\ b' = [b EXCEPT !.open = FALSE]
  \/ /\ Offered(b, "player") # {} /\ Offered(b, "npc") # {}
     /\ b' \in {Price(b), [TakeOffer(ReturnToNpc(Price(b), FALSE)) EXCEPT !.open = TRUE]}

\* do_demand, granted or not, and do_decline.
DoDemand == b' \in {[ReturnToNpc(b, FALSE) EXCEPT !.open = TRUE], ReturnToNpc(b, TRUE)}
DoDecline == b' = ReturnToNpc(b, TRUE)

\* give_to_npc: the whole list or nothing.
GiveToNpc(ps) ==
  /\ ps # {} /\ ps \subseteq Offered(b, "player")
  /\ b' = FoldSet(LAMBDA p, acc : Give(acc, b.slot["player"][p]), b, ps)

\* give_ptr_npc, from what the player carries: all of it, or n of a stack, and the
\* rest is a new record.
GivePtrNpc(o, n, rest) ==
  /\ o \in b.mine /\ n \in 1 .. b.count[o]
  /\ IF n = b.count[o] THEN rest = o ELSE b.count[rest] = 0 /\ {o, rest} \subseteq Coins
  /\ LET sizes == [b.count EXCEPT ![rest] = b.count[o] - n, ![o] = n]
     IN  b' = AddToNpc([b EXCEPT !.count = sizes, !.mine = IF n = b.count[o] THEN b.mine \ {o}
                                                          ELSE (b.mine \ {o}) \cup {rest}], o)

\* take_from_npc, take_id_from_npc: to the cursor; what is too heavy goes to a free
\* slot, without a mark and without forgetting the price, or to the ground.
TakeFromNpc(o, light) ==
  LET out == [b EXCEPT !.npc = SelectSeq(b.npc, LAMBDA q : q # o)]
      room == {p \in Places : b.slot["player"][p] = None}
  IN  /\ b.held = None /\ o \in ToSet(b.npc)
      /\ IF light THEN b' = [out EXCEPT !.held = o]
         ELSE IF room = {} THEN b' \in DropNear(out, o)
         ELSE b' = [Mark(SetSlot(out, "player", Min(room), o), "player", Min(room), FALSE) EXCEPT
                      !.taken = out.taken \cup {Min(room)}]

\* do_inv_create, do_inv_delete
InvCreate(o) ==
  /\ b.count[o] = 0
  /\ b' = AddToNpc([b EXCEPT !.count = [b.count EXCEPT ![o] = 1], !.total = b.total + 1], o)
InvDelete(o) ==
  /\ o \in ToSet(b.npc)
  /\ b' = [b EXCEPT !.npc = SelectSeq(b.npc, LAMBDA q : q # o), !.total = b.total - b.count[o],
                    !.count = [b.count EXCEPT ![o] = 0]]

\* place_object, of one of the creature's things or again of one left adrift: it comes to
\* lie somewhere, is destroyed as it settles, or, with no such tile or no room there, is
\* left in no chain, for the creature's has already lost it.
PlaceObject(o) ==
  /\ o \in ToSet(b.npc) \cup b.adrift
  /\ LET out == [b EXCEPT !.npc = SelectSeq(b.npc, LAMBDA q : q # o), !.adrift = @ \ {o}]
     IN  b' \in DropNear(out, o) \cup {[out EXCEPT !.adrift = @ \cup {o}]}

\* end_barter, as a script calls it: the end of the conversation puts everything down
\* again, from the slots that still hold it.
EndBarter ==
  b' \in IF Range1(b.slot["player"]) \cup Range1(b.slot["npc"]) = {} THEN {b}
         ELSE {[v EXCEPT !.broken = "twice"] : v \in PutAllDown(b)}

\* exit_talk_mode
Exit ==
  b' \in {[v EXCEPT !.talking = FALSE, !.slot = NoThings, !.marked = NoMarks,
                    !.priced = NoPrices, !.taken = {}] : v \in PutAllDown(b)}

Next ==
  /\ b.broken = "no"
  /\ \/ Begin
     \/ /\ b.talking
        /\ \/ \E shown \in SUBSET Goods : SetupToBarter(shown)
           \/ \E s \in Sides, p, to \in Places : Toggle(s, p) \/ DragTo(s, p, to) \/ DragPart(s, p)
           \/ \E s \in Sides, p \in Places, keep \in BOOLEAN : DragOut(s, p, keep)
           \/ \E p \in Places : DropIn(p)
           \/ \E o \in Goods : Draw(o) \/ InvCreate(o) \/ InvDelete(o) \/ PlaceObject(o)
           \/ \E ps \in SUBSET Places : GiveToNpc(ps)
           \/ \E o, rest \in Goods, n \in 1 .. MaxStack : GivePtrNpc(o, n, rest)
           \/ \E o \in Goods, light \in BOOLEAN : TakeFromNpc(o, light)
           \/ Pack \/ DoOffer \/ DoDemand \/ DoDecline \/ EndBarter \/ Exit

Spec == Init /\ [][Next]_vars

----------------------------------------------------------------------------
(* Properties.                                                             *)

\* However a conversation shows, drags, offers, demands, gives and takes things, each
\* is in exactly one place, a record that is free in none, and no coin is made or lost
\* but by create, delete and a fall (finalize_npc_barter_items and
\* finalize_player_barter_items, add_item_to_npc_inventory, merge_or_swap_barter_slot_item).
\* One place is none: what place_object could not place stays adrift, a record in use that
\* is in no chain, until a script places it again.
GoodsAccountedFor ==
  b.broken = "no" =>
    /\ \A o \in Goods :
         Cardinality({i \in DOMAIN b.npc : b.npc[i] = o})
           + Cardinality({x \in Sides \X Places : b.slot[x[1]][x[2]] = o})
           + Cardinality({i \in 1 .. 4 : o \in <<b.mine, b.floor, b.adrift, {b.held}>>[i]}) = IF b.count[o] = 0 THEN 0 ELSE 1
    /\ b.total = MapThenSumSet(LAMBDA o : b.count[o], Goods)

\* A price that do_offer has kept for a slot of the player's is the price of the thing
\* that is offered there, except that take_from_npc fills a slot and leaves the price of
\* what lay there before (sum_barter_offer_value).
PricesAreCurrent ==
  \A p \in Offered(b, "player") \ b.taken : b.priced[p] \in {None, b.slot["player"][p]}
=============================================================================
