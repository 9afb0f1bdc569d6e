--------------------------- MODULE MCObjectArena ---------------------------
(* A small arena for TLC: three mobile slots (2..4) and three static slots  *)
(* (5..7), a collector that may destroy one tree for the mobile pool and    *)
(* two for the static one; and a bargain over records that are given out.   *)
(* The two share nothing, so one runs in a behaviour and the other rests.   *)
EXTENDS ObjectArena, TLC

CONSTANTS c1, c2, x, None, Goods, Coins, Boxes, Unwanted, Places, MaxStack

MCDespawnLimit == [p \in Pools |-> IF p = "mobile" THEN 1 ELSE 2]

VARIABLES which, b

Trade == INSTANCE Barter

MCInit ==
  /\ which \in {"arena", "trade"}
  /\ Init /\ Trade!Init
  /\ which # "trade" => b.total = 0

ArenaRuns == which = "arena" /\ Next /\ UNCHANGED <<which, b>>
TradeRuns == which = "trade" /\ Trade!Next /\ UNCHANGED <<which, vars>>
\* Barter stops where a record is broken.
TradeStops == b.broken # "no" /\ UNCHANGED <<which, vars, b>>

MCSpec == MCInit /\ [][ArenaRuns \/ TradeRuns \/ TradeStops]_<<which, vars, b>>

Symmetry == Permutations(Coins)

GoodsAccountedFor == which = "trade" => Trade!GoodsAccountedFor
PricesAreCurrent == which = "trade" => Trade!PricesAreCurrent
=============================================================================
