----------------------------- MODULE PathQuery -----------------------------
(***************************************************************************)
(* One search (PathSearch) after the other, on any of a set of levels.     *)
(***************************************************************************)
EXTENDS PathSearch

CONSTANT
  Levels  \* of the instance

ASSUME LevelsAssumption == MaxDepth \in Nat /\ \A level \in Levels : IsLevel(level)

VARIABLES
  floor,   \* the level
  kept,    \* the byte beside the first column of DAT_001014e0
  asked,   \* the last question, from where and to where
  answer   \* and the path found

queryVars == <<floor, kept, asked, answer>>

QueryInit == floor \in Levels /\ kept = 0 /\ asked = <<>> /\ answer = <<>>

Ask(from, goal) ==
  /\ asked = <<>> /\ from # goal
  /\ LET found == FindPath(floor, kept, from, goal)
     IN  asked' = <<from, goal>> /\ answer' = found.path /\ kept' = found.row
  /\ UNCHANGED floor

Forget ==
  /\ asked # <<>>
  /\ asked' = <<>> /\ answer' = <<>>
  /\ UNCHANGED <<floor, kept>>

QueryNext == (\E from, goal \in floor.tiles : Ask(from, goal)) \/ Forget

QuerySpec == QueryInit /\ [][QueryNext]_queryVars

----------------------------------------------------------------------------
(* Properties.                                                             *)

\* A search finds the goal when it is next door, whatever was searched before, and
\* finds nothing else (creature_find_path_to_tile): the tile it looks around from
\* after the first layer lies in the rock of row 0, and there the search ends.
FindsOnlyNextDoor ==
  asked # <<>> => answer = IF Open(floor, asked[1], asked[2]) THEN <<asked[2]>> ELSE <<>>

\* The tiles within n steps.
Ball(from, n) ==
  LET grow[k \in 0 .. n] ==
        IF k = 0 THEN {from}
        ELSE UNION {{p} \cup {t \in floor.tiles : Open(floor, p, t)} : p \in grow[k - 1]}
  IN  grow[n]

\* As code-analysis.md has it, a goal within the search's reach is found, for the
\* search (creature_find_path_to_tile) is a breadth-first one with 0x1f steps.
\* It is not.
ReachableIsFound ==
  asked # <<>> /\ answer = <<>> => asked[2] \notin Ball(asked[1], MaxDepth)
=============================================================================
