---------------------------- MODULE ResponseMenu ----------------------------
(***************************************************************************)
(* The answers a conversation offers (babl.c): babl_menu and babl_fmenu    *)
(* print a numbered list to the message scroll and note which rows each    *)
(* answer takes, the wait loop puts the list back when a message has       *)
(* cleared it, and a digit or a click chooses.                             *)
(***************************************************************************)
EXTENDS MessageScroll

CONSTANTS
  Menus      \* the menus of the scripts, each as the rows its answers take

VARIABLES
  menu,      \* the answers on offer (DAT_00100680), by the rows they take
  left,      \* the answers still to print
  current,   \* the answer in print, or 0
  list,      \* "new" while the table is written, "again" for a redraw, or "up"
  table,     \* DAT_00100770: the answer on each row of the scroll
  last,      \* the last row given to an answer (sVar13 - 1)
  armed,     \* DAT_00100790: a choice is wanted
  waiting,   \* DAT_0010078c: the wait loop runs
  choice     \* DAT_00100788

menuVars == <<menu, left, current, list, table, last, armed, waiting, choice>>
vars == <<scrollVars, menuVars>>

TableRows == 0 .. 9
NoAnswer == -1

Init ==
  /\ ScrollInit
  /\ menu = <<>> /\ left = <<>> /\ current = 0 /\ list = "up"
  /\ table = [r \in TableRows |-> NoAnswer] /\ last = -1
  /\ armed = FALSE /\ waiting = FALSE /\ choice = 0

InOrder(m) == [i \in DOMAIN m |-> i]
Resting == ~Printing /\ list = "up"

\* Scripts and everything else print while no list is up.
Message(m, text) == Resting /\ ~waiting /\ PrintText(m, text) /\ UNCHANGED menuVars

\* babl_menu and babl_fmenu, up to their print loop.
OpenMenu(m) ==
  /\ Resting /\ ~waiting
  /\ menu' = m /\ left' = InOrder(m) /\ list' = "new" /\ armed' = TRUE
  /\ table' = [r \in TableRows |-> NoAnswer] /\ last' = -1
  /\ panels' = [panels EXCEPT !["normal"] = Cleared]
  /\ UNCHANGED <<mode, keep, budget, job, asking, unread, began, asked, missed>>
  /\ UNCHANGED <<current, waiting, choice>>

PrintAnswer ==
  /\ left # <<>> /\ current = 0
  /\ PrintText("menu", Text(Head(left), menu[Head(left)], TRUE))
  /\ current' = Head(left) /\ left' = Tail(left)
  /\ UNCHANGED <<menu, list, table, last, armed, waiting, choice>>

\* The mutant: the rows are counted from the one the last answer ended on.
TakenFromLast == (IF last < 0 THEN 0 ELSE last) .. panels["normal"].row - 1

\* The rows an answer has taken: up to the one its print ended on.
RowsTaken == last + 1 .. panels["normal"].row

AnswerPrinted ==
  /\ current # 0 /\ ~Printing /\ current' = 0
  /\ IF list = "new"
     THEN /\ table' = [r \in TableRows |-> IF r \in RowsTaken THEN current ELSE table[r]]
          /\ last' = panels["normal"].row
     ELSE UNCHANGED <<table, last>>
  /\ UNCHANGED <<scrollVars, menu, left, list, armed, waiting, choice>>

ListIsUp ==
  /\ list # "up" /\ left = <<>> /\ current = 0
  /\ list' = "up" /\ waiting' = TRUE /\ keep' = TRUE
  /\ UNCHANGED <<panels, mode, budget, job, asking, unread, began, asked, missed>>
  /\ UNCHANGED <<menu, left, current, table, last, armed, choice>>

\* run_babl_menu_wait_loop: a message has cleared the list.
Redraw ==
  /\ waiting /\ Resting /\ ~keep
  /\ list' = "again" /\ left' = InOrder(menu)
  /\ panels' = [panels EXCEPT !["normal"] = Cleared]
  /\ UNCHANGED <<mode, keep, budget, job, asking, unread, began, asked, missed>>
  /\ UNCHANGED <<menu, current, table, last, armed, waiting, choice>>

Polls == waiting /\ Resting /\ keep

\* Another binding of conversation mode, of the barter panels, prints.
Interrupt(text) == Polls /\ PrintText("normal", text) /\ UNCHANGED menuVars

\* select_babl_menu_response; the choice is echoed to the conversation panel.
Choose(k) ==
  IF armed /\ 0 < k /\ k <= Len(menu)
  THEN /\ armed' = FALSE /\ waiting' = FALSE /\ choice' = k
       /\ PrintTextOn([panels EXCEPT !["normal"] = Cleared], FALSE, "conversation",
                  Text(Prose, menu[k], TRUE))
       /\ UNCHANGED <<menu, left, current, list, table, last>>
  ELSE UNCHANGED <<scrollVars, menu, left, current, list, table, last, armed, waiting, choice>>

Digit(k) == Polls /\ k \in 1 .. 4 /\ Choose(k)

\* The row of a click is taken from byte 4 of the input state, where
\* poll_input_bindings has put 1 for "a click", and a short * has read on from
\* "+ 2"; the table is static and what lies before it is zero.
PointerByte == 1
ClickedRow == -((200 - PointerByte - 169) \div 6)
Click == Polls /\ Choose(IF ClickedRow \in TableRows THEN table[ClickedRow] ELSE 0)

Next ==
  \/ \E m \in {"normal", "conversation", "menu"}, t \in Texts : Message(m, t)
  \/ \E m \in Menus : OpenMenu(m)
  \/ PrintAnswer \/ AnswerPrinted \/ ListIsUp \/ Redraw
  \/ \E t \in Texts : Interrupt(t)
  \/ \E k \in 1 .. 4 : Digit(k)
  \/ Click
  \/ PrintsOn /\ UNCHANGED menuVars

Spec == Init /\ [][Next]_vars

\* The answers of a menu one under the other on the panel: where each begins, and where
\* the last one ends.
Layout(m, at) ==
  /\ at \in [0 .. Len(m) -> 0 .. Rows]
  /\ at[0] = 0 /\ \A i \in 1 .. Len(m) : at[i] = at[i - 1] + m[i]

\* While answers that fit the panel are up, also after messages and redraws,
\* the table names for each row the answer that is printed there (babl.c:2402).
TableMatchesScreen ==
  Polls /\ (\E at \in [0 .. Len(menu) -> 0 .. Rows] : Layout(menu, at)) =>
    \A r \in 0 .. Rows - 1 :
      table[r] = IF panels["normal"].shown[r] = Blank THEN NoAnswer ELSE panels["normal"].shown[r]
=============================================================================
