--------------------------- MODULE MessageScroll ---------------------------
(***************************************************************************)
(* The message scroll of hud.c: two panels that print wrapped text row by  *)
(* row, scroll when they are full and stop for [MORE] before what has not  *)
(* been read would go.  A text is the rows that wrapping makes of it.      *)
(***************************************************************************)
EXTENDS Integers, Sequences

CONSTANTS
  Rows,      \* the rows of a panel
  Texts      \* the texts the game prints, as sequences of rows

VARIABLES
  panels,    \* g_msg_scroll_panel_state and its conversation twin
  mode,      \* DAT_00250714: "normal", "conversation" or "menu"
  keep,      \* DAT_00250718: what stands there goes with the next message
  budget,    \* DAT_00250710: rows that may scroll away unasked
  job,       \* the rows of the running print that are not drawn yet
  asking,    \* the print waits at a [MORE]
  unread,    \* rows drawn by this print since its last [MORE]
  began,     \* how it began: "below" what stood there, or "beside" it
  asked,     \* the text asks for a [MORE] of its own (\m)
  missed     \* an unread row has scrolled away

scrollVars == <<panels, mode, keep, budget, job, asking, unread, began, asked, missed>>

Blank == 0      \* what a row shows: nothing, an answer to choose (1, 2, ...)
Prose == -1     \* or any other text
PanelOf(m) == IF m = "conversation" THEN "conversation" ELSE "normal"
Here == PanelOf(mode)
Cleared == [shown |-> [r \in 0 .. Rows - 1 |-> Blank], row |-> 0, pending |-> FALSE]

\* A row of a text: what it shows, whether it opens with \m, whether more text
\* follows it (span_length) and whether it ends its line.
Text(what, n, ends) ==
  [i \in 1 .. n |-> [shows |-> what, more |-> FALSE, follows |-> i < n, ends |-> i < n \/ ends]]

ScrollInit ==
  /\ panels = [p \in {"normal", "conversation"} |-> Cleared]
  /\ mode = "normal" /\ keep = FALSE /\ budget = 0 /\ job = <<>> /\ asking = FALSE
  /\ unread = {} /\ began = "below" /\ asked = FALSE /\ missed = FALSE

Printing == job # <<>>

\* The record of a panel after one row has gone at its top.
ScrolledUp(p) ==
  [p EXCEPT !.shown = [r \in DOMAIN @ |->
     IF r < p.row THEN @[r + 1] ELSE IF r = p.row THEN Blank ELSE @[r]]]
StillUnread == {r - 1 : r \in unread \ {0}}
Lost == missed \/ 0 \in unread

\* message_scroll_print_wrapped on the panels as they are then: a message over
\* a list of answers clears it.
PrintTextOn(now, held, m, text) ==
  LET clears == held /\ m # "conversation"
      start == IF clears THEN Cleared ELSE now[PanelOf(m)]
  IN  /\ ~Printing /\ mode' = m
      /\ panels' = [now EXCEPT ![PanelOf(m)] = start]
      /\ keep' = (held /\ ~clears)
      /\ budget' = start.row
      /\ job' = text /\ asking' = FALSE /\ unread' = {} /\ missed' = FALSE
      /\ began' = IF start.pending THEN "below" ELSE "beside"
      /\ asked' = \E i \in DOMAIN text : text[i].more
PrintText(m, text) == PrintTextOn(panels, keep, m, text)

Row == Head(job)
Panel == panels[Here]
Fits == Panel.row + 1 < Rows
Spent == budget - (IF Row.follows THEN 1 ELSE 0) < 0
MustAsk == Row.more \/ (Panel.pending /\ Spent /\ ~Fits)

\* Draw the next row on row "at" of panel p.
Draw(p, at) ==
  /\ panels' = [panels EXCEPT ![Here] =
       [shown |-> [p.shown EXCEPT ![at] = Row.shows], row |-> at, pending |-> Row.ends]]
  /\ job' = Tail(job)

\* msg_scroll_draw_wrapped_span, when no [MORE] is due.
DrawBeside ==
  /\ Printing /\ ~asking /\ ~MustAsk /\ ~Panel.pending
  /\ Draw(Panel, Panel.row) /\ unread' = unread \cup {Panel.row}
  /\ UNCHANGED <<mode, keep, budget, asking, began, asked, missed>>

DrawBelow ==
  /\ Printing /\ ~asking /\ ~MustAsk /\ Panel.pending /\ Fits
  /\ Draw(Panel, Panel.row + 1) /\ unread' = unread \cup {Panel.row + 1}
  /\ UNCHANGED <<mode, keep, budget, asking, began, asked, missed>>

DrawScrolled ==
  /\ Printing /\ ~asking /\ ~MustAsk /\ Panel.pending /\ ~Fits
  /\ Draw(ScrolledUp(Panel), Panel.row) /\ unread' = StillUnread \cup {Panel.row}
  /\ budget' = budget - 1 /\ missed' = Lost
  /\ UNCHANGED <<mode, keep, asking, began, asked>>

\* msg_scroll_more_prompt, up to its wait: a row makes room for [MORE] ...
AskMore ==
  /\ Printing /\ ~asking /\ MustAsk
  /\ panels' = [panels EXCEPT ![Here] = ScrolledUp(@)]
  /\ unread' = StillUnread /\ missed' = Lost /\ asking' = TRUE
  /\ UNCHANGED <<mode, keep, budget, job, began, asked>>

\* The mutant: a [MORE] makes every row above it free to go.
BudgetOfPanel == Panel.row

\* ... and after it: what is shown has been read.  A [MORE] the text asked for
\* leaves the pending end of line, the other one has taken its place.
BudgetAfterMore == Panel.row - 1
Answer ==
  /\ asking /\ asking' = FALSE /\ budget' = BudgetAfterMore /\ unread' = {}
  /\ panels' = [panels EXCEPT ![Here].pending = @ /\ Row.more]
  /\ job' = [job EXCEPT ![1].more = FALSE]
  /\ UNCHANGED <<mode, keep, began, asked, missed>>

PrintsOn == DrawBeside \/ DrawBelow \/ DrawScrolled \/ AskMore \/ Answer

\* No row of a message scrolls away before the player has been asked, unless
\* the message begins beside what stands there (an empty panel included) or
\* asks by itself (hud.c:1962 counts the rows above the one it begins under).
RowsAreRead == missed => began = "beside" \/ asked

=============================================================================
