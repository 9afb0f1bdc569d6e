------------------------- MODULE ResponseMenuProofs -------------------------
(***************************************************************************)
(* Proofs about the message scroll under the menus of a conversation, for  *)
(* panels of two rows or more, any texts and any menus; and, in the second *)
(* half, about the table of answers, for panels of up to the ten rows that *)
(* the table has entries for.                                              *)
(***************************************************************************)
EXTENDS ResponseMenu, WellFoundedInduction, TLAPS

TextRows == [shows : Int, more : BOOLEAN, follows : BOOLEAN, ends : BOOLEAN]

\* A row tells whether more text comes after it (span_length of what is left).
TellsWhatFollows(t) == \A i \in DOMAIN t : t[i].follows <=> i < Len(t)
IsText(t) == t \in Seq(TextRows) /\ TellsWhatFollows(t)

MenuHypothesis ==
  /\ Rows \in Nat /\ Rows >= 2
  /\ \A t \in Texts : IsText(t)
  /\ \A m \in Menus : m \in Seq(Nat)

IsPanel(p) ==
  /\ p = [shown |-> p.shown, row |-> p.row, pending |-> p.pending]
  /\ p.row \in 0 .. Rows - 1

PanelTypes ==
  /\ panels = [p \in {"normal", "conversation"} |-> panels[p]]
  /\ \A p \in {"normal", "conversation"} : IsPanel(panels[p])
  /\ mode \in {"normal", "conversation", "menu"}
  /\ budget \in Int /\ unread \subseteq Int
JobTypes == IsText(job)
MenuTypes == menu \in Seq(Nat) /\ left \in Seq(1 .. Len(menu))
Types == PanelTypes /\ JobTypes /\ MenuTypes

\* A print that began below what stood there and asks for no [MORE] of its own.
Plain == began # "beside" /\ ~asked

\* The budget is what stands above the first unread row: that many rows may go.
Budgeted ==
  /\ 0 <= budget /\ budget <= Panel.row
  /\ asking => Panel.row = Rows - 1
  /\ ~asking => \A u \in unread : u > budget
  /\ ~asking /\ ~Panel.pending => Panel.row > budget
NothingAsked == \A i \in DOMAIN job : ~job[i].more
ReadInv ==
  /\ asking => Printing
  /\ Plain => /\ ~missed
              /\ Printing => Budgeted /\ NothingAsked
ScrollInv == Types /\ ReadInv

----------------------------------------------------------------------------
(* Texts.                                                                  *)

\* What is left of a text when its first row has been drawn.
LEMMA TailIsText ==
  ASSUME NEW t, IsText(t), t # <<>>
  PROVE  /\ IsText(Tail(t)) /\ Head(t) = t[1] /\ 1 \in DOMAIN t
         /\ Head(t).follows <=> Tail(t) # <<>>
         /\ \A i \in DOMAIN Tail(t) : i + 1 \in DOMAIN t /\ Tail(t)[i] = t[i + 1]
<1>1. t \in Seq(TextRows) /\ Len(t) \in Nat \ {0}
  BY DEF IsText
<1>2. /\ Tail(t) \in Seq(TextRows) /\ Len(Tail(t)) = Len(t) - 1
      /\ Head(t) = t[1] /\ 1 \in DOMAIN t
      /\ \A i \in DOMAIN Tail(t) : i + 1 \in DOMAIN t /\ Tail(t)[i] = t[i + 1]
  BY <1>1
<1>3. TellsWhatFollows(Tail(t))
  BY <1>1, <1>2 DEF IsText, TellsWhatFollows
<1>4. Head(t).follows <=> Tail(t) # <<>>
  BY <1>1, <1>2 DEF IsText, TellsWhatFollows
<1> QED
  BY <1>2, <1>3, <1>4 DEF IsText

\* The answers' texts.
LEMMA TextIsText ==
  ASSUME NEW what \in Int, NEW n \in Nat, NEW ends \in BOOLEAN
  PROVE  IsText(Text(what, n, ends))
<1> DEFINE t == Text(what, n, ends)
<1>1. /\ t = [i \in 1 .. n |-> [shows |-> what, more |-> FALSE, follows |-> i < n,
                                ends |-> i < n \/ ends]]
  BY DEF Text
<1>2. ASSUME NEW i \in 1 .. n
      PROVE  t[i] \in TextRows /\ (t[i].follows <=> i < n)
  <2> DEFINE no == FALSE
             goes == i < n
             final == goes \/ ends
             r == [shows |-> what, more |-> no, follows |-> goes, ends |-> final]
  <2>1. t[i] = r
    BY <1>1
  <2>2. no \in BOOLEAN /\ goes \in BOOLEAN /\ final \in BOOLEAN
    OBVIOUS
  <2> HIDE DEF no, goes, final, t
  <2>3. r \in TextRows
    BY <2>2 DEF TextRows
  <2>4. r.follows = goes
    OBVIOUS
  <2> HIDE DEF r
  <2> QED
    BY <2>1, <2>3, <2>4 DEF goes
<1>3. t \in Seq(TextRows) /\ Len(t) = n
  <2>1. t = [i \in 1 .. n |-> t[i]]
    BY <1>1
  <2> HIDE DEF t
  <2>2. t \in [1 .. n -> TextRows]
    BY <1>2, <2>1
  <2> QED
    BY <2>2
<1> HIDE DEF t
<1>4. TellsWhatFollows(t)
  <2>1. DOMAIN t = 1 .. n
    BY <1>3
  <2> QED
    BY <1>2, <1>3, <2>1 DEF TellsWhatFollows
<1>5. IsText(t)
  BY <1>3, <1>4 DEF IsText
<1> QED
  BY <1>5 DEF t

----------------------------------------------------------------------------
(* Printing.                                                               *)

\* The panels when one of them is replaced.
LEMMA PanelReplaced ==
  ASSUME NEW ps, ps = [p \in {"normal", "conversation"} |-> ps[p]],
         \A p \in {"normal", "conversation"} : IsPanel(ps[p]),
         NEW q \in {"normal", "conversation"}, NEW new, IsPanel(new)
  PROVE  LET after == [ps EXCEPT ![q] = new]
         IN  /\ after = [p \in {"normal", "conversation"} |-> after[p]]
             /\ \A p \in {"normal", "conversation"} : IsPanel(after[p])
             /\ after[q] = new
<1> DEFINE after == [ps EXCEPT ![q] = new]
<1>1. after = [p \in {"normal", "conversation"} |-> IF p = q THEN new ELSE ps[p]]
  OBVIOUS
<1>2. \A p \in {"normal", "conversation"} : after[p] = IF p = q THEN new ELSE ps[p]
  BY <1>1
<1> HIDE DEF after
<1>3. after = [p \in {"normal", "conversation"} |-> after[p]] /\ after[q] = new
  BY <1>1, <1>2
<1>4. \A p \in {"normal", "conversation"} : IsPanel(after[p])
  BY <1>2
<1> QED
  BY <1>3, <1>4 DEF after

LEMMA ClearedIsPanel ==
  ASSUME MenuHypothesis
  PROVE  IsPanel(Cleared) /\ ~Cleared.pending
BY DEF MenuHypothesis, IsPanel, Cleared

LEMMA ScrolledIsPanel ==
  ASSUME NEW p, IsPanel(p)
  PROVE  IsPanel(ScrolledUp(p)) /\ ScrolledUp(p).row = p.row
<1>1. PICK x : ScrolledUp(p) = [p EXCEPT !.shown = x]
  BY DEF ScrolledUp
<1>2. ScrolledUp(p) = [shown |-> x, row |-> p.row, pending |-> p.pending]
  BY <1>1 DEF IsPanel
<1> QED
  BY <1>2 DEF IsPanel

LEMMA HereIsPanel ==
  ASSUME PanelTypes
  PROVE  /\ Here \in {"normal", "conversation"} /\ IsPanel(Panel)
         /\ Panel.row \in 0 .. Rows - 1
BY DEF PanelTypes, Here, PanelOf, Panel, IsPanel

\* A message begins: what stands above its first row may go.
LEMMA PrintKeeps ==
  ASSUME MenuHypothesis,
         NEW now, now = [p \in {"normal", "conversation"} |-> now[p]],
         \A p \in {"normal", "conversation"} : IsPanel(now[p]),
         NEW held, NEW m \in {"normal", "conversation", "menu"}, NEW text, IsText(text),
         PrintTextOn(now, held, m, text), MenuTypes'
  PROVE  ScrollInv'
<1> DEFINE start == IF held /\ m # "conversation" THEN Cleared ELSE now[PanelOf(m)]
<1>1. /\ mode' = m /\ panels' = [now EXCEPT ![PanelOf(m)] = start]
      /\ budget' = start.row /\ job' = text /\ ~asking' /\ unread' = {} /\ ~missed'
      /\ began' = IF start.pending THEN "below" ELSE "beside"
  BY DEF PrintTextOn
<1>2. asked' <=> \E i \in DOMAIN text : text[i].more
  BY DEF PrintTextOn
<1>3. PanelOf(m) \in {"normal", "conversation"}
  BY DEF PanelOf
<1>4. IsPanel(start)
  BY <1>3, ClearedIsPanel
<1> HIDE DEF start
<1>5. /\ panels' = [p \in {"normal", "conversation"} |-> panels'[p]]
      /\ \A p \in {"normal", "conversation"} : IsPanel(panels'[p])
      /\ panels'[PanelOf(m)] = start
  BY <1>1, <1>3, <1>4, PanelReplaced
<1>6. Panel' = start
  BY <1>1, <1>5 DEF Panel, Here
<1>7. start.row \in 0 .. Rows - 1
  BY <1>4 DEF IsPanel
<1>8. PanelTypes'
  BY <1>1, <1>5, <1>7 DEF PanelTypes, IsPanel, MenuHypothesis
<1>9. JobTypes'
  BY <1>1 DEF JobTypes
<1>10. ASSUME Plain' PROVE ~missed' /\ Budgeted' /\ NothingAsked'
  <2>1. start.pending
    BY <1>1, <1>10 DEF Plain
  <2>2. NothingAsked'
    BY <1>1, <1>2, <1>10 DEF Plain, NothingAsked
  <2>3. Budgeted'
    BY <1>1, <1>6, <1>7, <2>1 DEF Budgeted
  <2> QED
    BY <1>1, <2>2, <2>3
<1> QED
  BY <1>1, <1>8, <1>9, <1>10 DEF ScrollInv, Types, ReadInv

\* A row drawn on panel p.
LEMMA DrawRow ==
  ASSUME Types, Printing, NEW p, IsPanel(p), NEW at \in 0 .. Rows - 1, Draw(p, at),
         mode' = mode
  PROVE  /\ panels' = [q \in {"normal", "conversation"} |-> panels'[q]]
         /\ \A q \in {"normal", "conversation"} : IsPanel(panels'[q])
         /\ Panel'.row = at
         /\ JobTypes' /\ (NothingAsked => NothingAsked')
         /\ Row.follows <=> Printing'
<1> DEFINE new == [shown |-> [p.shown EXCEPT ![at] = Row.shows], row |-> at,
                   pending |-> Row.ends]
<1>1. panels' = [panels EXCEPT ![Here] = new] /\ job' = Tail(job)
  BY DEF Draw
<1>2. IsPanel(new) /\ new.row = at
  BY DEF IsPanel
<1>3. Here \in {"normal", "conversation"} /\ Here' = Here
  BY DEF Types, PanelTypes, Here, PanelOf
<1> HIDE DEF new
<1>4. /\ panels' = [q \in {"normal", "conversation"} |-> panels'[q]]
      /\ \A q \in {"normal", "conversation"} : IsPanel(panels'[q])
      /\ panels'[Here] = new
  BY <1>1, <1>2, <1>3, PanelReplaced DEF Types, PanelTypes
<1>5. Panel'.row = at
  BY <1>2, <1>3, <1>4 DEF Panel
<1>6. /\ IsText(Tail(job)) /\ Head(job) = job[1]
      /\ Head(job).follows <=> Tail(job) # <<>>
      /\ \A i \in DOMAIN Tail(job) : i + 1 \in DOMAIN job /\ Tail(job)[i] = job[i + 1]
  BY TailIsText DEF Types, JobTypes, Printing
<1>7. JobTypes' /\ (Row.follows <=> Printing')
  BY <1>1, <1>6 DEF JobTypes, Printing, Row
<1>8. NothingAsked => NothingAsked'
  BY <1>1, <1>6 DEF NothingAsked
<1> QED
  BY <1>4, <1>5, <1>7, <1>8

LEMMA DrawBesideKeeps ==
  ASSUME MenuHypothesis, ScrollInv, DrawBeside, MenuTypes'
  PROVE  ScrollInv'
<1>1. Types /\ ReadInv
  BY DEF ScrollInv
<1>2. /\ Printing /\ ~asking /\ ~Panel.pending /\ Draw(Panel, Panel.row)
      /\ unread' = unread \cup {Panel.row}
      /\ UNCHANGED <<mode, keep, budget, asking, began, asked, missed>>
  BY DEF DrawBeside
<1>3. IsPanel(Panel) /\ Panel.row \in 0 .. Rows - 1
  BY <1>1, HereIsPanel DEF Types
<1>4. /\ panels' = [q \in {"normal", "conversation"} |-> panels'[q]]
      /\ \A q \in {"normal", "conversation"} : IsPanel(panels'[q])
      /\ Panel'.row = Panel.row /\ JobTypes' /\ (NothingAsked => NothingAsked')
  BY <1>1, <1>2, <1>3, DrawRow
<1>5. PanelTypes'
  BY <1>1, <1>2, <1>3, <1>4 DEF Types, PanelTypes, MenuHypothesis
<1>6. ASSUME Plain' PROVE ~missed' /\ Budgeted' /\ NothingAsked'
  <2>1. Plain
    BY <1>2, <1>6 DEF Plain
  <2>2. ~missed /\ Budgeted /\ NothingAsked
    BY <1>1, <1>2, <2>1 DEF ReadInv
  <2>3. Budgeted'
    BY <1>1, <1>2, <1>3, <1>4, <2>2 DEF Budgeted, Types, PanelTypes
  <2> QED
    BY <1>2, <1>4, <2>2, <2>3
<1> QED
  BY <1>2, <1>4, <1>5, <1>6 DEF ScrollInv, Types, ReadInv

LEMMA DrawBelowKeeps ==
  ASSUME MenuHypothesis, ScrollInv, DrawBelow, MenuTypes'
  PROVE  ScrollInv'
<1>1. Types /\ ReadInv
  BY DEF ScrollInv
<1>2. /\ Printing /\ ~asking /\ Fits /\ Draw(Panel, Panel.row + 1)
      /\ unread' = unread \cup {Panel.row + 1}
      /\ UNCHANGED <<mode, keep, budget, asking, began, asked, missed>>
  BY DEF DrawBelow
<1>3. IsPanel(Panel) /\ Panel.row \in 0 .. Rows - 1 /\ Panel.row + 1 \in 0 .. Rows - 1
  BY <1>1, <1>2, HereIsPanel DEF Types, Fits, MenuHypothesis
<1>4. /\ panels' = [q \in {"normal", "conversation"} |-> panels'[q]]
      /\ \A q \in {"normal", "conversation"} : IsPanel(panels'[q])
      /\ Panel'.row = Panel.row + 1 /\ JobTypes' /\ (NothingAsked => NothingAsked')
  BY <1>1, <1>2, <1>3, DrawRow
<1>5. PanelTypes'
  BY <1>1, <1>2, <1>3, <1>4 DEF Types, PanelTypes, MenuHypothesis
<1>6. ASSUME Plain' PROVE ~missed' /\ Budgeted' /\ NothingAsked'
  <2>1. Plain
    BY <1>2, <1>6 DEF Plain
  <2>2. ~missed /\ Budgeted /\ NothingAsked
    BY <1>1, <1>2, <2>1 DEF ReadInv
  <2>3. Budgeted'
    BY <1>1, <1>2, <1>3, <1>4, <2>2 DEF Budgeted, Types, PanelTypes
  <2> QED
    BY <1>2, <1>4, <2>2, <2>3
<1> QED
  BY <1>2, <1>4, <1>5, <1>6 DEF ScrollInv, Types, ReadInv

\* A row scrolls away unasked: the budget says that it had been read.
LEMMA DrawScrolledKeeps ==
  ASSUME MenuHypothesis, ScrollInv, DrawScrolled, MenuTypes'
  PROVE  ScrollInv'
<1>1. Types /\ ReadInv
  BY DEF ScrollInv
<1>2. /\ Printing /\ ~asking /\ ~MustAsk /\ Panel.pending /\ ~Fits
      /\ Draw(ScrolledUp(Panel), Panel.row)
      /\ unread' = StillUnread \cup {Panel.row} /\ budget' = budget - 1 /\ missed' = Lost
      /\ UNCHANGED <<mode, keep, asking, began, asked>>
  BY DEF DrawScrolled
<1>3. IsPanel(Panel) /\ Panel.row \in 0 .. Rows - 1 /\ IsPanel(ScrolledUp(Panel))
  BY <1>1, HereIsPanel, ScrolledIsPanel DEF Types
<1>4. /\ panels' = [q \in {"normal", "conversation"} |-> panels'[q]]
      /\ \A q \in {"normal", "conversation"} : IsPanel(panels'[q])
      /\ Panel'.row = Panel.row /\ JobTypes' /\ (NothingAsked => NothingAsked')
      /\ (Row.follows <=> Printing')
  BY <1>1, <1>2, <1>3, DrawRow
<1>5. PanelTypes'
  BY <1>1, <1>2, <1>3, <1>4 DEF Types, PanelTypes, MenuHypothesis, StillUnread
<1>6. ASSUME Plain' PROVE ~missed' /\ (Printing' => Budgeted') /\ NothingAsked'
  <2>1. Plain
    BY <1>2, <1>6 DEF Plain
  <2>2. ~missed /\ Budgeted /\ NothingAsked
    BY <1>1, <1>2, <2>1 DEF ReadInv
  <2>3. \A u \in unread : u \in Int /\ u > budget
    BY <1>1, <1>2, <2>2 DEF Types, PanelTypes, Budgeted
  <2>4. budget \in Int /\ 0 <= budget /\ budget <= Panel.row
    BY <1>1, <2>2 DEF Types, PanelTypes, Budgeted
  <2>5. ~missed'
    <3>1. 0 \notin unread
      BY <2>3, <2>4
    <3>2. ~Lost
      BY <2>2, <3>1 DEF Lost
    <3> QED
      BY <1>2, <3>2, Zenon
  <2>6. ASSUME Printing' PROVE 1 <= budget
    BY <1>2, <1>4, <2>4, <2>6 DEF MustAsk, Spent
  <2>7. \A u \in unread' : u > budget'
    BY <1>2, <1>3, <2>3, <2>4 DEF StillUnread
  <2>8. Printing' => Budgeted'
    BY <1>2, <1>3, <1>4, <2>4, <2>6, <2>7 DEF Budgeted
  <2> QED
    BY <1>4, <2>2, <2>5, <2>8
<1> QED
  BY <1>2, <1>4, <1>5, <1>6 DEF ScrollInv, Types, ReadInv

\* [MORE] takes the place of a row that has been read, or that the budget covers.
LEMMA AskMoreKeeps ==
  ASSUME MenuHypothesis, ScrollInv, AskMore, MenuTypes'
  PROVE  ScrollInv'
<1>1. Types /\ ReadInv
  BY DEF ScrollInv
<1>2. /\ Printing /\ ~asking /\ MustAsk
      /\ panels' = [panels EXCEPT ![Here] = ScrolledUp(panels[Here])]
      /\ unread' = StillUnread /\ missed' = Lost /\ asking'
      /\ UNCHANGED <<mode, keep, budget, job, began, asked>>
  BY DEF AskMore
<1>3. /\ Here \in {"normal", "conversation"} /\ IsPanel(Panel) /\ Panel.row \in 0 .. Rows - 1
      /\ IsPanel(ScrolledUp(Panel)) /\ ScrolledUp(Panel).row = Panel.row
  BY <1>1, HereIsPanel, ScrolledIsPanel DEF Types
<1>4. Here' = Here
  BY <1>2 DEF Here
<1>5. /\ panels' = [q \in {"normal", "conversation"} |-> panels'[q]]
      /\ \A q \in {"normal", "conversation"} : IsPanel(panels'[q])
      /\ panels'[Here] = ScrolledUp(Panel)
  BY <1>1, <1>2, <1>3, PanelReplaced DEF Types, PanelTypes, Panel
<1>6. Panel'.row = Panel.row
  BY <1>3, <1>4, <1>5 DEF Panel
<1>7. PanelTypes' /\ JobTypes'
  BY <1>1, <1>2, <1>5 DEF Types, PanelTypes, JobTypes, StillUnread
<1>8. ASSUME Plain' PROVE ~missed' /\ Budgeted' /\ NothingAsked'
  <2>1. Plain
    BY <1>2, <1>8 DEF Plain
  <2>2. ~missed /\ Budgeted /\ NothingAsked
    BY <1>1, <1>2, <2>1 DEF ReadInv
  <2>3. ~missed'
    <3>1. 0 \notin unread
      BY <1>1, <1>2, <2>2 DEF Budgeted, Types, PanelTypes
    <3>2. ~Lost
      BY <2>2, <3>1 DEF Lost
    <3> QED
      BY <1>2, <3>2, Zenon
  <2>4. ~Row.more
    BY <1>1, <1>2, <2>2, TailIsText DEF NothingAsked, Row, Types, JobTypes, Printing
  <2>5. ~Fits
    BY <1>2, <2>4 DEF MustAsk
  <2>6. Panel.row = Rows - 1
    BY <1>3, <2>5 DEF Fits, MenuHypothesis
  <2>7. Budgeted'
    BY <1>2, <1>6, <2>2, <2>6 DEF Budgeted
  <2>8. NothingAsked'
    BY <1>2, <2>2 DEF NothingAsked
  <2> QED
    BY <2>3, <2>7, <2>8
<1> QED
  BY <1>2, <1>7, <1>8 DEF ScrollInv, Types, ReadInv, Printing

\* After it all that is shown has been read.
LEMMA AnswerKeeps ==
  ASSUME MenuHypothesis, ScrollInv, Answer, MenuTypes'
  PROVE  ScrollInv'
<1> DEFINE new == [Panel EXCEPT !.pending = @ /\ Row.more]
<1>1. Types /\ ReadInv
  BY DEF ScrollInv
<1>2. /\ asking /\ ~asking' /\ budget' = Panel.row - 1 /\ unread' = {}
      /\ job' = [job EXCEPT ![1].more = FALSE]
      /\ UNCHANGED <<mode, keep, began, asked, missed>>
  BY DEF Answer, BudgetAfterMore
<1>0. Printing
  BY <1>1, <1>2 DEF ReadInv
<1>3. panels' = [panels EXCEPT ![Here] = new]
  BY DEF Answer, Panel
<1>4. /\ Here \in {"normal", "conversation"} /\ IsPanel(Panel) /\ Panel.row \in 0 .. Rows - 1
      /\ Here' = Here
  BY <1>1, <1>2, HereIsPanel DEF Types, Here
<1>5. IsPanel(new) /\ new.row = Panel.row
  <2>1. PICK x : new = [Panel EXCEPT !.pending = x]
    OBVIOUS
  <2> HIDE DEF new
  <2>2. new = [shown |-> Panel.shown, row |-> Panel.row, pending |-> x]
    BY <1>4, <2>1 DEF IsPanel
  <2> QED
    BY <1>4, <2>2 DEF IsPanel
<1> HIDE DEF new
<1>6. /\ panels' = [q \in {"normal", "conversation"} |-> panels'[q]]
      /\ \A q \in {"normal", "conversation"} : IsPanel(panels'[q])
      /\ panels'[Here] = new
  BY <1>1, <1>3, <1>4, <1>5, PanelReplaced DEF Types, PanelTypes
<1>7. Panel'.row = Panel.row
  BY <1>4, <1>5, <1>6 DEF Panel
<1>8. PanelTypes'
  BY <1>1, <1>2, <1>4, <1>6 DEF Types, PanelTypes
<1>9. /\ JobTypes' /\ Len(job') = Len(job)
      /\ \A i \in DOMAIN job : job'[i].more => job[i].more
  <2>1. /\ job \in Seq(TextRows) /\ TellsWhatFollows(job) /\ 1 \in DOMAIN job
    BY <1>0, <1>1, TailIsText DEF Types, JobTypes, IsText, Printing
  <2> DEFINE no == FALSE
             r == [job[1] EXCEPT !.more = no]
  <2>2. job' = [job EXCEPT ![1] = r]
    BY <1>2
  <2>3. no \in BOOLEAN /\ job[1] \in TextRows
    BY <2>1
  <2>4. ~r.more
    BY <2>3 DEF TextRows
  <2> HIDE DEF no
  <2>5. r \in TextRows /\ r.follows = job[1].follows
    BY <2>3 DEF TextRows
  <2> HIDE DEF r
  <2>6. job' \in Seq(TextRows) /\ Len(job') = Len(job) /\ DOMAIN job' = DOMAIN job
    BY <2>1, <2>2, <2>5
  <2>7. \A i \in DOMAIN job : job'[i] = IF i = 1 THEN r ELSE job[i]
    BY <2>1, <2>2
  <2>8. \A i \in DOMAIN job : job'[i].more => job[i].more
    BY <2>4, <2>7
  <2>9. TellsWhatFollows(job')
    BY <2>1, <2>5, <2>6, <2>7 DEF TellsWhatFollows
  <2> QED
    BY <2>6, <2>8, <2>9 DEF JobTypes, IsText
<1>10. ASSUME Plain' PROVE ~missed' /\ Budgeted' /\ NothingAsked'
  <2>1. Plain
    BY <1>2, <1>10 DEF Plain
  <2>2. ~missed /\ Budgeted /\ NothingAsked
    BY <1>0, <1>1, <2>1 DEF ReadInv
  <2>3. Panel.row = Rows - 1
    BY <1>2, <2>2 DEF Budgeted
  <2>4. Budgeted'
    BY <1>2, <1>4, <1>7, <2>3 DEF Budgeted, MenuHypothesis
  <2>5. NothingAsked'
    BY <1>1, <1>9, <2>2 DEF NothingAsked, Types, JobTypes, IsText
  <2> QED
    BY <1>2, <2>2, <2>4, <2>5
<1> QED
  BY <1>2, <1>8, <1>9, <1>10 DEF ScrollInv, Types, ReadInv

----------------------------------------------------------------------------
(* Messages and menus.                                                     *)

LEMMA InitScroll ==
  ASSUME MenuHypothesis, Init
  PROVE  ScrollInv
<1>1. /\ panels = [p \in {"normal", "conversation"} |-> Cleared]
      /\ mode = "normal" /\ budget = 0 /\ job = <<>> /\ ~asking /\ unread = {} /\ ~missed
      /\ menu = <<>> /\ left = <<>>
  BY DEF Init, ScrollInit
<1>2. PanelTypes
  BY <1>1, ClearedIsPanel DEF PanelTypes
<1>3. JobTypes /\ MenuTypes
  BY <1>1 DEF JobTypes, IsText, TellsWhatFollows, MenuTypes
<1>4. ReadInv
  BY <1>1 DEF ReadInv, Printing
<1> QED
  BY <1>2, <1>3, <1>4 DEF ScrollInv, Types

\* A print on the panels as they are, while the menu stays what it is.
LEMMA PrintTextKeeps ==
  ASSUME MenuHypothesis, ScrollInv, NEW m \in {"normal", "conversation", "menu"},
         NEW text, IsText(text), PrintText(m, text), MenuTypes'
  PROVE  ScrollInv'
BY PrintKeeps DEF PrintText, ScrollInv, Types, PanelTypes

\* Steps of the menu that print nothing and may clear the panel while no print runs.
LEMMA OtherKeeps ==
  ASSUME MenuHypothesis, ScrollInv, MenuTypes',
         UNCHANGED <<mode, budget, job, asking, unread, began, asked, missed>>,
         \/ UNCHANGED panels
         \/ ~Printing /\ panels' = [panels EXCEPT !["normal"] = Cleared]
  PROVE  ScrollInv'
<1>1. Types /\ ReadInv
  BY DEF ScrollInv
<1>2. PanelTypes' /\ JobTypes'
  <2>1. CASE UNCHANGED panels
    BY <1>1, <2>1 DEF Types, PanelTypes, JobTypes
  <2>2. CASE panels' = [panels EXCEPT !["normal"] = Cleared]
    <3>1. /\ panels' = [p \in {"normal", "conversation"} |-> panels'[p]]
          /\ \A p \in {"normal", "conversation"} : IsPanel(panels'[p])
      BY <1>1, <2>2, ClearedIsPanel, PanelReplaced DEF Types, PanelTypes
    <3> QED
      BY <1>1, <3>1 DEF Types, PanelTypes, JobTypes
  <2> QED
    BY <2>1, <2>2
<1>3. ReadInv'
  <2>1. CASE UNCHANGED panels
    BY <1>1, <2>1 DEF ReadInv, Plain, Budgeted, Panel, Here, NothingAsked, Printing
  <2>2. CASE ~Printing
    BY <1>1, <2>2 DEF ReadInv, Plain, Printing
  <2> QED
    BY <2>1, <2>2
<1> QED
  BY <1>2, <1>3 DEF ScrollInv, Types

LEMMA ChooseKeeps ==
  ASSUME MenuHypothesis, ScrollInv, NEW k, k \in Int, Choose(k)
  PROVE  ScrollInv'
<1>1. Types
  BY DEF ScrollInv
<1>2. CASE armed /\ 0 < k /\ k <= Len(menu)
  <2> DEFINE now == [panels EXCEPT !["normal"] = Cleared]
             text == Text(Prose, menu[k], TRUE)
             yes == TRUE
  <2>1. /\ PrintTextOn(now, FALSE, "conversation", text)
        /\ UNCHANGED <<menu, left>>
    BY <1>2 DEF Choose
  <2>2. /\ now = [p \in {"normal", "conversation"} |-> now[p]]
        /\ \A p \in {"normal", "conversation"} : IsPanel(now[p])
    BY <1>1, ClearedIsPanel, PanelReplaced DEF Types, PanelTypes
  <2>3. menu[k] \in Nat /\ MenuTypes'
    BY <1>1, <1>2, <2>1 DEF Types, MenuTypes
  <2>4. IsText(text)
    <3>1. yes \in BOOLEAN /\ Prose \in Int /\ text = Text(Prose, menu[k], yes)
      BY DEF Prose
    <3> HIDE DEF yes, text
    <3> QED
      BY <2>3, <3>1, TextIsText
  <2> HIDE DEF now, text
  <2> QED
    BY <2>1, <2>2, <2>3, <2>4, PrintKeeps
<1>3. CASE ~(armed /\ 0 < k /\ k <= Len(menu))
  <2>1. UNCHANGED <<panels, mode, keep, budget, job, asking, unread, began, asked, missed,
                    menu, left>>
    BY <1>3 DEF Choose, scrollVars
  <2> QED
    BY <1>1, <2>1, OtherKeeps DEF Types, MenuTypes
<1> QED
  BY <1>2, <1>3

\* The rows in print go on, whatever the menu.
LEMMA PrintsOnKeeps ==
  ASSUME MenuHypothesis, ScrollInv, PrintsOn, UNCHANGED menuVars
  PROVE  ScrollInv'
<1>1. MenuTypes'
  BY DEF ScrollInv, Types, MenuTypes, menuVars
<1> QED
  BY <1>1, DrawBesideKeeps, DrawBelowKeeps, DrawScrolledKeeps, AskMoreKeeps, AnswerKeeps
     DEF PrintsOn

LEMMA MenuStepsKeep ==
  ASSUME MenuHypothesis, ScrollInv,
         \/ \E m \in Menus : OpenMenu(m)
         \/ PrintAnswer \/ AnswerPrinted \/ ListIsUp \/ Redraw
  PROVE  ScrollInv'
<1>1. Types /\ menu \in Seq(Nat) /\ left \in Seq(1 .. Len(menu))
  BY DEF ScrollInv, Types, MenuTypes
<1>2. \A m \in Seq(Nat) : InOrder(m) \in Seq(1 .. Len(m))
  <2> SUFFICES ASSUME NEW m \in Seq(Nat) PROVE InOrder(m) \in Seq(1 .. Len(m))
    OBVIOUS
  <2>1. InOrder(m) \in [1 .. Len(m) -> 1 .. Len(m)]
    BY DEF InOrder
  <2> QED
    BY <2>1
<1>3. ASSUME NEW m \in Menus, OpenMenu(m) PROVE ScrollInv'
  <2>1. /\ menu' = m /\ left' = InOrder(m) /\ ~Printing
        /\ panels' = [panels EXCEPT !["normal"] = Cleared]
        /\ UNCHANGED <<mode, keep, budget, job, asking, unread, began, asked, missed>>
    BY <1>3 DEF OpenMenu, Resting
  <2>2. MenuTypes'
    BY <1>2, <2>1 DEF MenuTypes, MenuHypothesis
  <2> QED
    BY <2>1, <2>2, OtherKeeps
<1>4. CASE PrintAnswer
  <2> DEFINE text == Text(Head(left), menu[Head(left)], TRUE)
             yes == TRUE
  <2>1. /\ left # <<>> /\ PrintText("menu", text) /\ left' = Tail(left) /\ menu' = menu
    BY <1>4 DEF PrintAnswer
  <2>2. /\ Head(left) \in 1 .. Len(menu) /\ MenuTypes'
    BY <1>1, <2>1 DEF MenuTypes
  <2>3. IsText(text)
    <3>1. /\ yes \in BOOLEAN /\ Head(left) \in Int /\ menu[Head(left)] \in Nat
          /\ text = Text(Head(left), menu[Head(left)], yes)
      BY <1>1, <2>2
    <3> HIDE DEF yes, text
    <3> QED
      BY <3>1, TextIsText
  <2> HIDE DEF text
  <2> QED
    BY <2>1, <2>2, <2>3, PrintTextKeeps
<1>5. CASE AnswerPrinted
  <2>1. UNCHANGED <<panels, mode, keep, budget, job, asking, unread, began, asked, missed,
                    menu, left>>
    BY <1>5 DEF AnswerPrinted, scrollVars
  <2> QED
    BY <1>1, <2>1, OtherKeeps DEF MenuTypes
<1>6. CASE ListIsUp
  <2>1. UNCHANGED <<panels, mode, budget, job, asking, unread, began, asked, missed,
                    menu, left>>
    BY <1>6 DEF ListIsUp
  <2> QED
    BY <1>1, <2>1, OtherKeeps DEF MenuTypes
<1>7. CASE Redraw
  <2>1. /\ menu' = menu /\ left' = InOrder(menu) /\ ~Printing
        /\ panels' = [panels EXCEPT !["normal"] = Cleared]
        /\ UNCHANGED <<mode, keep, budget, job, asking, unread, began, asked, missed>>
    BY <1>7 DEF Redraw, Resting
  <2>2. MenuTypes'
    BY <1>1, <1>2, <2>1 DEF MenuTypes
  <2> QED
    BY <2>1, <2>2, OtherKeeps
<1> QED
  BY <1>3, <1>4, <1>5, <1>6, <1>7

LEMMA NextScroll ==
  ASSUME MenuHypothesis, ScrollInv, [Next]_vars
  PROVE  ScrollInv'
<1>1. UNCHANGED menuVars => MenuTypes'
  BY DEF ScrollInv, Types, MenuTypes, menuVars
<1>2. ASSUME NEW m \in {"normal", "conversation", "menu"}, NEW t \in Texts, Message(m, t)
      PROVE  ScrollInv'
  BY <1>1, <1>2, PrintTextKeeps DEF Message, MenuHypothesis
<1>3. ASSUME NEW t \in Texts, Interrupt(t) PROVE ScrollInv'
  BY <1>1, <1>3, PrintTextKeeps DEF Interrupt, MenuHypothesis
<1>4. ASSUME NEW k \in 1 .. 4, Digit(k) PROVE ScrollInv'
  BY <1>4, ChooseKeeps DEF Digit
<1>5. CASE Click
  <2>1. ClickedRow \notin TableRows
    BY DEF ClickedRow, TableRows, PointerByte
  <2>2. Choose(0)
    BY <1>5, <2>1 DEF Click
  <2> QED
    BY <2>2, ChooseKeeps
<1>6. CASE UNCHANGED vars
  BY <1>1, <1>6, OtherKeeps DEF vars, scrollVars
<1> QED
  BY <1>2, <1>3, <1>4, <1>5, <1>6, PrintsOnKeeps, MenuStepsKeep DEF Next

----------------------------------------------------------------------------
(* The theorems.                                                           *)

\* While a message prints, what its budget lets scroll away is what stood above its
\* first unread row (message_scroll_print_wrapped).
THEOREM ScrollInvariant ==
  ASSUME MenuHypothesis
  PROVE  Spec => []ScrollInv
<1>1. Init => ScrollInv
  BY InitScroll
<1>2. ScrollInv /\ [Next]_vars => ScrollInv'
  BY NextScroll
<1> QED
  BY <1>1, <1>2, PTL DEF Spec

\* No row of a message is lost unread, for panels of every height but one, unless the
\* message begins beside other text or asks for a [MORE] itself (hud.c:1962).
THEOREM EveryRowIsRead ==
  ASSUME MenuHypothesis
  PROVE  Spec => []RowsAreRead
<1>1. ScrollInv => RowsAreRead
  BY DEF ScrollInv, ReadInv, Plain, RowsAreRead
<1> QED
  BY <1>1, ScrollInvariant, PTL

----------------------------------------------------------------------------
(* The table of answers.                                                   *)

\* A numbered answer takes a row at least, and the table has an entry for every row.
AnswersHypothesis ==
  /\ MenuHypothesis /\ Rows <= 10
  /\ \A m \in Menus : m \in Seq(Nat \ {0})

\* How many answers have begun to print, and how many the table has.
Begun == Len(menu) - Len(left)
Known == IF list # "new" THEN Len(menu) ELSE IF current # 0 THEN current - 1 ELSE Begun

\* The answers are printed in their order, each by a print of its own, and nothing
\* else prints meanwhile; over a list that is kept nothing prints either.
ListInv ==
  /\ list \in {"new", "again", "up"} /\ keep \in BOOLEAN
  /\ menu \in Seq(Nat \ {0}) /\ left \in Seq(Nat)
  /\ Len(left) <= Len(menu) /\ \A j \in 1 .. Len(left) : left[j] = Begun + j
  /\ current # 0 => current = Begun /\ mode = "menu" /\ list # "up"
  /\ list = "up" => left = <<>> /\ current = 0
  /\ list # "up" => ~keep /\ (Printing => current # 0)
  /\ keep => waiting /\ ~Printing

\* The rows before "end" have the answers that lie there, the others nothing.
On(rows, at, end, nothing) ==
  \A r \in DOMAIN rows :
    /\ \A i \in DOMAIN at \ {0} : at[i - 1] <= r /\ r < at[i] /\ r < end => rows[r] = i
    /\ r >= end => rows[r] = nothing

AnswerInPrint ==
  current # 0 =>
    /\ ~asking /\ Len(job) <= menu[current]
    /\ \A i \in DOMAIN job : job[i].shows = current /\ ~job[i].more /\ job[i].ends

TableInv(at) ==
  /\ DOMAIN table = TableRows
  /\ On(table, at, at[Known], NoAnswer)
  /\ list = "new" => last = at[Known] - 1

\* The panel has the rows printed so far, and nothing else.
Drawn(at) == at[Begun] - Len(job)
PanelInv(at) ==
  list # "up" \/ keep =>
    LET p == panels["normal"] IN
    /\ DOMAIN p.shown = 0 .. Rows - 1
    /\ On(p.shown, at, Drawn(at), Blank)
    /\ p.pending <=> Drawn(at) > 0
    /\ p.row = IF Drawn(at) > 0 THEN Drawn(at) - 1 ELSE 0

Fitted(at) == AnswerInPrint /\ TableInv(at) /\ PanelInv(at)
MenuInv == ListInv /\ \A at : Layout(menu, at) => Fitted(at)

\* A set of numbers has a least one.
LEMMA LeastOne ==
  ASSUME NEW S, S \subseteq Nat, S # {}
  PROVE  \E x \in S : \A y \in S : x <= y
<1> DEFINE R == OpToRel(<, Nat)
<1>1. IsWellFoundedOn(R, Nat)
  BY NatLessThanWellFounded
<1>2. PICK x \in S : \A y \in S : ~(<<y, x>> \in R)
  <2> HIDE DEF R
  <2> QED
    BY <1>1, WFMin
<1>3. ASSUME NEW y \in S PROVE x <= y
  <2>1. ~(<<y, x>> \in R)
    BY <1>2
  <2>2. ~(y < x)
    BY <2>1 DEF OpToRel
  <2> QED
    BY <2>2
<1> QED
  BY <1>3

\* The rows of a layout.
LEMMA LayoutFacts ==
  ASSUME AnswersHypothesis, NEW m \in Seq(Nat \ {0}), NEW at, Layout(m, at)
  PROVE  /\ Len(m) \in Nat /\ Rows \in Nat /\ at[0] = 0
         /\ DOMAIN at = 0 .. Len(m) /\ \A i \in 0 .. Len(m) : at[i] \in 0 .. Rows
         /\ \A i \in 1 .. Len(m) : m[i] \in Nat \ {0} /\ at[i] = at[i - 1] + m[i] /\ at[i - 1] \in Nat
<1>1. Len(m) \in Nat /\ Rows \in Nat /\ \A i \in 1 .. Len(m) : m[i] \in Nat \ {0}
  BY DEF AnswersHypothesis, MenuHypothesis
<1>2. /\ at \in [0 .. Len(m) -> 0 .. Rows] /\ at[0] = 0
      /\ \A i \in 1 .. Len(m) : at[i] = at[i - 1] + m[i]
  BY DEF Layout
<1>3. \A i \in 1 .. Len(m) : i - 1 \in 0 .. Len(m)
  BY <1>1
<1>4. \A i \in 1 .. Len(m) : at[i - 1] \in Nat
  <2>1. \A k \in 0 .. Len(m) : at[k] \in Nat
    BY <1>1, <1>2
  <2> QED
    BY <1>3, <2>1
<1> QED
  BY <1>1, <1>2, <1>4

\* Answers lie in their order.
LEMMA LayoutIsOrdered ==
  ASSUME AnswersHypothesis, NEW m \in Seq(Nat \ {0}), NEW at, Layout(m, at),
         NEW i \in 0 .. Len(m), NEW j \in 0 .. Len(m), i <= j
  PROVE  at[i] <= at[j]
<1> DEFINE n == Len(m)
           Bad == {d \in Nat : i + d <= n /\ at[i + d] < at[i]}
<1>1. /\ n \in Nat /\ \A k \in 0 .. n : at[k] \in Nat
      /\ \A k \in 1 .. n : m[k] \in Nat \ {0} /\ at[k] = at[k - 1] + m[k]
  BY LayoutFacts
<1>2. SUFFICES ASSUME at[j] < at[i] PROVE FALSE
  BY <1>1
<1>3. j - i \in Bad
  <2>1. j - i \in Nat /\ i + (j - i) = j
    OBVIOUS
  <2> QED
    BY <1>2, <2>1
<1>4. PICK d \in Bad : \A k \in Bad : d <= k
  <2>1. Bad \subseteq Nat /\ Bad # {}
    BY <1>3
  <2> HIDE DEF Bad
  <2> QED
    BY <2>1, LeastOne
<1>5. d # 0
  BY <1>1
<1>6. d - 1 \in Nat /\ i + d \in 1 .. n /\ i + (d - 1) = i + d - 1
  BY <1>1, <1>4, <1>5
<1>7. at[i + d - 1] <= at[i + d] /\ at[i + d - 1] \in Nat /\ at[i + d] \in Nat /\ at[i] \in Nat
  <2> DEFINE k == i + d
  <2>1. k \in 1 .. n /\ k - 1 \in 0 .. n /\ k \in 0 .. n
    BY <1>1, <1>6
  <2> HIDE DEF k, n
  <2>2. at[k] = at[k - 1] + m[k] /\ m[k] \in Nat /\ at[k - 1] \in Nat /\ at[k] \in Nat
    BY <1>1, <2>1
  <2>3. at[k - 1] <= at[k]
    BY <2>2
  <2>4. at[i] \in Nat
    BY <1>1 DEF n
  <2> QED
    BY <2>2, <2>3, <2>4 DEF k
<1>8. d - 1 \in Bad
  <2>1. at[i + d] < at[i] /\ i + d <= n
    BY <1>4
  <2>2. at[i + d - 1] < at[i]
    BY <1>7, <2>1
  <2> QED
    BY <1>1, <1>6, <2>2
<1>9. d \in Nat /\ d <= d - 1
  BY <1>4, <1>8
<1> QED
  BY <1>9

\* A row is of one answer, and every row before the end of an answer is of one.
LEMMA RowOfOneAnswer ==
  ASSUME AnswersHypothesis, NEW m \in Seq(Nat \ {0}), NEW at, Layout(m, at), NEW r \in Nat,
         NEW i \in 1 .. Len(m), NEW j \in 1 .. Len(m),
         at[i - 1] <= r, r < at[i], at[j - 1] <= r, r < at[j]
  PROVE  i = j
<1>1. Len(m) \in Nat /\ \A k \in 0 .. Len(m) : at[k] \in Nat
  BY LayoutFacts
<1>2. /\ i - 1 \in 0 .. Len(m) /\ j - 1 \in 0 .. Len(m) /\ i \in 0 .. Len(m) /\ j \in 0 .. Len(m)
  BY <1>1
<1>3. CASE i < j
  <2>1. at[i] <= at[j - 1]
    BY <1>2, <1>3, LayoutIsOrdered
  <2>2. at[i] \in Nat /\ at[j - 1] \in Nat
    BY <1>1, <1>2
  <2> QED
    BY <2>1, <2>2
<1>4. CASE j < i
  <2>1. at[j] <= at[i - 1]
    BY <1>2, <1>4, LayoutIsOrdered
  <2>2. at[j] \in Nat /\ at[i - 1] \in Nat
    BY <1>1, <1>2
  <2> QED
    BY <2>1, <2>2
<1> QED
  BY <1>3, <1>4

LEMMA RowOfSomeAnswer ==
  ASSUME AnswersHypothesis, NEW m \in Seq(Nat \ {0}), NEW at, Layout(m, at), NEW r \in Nat,
         r < at[Len(m)]
  PROVE  \E i \in 1 .. Len(m) : at[i - 1] <= r /\ r < at[i]
<1> DEFINE n == Len(m)
           Beyond == {k \in 0 .. n : r < at[k]}
<1>1. n \in Nat /\ at[0] = 0 /\ \A k \in 0 .. n : at[k] \in Nat
  BY LayoutFacts
<1>2. PICK i \in Beyond : \A k \in Beyond : i <= k
  <2>1. Beyond \subseteq Nat /\ n \in Beyond
    BY <1>1
  <2> HIDE DEF Beyond
  <2> QED
    BY <2>1, LeastOne
<1>3. i # 0
  BY <1>1, <1>2
<1>4. i \in 1 .. n /\ i - 1 \in 0 .. n /\ i - 1 < i
  BY <1>1, <1>2, <1>3
<1>5. ~(r < at[i - 1])
  BY <1>1, <1>2, <1>4
<1>6. at[i - 1] \in Nat /\ r < at[i]
  BY <1>1, <1>2, <1>4
<1>7. at[i - 1] <= r
  BY <1>5, <1>6
<1> QED
  BY <1>4, <1>6, <1>7

----------------------------------------------------------------------------
(* The steps of a list of answers.                                         *)

LEMMA FittedAt ==
  ASSUME MenuInv, NEW at, Layout(menu, at)
  PROVE  Fitted(at)
BY DEF MenuInv

LEMMA InitMenu ==
  ASSUME AnswersHypothesis, Init
  PROVE  MenuInv
<1>1. /\ menu = <<>> /\ left = <<>> /\ current = 0 /\ list = "up" /\ last = -1 /\ ~keep
      /\ keep \in BOOLEAN /\ table = [r \in TableRows |-> NoAnswer]
  BY DEF Init, ScrollInit
<1>2. ListInv
  BY <1>1 DEF ListInv
<1>3. ASSUME NEW at, Layout(menu, at) PROVE Fitted(at)
  <2>1. at[0] = 0 /\ Len(menu) = 0 /\ menu \in Seq(Nat \ {0})
    BY <1>1, <1>3 DEF Layout
  <2>2. Known = 0
    BY <1>1, <2>1 DEF Known
  <2>3. On(table, at, 0, NoAnswer)
    BY <1>1 DEF On, TableRows
  <2>4. TableInv(at)
    BY <1>1, <2>1, <2>2, <2>3 DEF TableInv
  <2> QED
    BY <1>1, <2>4 DEF Fitted, AnswerInPrint, PanelInv
<1> QED
  BY <1>2, <1>3 DEF MenuInv

\* Whatever prints while a list is up takes its panel: it will be printed again.
LEMMA UpKeeps ==
  ASSUME MenuInv, list = "up", keep' = FALSE,
         UNCHANGED <<menu, left, current, list, table, last>>
  PROVE  MenuInv'
<1>1. ListInv /\ current = 0
  BY DEF MenuInv, ListInv
<1>2. Begun' = Begun /\ Known' = Known
  BY DEF Begun, Known
<1>3. ListInv'
  BY <1>1, <1>2 DEF ListInv
<1>4. ASSUME NEW at, Layout(menu', at) PROVE Fitted(at)'
  <2>1. TableInv(at)
    BY <1>4, FittedAt DEF Fitted
  <2>2. TableInv(at)'
    BY <1>2, <2>1 DEF TableInv
  <2> QED
    BY <1>1, <2>2 DEF Fitted, AnswerInPrint, PanelInv
<1> QED
  BY <1>3, <1>4 DEF MenuInv

LEMMA StutterKeeps ==
  ASSUME MenuInv, UNCHANGED vars
  PROVE  MenuInv'
<1>1. /\ UNCHANGED <<menu, left, current, list, table, last, waiting>>
      /\ UNCHANGED <<panels, mode, keep, job, asking>>
  BY DEF vars, menuVars, scrollVars
<1>2. Begun' = Begun /\ Known' = Known /\ (Printing' <=> Printing)
  BY <1>1 DEF Begun, Known, Printing
<1>3. ListInv'
  BY <1>1, <1>2 DEF MenuInv, ListInv
<1>4. ASSUME NEW at, Layout(menu', at) PROVE Fitted(at)'
  <2>1. Fitted(at)
    BY <1>1, <1>4, FittedAt
  <2>2. Drawn(at)' = Drawn(at)
    BY <1>1, <1>2 DEF Drawn
  <2> QED
    BY <1>1, <1>2, <2>1, <2>2 DEF Fitted, AnswerInPrint, TableInv, PanelInv
<1> QED
  BY <1>3, <1>4 DEF MenuInv

\* A list begins on an empty panel.
LEMMA ListBegins ==
  ASSUME AnswersHypothesis, PanelTypes, NEW m \in Seq(Nat \ {0}),
         menu' = m, left' = InOrder(m), current' = 0, list' \in {"new", "again"},
         keep' = FALSE, job' = <<>>, panels' = [panels EXCEPT !["normal"] = Cleared]
  PROVE  /\ ListInv' /\ Begun' = 0
         /\ \A at : Layout(m, at) => AnswerInPrint' /\ PanelInv(at)'
<1>1. /\ InOrder(m) \in Seq(Nat) /\ Len(InOrder(m)) = Len(m) /\ Len(m) \in Nat
      /\ \A j \in 1 .. Len(m) : InOrder(m)[j] = j
  BY DEF InOrder
<1>2. Begun' = 0
  BY <1>1 DEF Begun
<1>3. ListInv'
  <2>1. menu' \in Seq(Nat \ {0}) /\ left' \in Seq(Nat) /\ Len(left') <= Len(menu')
    BY <1>1
  <2>2. \A j \in 1 .. Len(left') : left'[j] = Begun' + j
    BY <1>1, <1>2
  <2>3. list' # "up" /\ list' \in {"new", "again", "up"} /\ keep' \in BOOLEAN
    OBVIOUS
  <2> QED
    BY <2>1, <2>2, <2>3 DEF ListInv, Printing
<1>4. ASSUME NEW at, Layout(m, at) PROVE PanelInv(at)'
  <2>1. panels'["normal"] = Cleared
    BY DEF PanelTypes
  <2>2. at[0] = 0
    BY <1>4 DEF Layout
  <2>3. Drawn(at)' = 0
    <3>1. Drawn(at)' = at[Begun'] - Len(job')
      BY DEF Drawn
    <3> QED
      BY <1>2, <2>2, <3>1
  <2>4. On([r \in 0 .. Rows - 1 |-> Blank], at, 0, Blank)
    BY DEF On, AnswersHypothesis, MenuHypothesis
  <2>5. /\ Cleared.shown = [r \in 0 .. Rows - 1 |-> Blank] /\ Cleared.row = 0
        /\ Cleared.pending = FALSE
    BY DEF Cleared
  <2> QED
    BY <2>1, <2>3, <2>4, <2>5 DEF PanelInv
<1> QED
  BY <1>2, <1>3, <1>4 DEF AnswerInPrint

LEMMA OpenMenuKeeps ==
  ASSUME AnswersHypothesis, ScrollInv, MenuInv, NEW m \in Menus, OpenMenu(m)
  PROVE  MenuInv'
<1>1. /\ ~Printing /\ list = "up" /\ ~waiting
      /\ menu' = m /\ left' = InOrder(m) /\ list' = "new"
      /\ table' = [r \in TableRows |-> NoAnswer] /\ last' = -1
      /\ panels' = [panels EXCEPT !["normal"] = Cleared]
      /\ UNCHANGED <<keep, job, current>>
  BY DEF OpenMenu, Resting
<1>2. ListInv
  BY DEF MenuInv
<1>3. current' = 0 /\ keep' = FALSE /\ job' = <<>>
  BY <1>1, <1>2 DEF ListInv, Printing
<1>4. m \in Seq(Nat \ {0}) /\ PanelTypes
  BY DEF AnswersHypothesis, ScrollInv, Types
<1>5. /\ ListInv' /\ Begun' = 0
      /\ \A at : Layout(m, at) => AnswerInPrint' /\ PanelInv(at)'
  BY <1>1, <1>3, <1>4, ListBegins
<1>6. ASSUME NEW at, Layout(m, at) PROVE TableInv(at)'
  <2>1. Known' = 0
    BY <1>1, <1>3, <1>5 DEF Known
  <2>2. at[0] = 0
    BY <1>6 DEF Layout
  <2>3. On([r \in TableRows |-> NoAnswer], at, 0, NoAnswer)
    BY DEF On, TableRows
  <2> QED
    BY <1>1, <2>1, <2>2, <2>3 DEF TableInv
<1> QED
  BY <1>1, <1>5, <1>6 DEF MenuInv, Fitted

LEMMA RedrawKeeps ==
  ASSUME AnswersHypothesis, ScrollInv, MenuInv, Redraw
  PROVE  MenuInv'
<1>1. /\ ~Printing /\ list = "up" /\ ~keep
      /\ menu' = menu /\ left' = InOrder(menu) /\ list' = "again"
      /\ panels' = [panels EXCEPT !["normal"] = Cleared]
      /\ UNCHANGED <<keep, job, current, table, last>>
  BY DEF Redraw, Resting
<1>2. ListInv
  BY DEF MenuInv
<1>3. current' = 0 /\ keep' = FALSE /\ job' = <<>> /\ menu \in Seq(Nat \ {0}) /\ PanelTypes
  BY <1>1, <1>2 DEF ListInv, Printing, ScrollInv, Types
<1>4. /\ ListInv'
      /\ \A at : Layout(menu, at) => AnswerInPrint' /\ PanelInv(at)'
  BY <1>1, <1>3, ListBegins
<1>5. ASSUME NEW at, Layout(menu, at) PROVE TableInv(at)'
  <2>1. TableInv(at)
    BY <1>5, FittedAt DEF Fitted
  <2>2. Known = Len(menu) /\ Known' = Len(menu)
    BY <1>1 DEF Known
  <2> QED
    BY <1>1, <2>1, <2>2 DEF TableInv
<1> QED
  BY <1>1, <1>4, <1>5 DEF MenuInv, Fitted

\* Which answer is in print, or is the next one.
LEMMA AnswersInOrder ==
  ASSUME ListInv
  PROVE  /\ Len(menu) \in Nat /\ Len(left) \in Nat /\ Begun \in 0 .. Len(menu)
         /\ current # 0 => current = Begun
         /\ left # <<>> => /\ Head(left) = Begun + 1 /\ Begun + 1 \in 1 .. Len(menu)
                           /\ menu[Begun + 1] \in Nat \ {0}
                           /\ Len(Tail(left)) = Len(left) - 1 /\ Tail(left) \in Seq(Nat)
                           /\ \A j \in 1 .. Len(Tail(left)) : Tail(left)[j] = Begun + 1 + j
         /\ left = <<>> => Begun = Len(menu)
         /\ current # 0 => current \in 0 .. Len(menu)
<1>1. /\ menu \in Seq(Nat \ {0}) /\ left \in Seq(Nat) /\ Len(left) <= Len(menu)
      /\ \A j \in 1 .. Len(left) : left[j] = Begun + j
      /\ current # 0 => current = Begun
  BY DEF ListInv
<1>2. Len(menu) \in Nat /\ Len(left) \in Nat /\ Begun \in 0 .. Len(menu)
  BY <1>1 DEF Begun
<1>3. left = <<>> => Begun = Len(menu)
  BY <1>2 DEF Begun
<1>4. ASSUME left # <<>>
      PROVE  /\ Head(left) = Begun + 1 /\ Begun + 1 \in 1 .. Len(menu)
             /\ menu[Begun + 1] \in Nat \ {0}
             /\ Len(Tail(left)) = Len(left) - 1 /\ Tail(left) \in Seq(Nat)
             /\ \A j \in 1 .. Len(Tail(left)) : Tail(left)[j] = Begun + 1 + j
  <2>1. /\ Head(left) = left[1] /\ Tail(left) \in Seq(Nat) /\ Len(Tail(left)) = Len(left) - 1
        /\ Len(left) >= 1 /\ \A j \in 1 .. Len(Tail(left)) : Tail(left)[j] = left[j + 1]
    BY <1>1, <1>4
  <2>2. Begun + 1 \in 1 .. Len(menu)
    BY <1>2, <2>1 DEF Begun
  <2>3. Head(left) = Begun + 1
    BY <1>1, <1>2, <2>1
  <2>4. ASSUME NEW j \in 1 .. Len(Tail(left)) PROVE Tail(left)[j] = Begun + 1 + j
    <3>1. j + 1 \in 1 .. Len(left) /\ Tail(left)[j] = left[j + 1]
      BY <1>2, <2>1
    <3>2. left[j + 1] = Begun + (j + 1)
      BY <1>1, <3>1
    <3> QED
      BY <1>2, <3>1, <3>2
  <2> QED
    BY <1>1, <2>1, <2>2, <2>3, <2>4
<1> QED
  BY <1>1, <1>2, <1>3, <1>4

\* The rows an answer has, by the layout.
LEMMA RowsOfAnswer ==
  ASSUME AnswersHypothesis, ListInv, NEW at, Layout(menu, at), NEW c \in 1 .. Len(menu)
  PROVE  /\ at[c] = at[c - 1] + menu[c] /\ at[c] \in Nat /\ at[c - 1] \in Nat
         /\ menu[c] \in Nat \ {0} /\ at[c] <= Rows /\ Rows \in Nat
<1>1. menu \in Seq(Nat \ {0})
  BY DEF ListInv
<1>2. /\ Len(menu) \in Nat /\ Rows \in Nat
      /\ \A i \in 0 .. Len(menu) : at[i] \in 0 .. Rows
      /\ \A i \in 1 .. Len(menu) :
           menu[i] \in Nat \ {0} /\ at[i] = at[i - 1] + menu[i] /\ at[i - 1] \in Nat
  BY <1>1, LayoutFacts
<1>3. c \in 0 .. Len(menu)
  BY <1>2
<1>4. at[c] \in 0 .. Rows
  BY <1>2, <1>3
<1> QED
  BY <1>2, <1>4

LEMMA PrintAnswerKeeps ==
  ASSUME AnswersHypothesis, ScrollInv, MenuInv, PrintAnswer
  PROVE  MenuInv'
<1> DEFINE c == Begun + 1
           text == Text(Head(left), menu[Head(left)], TRUE)
<1>1. ListInv /\ PanelTypes
  BY DEF MenuInv, ScrollInv, Types
<1>2. /\ left # <<>> /\ current = 0 /\ PrintText("menu", text)
      /\ current' = Head(left) /\ left' = Tail(left)
      /\ UNCHANGED <<menu, list, table, last, armed, waiting, choice>>
  BY DEF PrintAnswer
<1>3. /\ Len(menu) \in Nat /\ Len(left) \in Nat /\ Begun \in Nat /\ c \in 1 .. Len(menu)
      /\ Head(left) = c /\ menu[c] \in Nat \ {0}
      /\ Len(left') = Len(left) - 1 /\ left' \in Seq(Nat)
      /\ \A j \in 1 .. Len(left') : left'[j] = c + j
  BY <1>1, <1>2, AnswersInOrder
<1>4. Begun' = c /\ current' = c /\ c # 0
  <2>1. Begun' = Len(menu) - Len(left')
    BY <1>2 DEF Begun
  <2>2. Begun' = Len(menu) - (Len(left) - 1) /\ c = Len(menu) - Len(left) + 1
    BY <1>3, <2>1 DEF Begun
  <2>3. Len(menu) \in Nat /\ Len(left) \in Nat /\ Begun \in Nat /\ current' = c
    BY <1>2, <1>3
  <2>4. c # 0
    BY <2>3
  <2> HIDE DEF c
  <2> QED
    BY <2>2, <2>3, <2>4
<1>5. list # "up" /\ ~keep /\ ~Printing /\ list \in {"new", "again"}
  BY <1>1, <1>2 DEF ListInv, PrintText, PrintTextOn
<1>6. /\ mode' = "menu" /\ ~keep' /\ keep' \in BOOLEAN /\ job' = text /\ ~asking'
      /\ panels' = [panels EXCEPT !["normal"] = panels["normal"]]
  BY <1>2, <1>5 DEF PrintText, PrintTextOn, PanelOf
<1>7. panels'["normal"] = panels["normal"]
  BY <1>1, <1>6 DEF PanelTypes
<1>8. /\ Len(text) = menu[c] /\ DOMAIN text = 1 .. menu[c]
      /\ \A i \in DOMAIN text : text[i].shows = c /\ ~text[i].more /\ text[i].ends
  <2> DEFINE n == menu[c]
  <2>1. text = [i \in 1 .. n |-> [shows |-> c, more |-> FALSE, follows |-> i < n,
                                  ends |-> i < n \/ TRUE]]
    BY <1>3 DEF Text
  <2>2. n \in Nat
    BY <1>3
  <2> HIDE DEF n, c, text
  <2>3. Len(text) = n /\ DOMAIN text = 1 .. n
    BY <2>1, <2>2
  <2>4. \A i \in 1 .. n : text[i].shows = c /\ ~text[i].more /\ text[i].ends
    BY <2>1
  <2> QED
    BY <2>3, <2>4 DEF n
<1> HIDE DEF text
<1>9. ListInv'
  <2>1. Len(left') <= Len(menu') /\ menu' \in Seq(Nat \ {0})
    BY <1>1, <1>2, <1>3 DEF Begun, ListInv
  <2>2. \A j \in 1 .. Len(left') : left'[j] = Begun' + j
    BY <1>3, <1>4
  <2> QED
    BY <1>2, <1>3, <1>4, <1>5, <1>6, <2>1, <2>2 DEF ListInv
<1>10. ASSUME NEW at, Layout(menu, at) PROVE Fitted(at)'
  <2>1. TableInv(at) /\ PanelInv(at)
    BY <1>10, FittedAt DEF Fitted
  <2>2. at[c] = at[c - 1] + menu[c] /\ at[c - 1] \in Nat /\ at[c] \in Nat
    BY <1>1, <1>3, <1>10, RowsOfAnswer
  <2>3. c - 1 = Begun
    BY <1>3
  <2>4. Drawn(at)' = Drawn(at)
    <3>1. Drawn(at)' = at[c] - Len(text)
      BY <1>4, <1>6 DEF Drawn
    <3>2. Drawn(at) = at[c - 1] - 0
      BY <1>5, <2>3 DEF Drawn, Printing
    <3> QED
      BY <1>3, <1>8, <2>2, <3>1, <3>2
  <2>5. Known' = Known
    BY <1>2, <1>4, <2>3 DEF Known
  <2>6. AnswerInPrint'
    BY <1>2, <1>3, <1>4, <1>6, <1>8 DEF AnswerInPrint
  <2>7. TableInv(at)'
    BY <1>2, <2>1, <2>5 DEF TableInv
  <2>8. PanelInv(at)'
    BY <1>2, <1>5, <1>7, <2>1, <2>4 DEF PanelInv
  <2> QED
    BY <2>6, <2>7, <2>8 DEF Fitted
<1> QED
  BY <1>2, <1>9, <1>10 DEF MenuInv

\* The rows from the last answer to the one the print ended on are those it takes.
LEMMA AnswerPrintedKeeps ==
  ASSUME AnswersHypothesis, ScrollInv, MenuInv, AnswerPrinted
  PROVE  MenuInv'
<1> DEFINE c == current
           p == panels["normal"]
<1>1. ListInv /\ PanelTypes
  BY DEF MenuInv, ScrollInv, Types
<1>2. /\ c # 0 /\ ~Printing /\ current' = 0
      /\ UNCHANGED <<panels, mode, keep, job, asking, menu, left, list, waiting>>
      /\ list = "new" =>
           /\ table' = [r \in TableRows |-> IF r \in RowsTaken THEN c ELSE table[r]]
           /\ last' = p.row
      /\ list # "new" => UNCHANGED <<table, last>>
  BY DEF AnswerPrinted, scrollVars
<1>3. /\ Len(menu) \in Nat /\ Begun = c /\ c \in 1 .. Len(menu) /\ list # "up" /\ ~keep
  BY <1>1, <1>2, AnswersInOrder DEF ListInv
<1>4. Begun' = Begun /\ (Printing' <=> Printing)
  BY <1>2 DEF Begun, Printing
<1>5. ListInv'
  BY <1>1, <1>2, <1>3, <1>4 DEF ListInv
<1>6. ASSUME NEW at, Layout(menu, at) PROVE Fitted(at)'
  <2>1. TableInv(at) /\ PanelInv(at)
    BY <1>6, FittedAt DEF Fitted
  <2>2. /\ at[c] = at[c - 1] + menu[c] /\ at[c - 1] \in Nat /\ at[c] \in Nat
        /\ menu[c] \in Nat \ {0}
    BY <1>1, <1>3, <1>6, RowsOfAnswer
  <2>3. Drawn(at) = at[c] /\ at[c] > 0 /\ Drawn(at)' = Drawn(at)
    BY <1>2, <1>3, <1>4, <2>2 DEF Drawn, Printing
  <2>4. PanelInv(at)'
    BY <1>2, <2>1, <2>3 DEF PanelInv
  <2>5. p.row = at[c] - 1
    BY <1>3, <2>1, <2>3 DEF PanelInv
  <2>6. CASE list # "new"
    <3>1. Known' = Known
      BY <1>2, <2>6 DEF Known
    <3>2. TableInv(at)'
      BY <1>2, <2>1, <2>6, <3>1 DEF TableInv
    <3> QED
      BY <1>2, <2>4, <3>2 DEF Fitted, AnswerInPrint
  <2>7. CASE list = "new"
    <3>1. Known = c - 1 /\ Known' = c
      BY <1>2, <1>3, <1>4, <2>7 DEF Known
    <3>2. last = at[c - 1] - 1 /\ On(table, at, at[c - 1], NoAnswer) /\ DOMAIN table = TableRows
      BY <2>1, <2>7, <3>1 DEF TableInv
    <3>3. ASSUME NEW r \in TableRows
          PROVE  table'[r] = IF at[c - 1] <= r /\ r < at[c] THEN c ELSE table[r]
      <4>1. r \in RowsTaken <=> (at[c - 1] <= r /\ r < at[c])
        BY <2>2, <2>5, <3>2 DEF RowsTaken, TableRows
      <4> QED
        BY <1>2, <2>7, <4>1
    <3>4. DOMAIN table' = TableRows /\ last' = at[c] - 1
      BY <1>2, <2>5, <2>7
    <3>5. ASSUME NEW r \in TableRows PROVE r >= at[c] => table'[r] = NoAnswer
      BY <2>2, <3>2, <3>3 DEF On, TableRows
    <3>6. ASSUME NEW r \in TableRows, NEW i \in DOMAIN at \ {0},
                 at[i - 1] <= r /\ r < at[i] /\ r < at[c]
          PROVE  table'[r] = i
      <4>1. menu \in Seq(Nat \ {0}) /\ r \in Nat
        BY <1>1 DEF ListInv, TableRows
      <4>2. i \in 1 .. Len(menu)
        BY <1>3, <1>6, <4>1, LayoutFacts
      <4>3. CASE at[c - 1] <= r
        <5>1. i = c
          BY <1>3, <1>6, <3>6, <4>1, <4>2, <4>3, RowOfOneAnswer
        <5> QED
          BY <3>3, <3>6, <4>3, <5>1
      <4>4. CASE ~(at[c - 1] <= r)
        <5>1. r < at[c - 1]
          BY <2>2, <4>1, <4>4
        <5>2. table[r] = i
          BY <3>2, <3>6, <5>1 DEF On
        <5> QED
          BY <3>3, <4>4, <5>2
      <4> QED
        BY <4>3, <4>4
    <3>7. On(table', at, at[c], NoAnswer)
      BY <3>4, <3>5, <3>6 DEF On
    <3>8. TableInv(at)'
      BY <3>1, <3>4, <3>7 DEF TableInv
    <3> QED
      BY <1>2, <2>4, <3>8 DEF Fitted, AnswerInPrint
  <2> QED
    BY <2>6, <2>7
<1> QED
  BY <1>2, <1>5, <1>6 DEF MenuInv

LEMMA ListIsUpKeeps ==
  ASSUME MenuInv, ListIsUp
  PROVE  MenuInv'
<1>1. ListInv
  BY DEF MenuInv
<1>2. /\ list # "up" /\ left = <<>> /\ current = 0 /\ list' = "up" /\ waiting' /\ keep'
      /\ keep' \in BOOLEAN
      /\ UNCHANGED <<panels, mode, job, asking, menu, left, current, table, last>>
  BY DEF ListIsUp
<1>3. Begun' = Begun /\ Begun = Len(menu) /\ (Printing' <=> Printing)
  BY <1>1, <1>2, AnswersInOrder DEF Begun, Printing
<1>4. ListInv'
  BY <1>1, <1>2, <1>3 DEF ListInv
<1>5. ASSUME NEW at, Layout(menu, at) PROVE Fitted(at)'
  <2>1. TableInv(at) /\ PanelInv(at)
    BY <1>5, FittedAt DEF Fitted
  <2>2. Known' = Known /\ Drawn(at)' = Drawn(at)
    BY <1>2, <1>3 DEF Known, Drawn
  <2> QED
    BY <1>2, <2>1, <2>2 DEF Fitted, AnswerInPrint, TableInv, PanelInv
<1> QED
  BY <1>2, <1>4, <1>5 DEF MenuInv

\* A row of the answer in print goes below the rows there are, and there is room for it.
LEMMA RowDrawn ==
  ASSUME AnswersHypothesis, ScrollInv, ListInv, list # "up", Printing,
         NEW at, Layout(menu, at), Fitted(at)
  PROVE  LET q == Drawn(at) IN
         /\ current \in 1 .. Len(menu) /\ current = Begun /\ q \in 0 .. Rows - 1
         /\ at[current - 1] <= q /\ q < at[current]
         /\ Panel = panels["normal"] /\ Here = "normal" /\ IsPanel(Panel)
         /\ Row.shows = current /\ ~Row.more /\ Row.ends /\ ~asking
         /\ IF Panel.pending THEN q = Panel.row + 1 ELSE q = Panel.row
         /\ Len(Tail(job)) = Len(job) - 1 /\ Len(job) \in Nat
         /\ \A i \in DOMAIN Tail(job) : i + 1 \in DOMAIN job /\ Tail(job)[i] = job[i + 1]
<1> DEFINE c == current
           l == Len(job)
           q == Drawn(at)
<1>1. /\ c # 0 /\ c = Begun /\ mode = "menu" /\ Len(menu) \in Nat /\ c \in 1 .. Len(menu)
  BY AnswersInOrder DEF ListInv
<1>2. Here = "normal" /\ Panel = panels["normal"] /\ IsPanel(Panel)
  BY <1>1 DEF Here, PanelOf, Panel, ScrollInv, Types, PanelTypes
<1>3. /\ at[c] = at[c - 1] + menu[c] /\ at[c] \in Nat /\ at[c - 1] \in Nat
      /\ menu[c] \in Nat \ {0} /\ at[c] <= Rows /\ Rows \in Nat
  BY <1>1, RowsOfAnswer
<1>4. /\ job \in Seq(TextRows) /\ job # <<>> /\ Head(job) = job[1] /\ 1 \in DOMAIN job
      /\ \A i \in DOMAIN Tail(job) : i + 1 \in DOMAIN job /\ Tail(job)[i] = job[i + 1]
  BY TailIsText DEF ScrollInv, Types, JobTypes, IsText, Printing
<1>5. l \in Nat \ {0} /\ Len(Tail(job)) = l - 1
  BY <1>4
<1>6. /\ ~asking /\ l <= menu[c]
      /\ job[1].shows = c /\ ~job[1].more /\ job[1].ends
  BY <1>1, <1>4 DEF Fitted, AnswerInPrint
<1>7. q = at[c] - l
  BY <1>1 DEF Drawn
<1>8. q \in 0 .. Rows - 1 /\ at[c - 1] <= q /\ q < at[c]
  <2> HIDE DEF c, l, q
  <2> QED
    BY <1>3, <1>5, <1>6, <1>7
<1>9. /\ panels["normal"].pending <=> q > 0
      /\ panels["normal"].row = IF q > 0 THEN q - 1 ELSE 0
  BY DEF Fitted, PanelInv
<1>10. IF Panel.pending THEN q = Panel.row + 1 ELSE q = Panel.row
  <2> HIDE DEF q
  <2> QED
    BY <1>2, <1>8, <1>9
<1> QED
  BY <1>1, <1>2, <1>4, <1>5, <1>6, <1>8, <1>10 DEF Row

LEMMA RowsPrintOn ==
  ASSUME AnswersHypothesis, ScrollInv, ListInv, list # "up", PrintsOn, Printing,
         UNCHANGED menuVars, NEW at, Layout(menu, at), Fitted(at)
  PROVE  Fitted(at)'
<1> DEFINE q == Drawn(at)
           c == current
           p == panels["normal"]
<1>1. /\ c \in 1 .. Len(menu) /\ c = Begun /\ q \in 0 .. Rows - 1
      /\ at[c - 1] <= q /\ q < at[c]
      /\ Panel = p /\ Here = "normal" /\ IsPanel(p)
      /\ Row.shows = c /\ ~Row.more /\ Row.ends /\ ~asking
      /\ IF p.pending THEN q = p.row + 1 ELSE q = p.row
      /\ Len(Tail(job)) = Len(job) - 1 /\ Len(job) \in Nat
      /\ \A i \in DOMAIN Tail(job) : i + 1 \in DOMAIN job /\ Tail(job)[i] = job[i + 1]
  BY RowDrawn
<1>2. p.row \in 0 .. Rows - 1 /\ Rows \in Nat
  BY <1>1 DEF IsPanel, AnswersHypothesis, MenuHypothesis
<1>3. p.pending => Fits
  <2> HIDE DEF q, p
  <2> QED
    BY <1>1, <1>2 DEF Fits
<1>4. ~MustAsk
  BY <1>1, <1>3 DEF MustAsk
<1>5. Draw(p, q) /\ UNCHANGED asking
  <2> HIDE DEF q, p
  <2>1. DrawBeside \/ DrawBelow
    BY <1>1, <1>3, <1>4 DEF PrintsOn, DrawScrolled, AskMore, Answer
  <2>2. CASE DrawBeside
    BY <1>1, <2>2 DEF DrawBeside
  <2>3. CASE DrawBelow
    BY <1>1, <2>3 DEF DrawBelow
  <2> QED
    BY <2>1, <2>2, <2>3
<1>6. /\ panels'["normal"] = [shown |-> [p.shown EXCEPT ![q] = c], row |-> q, pending |-> TRUE]
      /\ job' = Tail(job)
  <2>1. /\ panels' = [panels EXCEPT !["normal"] =
                       [shown |-> [p.shown EXCEPT ![q] = c], row |-> q, pending |-> Row.ends]]
        /\ job' = Tail(job)
    BY <1>1, <1>5 DEF Draw
  <2>2. Row.ends = TRUE
    <3>1. job \in Seq(TextRows) /\ job # <<>>
      BY DEF ScrollInv, Types, JobTypes, IsText, Printing
    <3>2. Row \in TextRows
      BY <3>1 DEF Row
    <3>3. Row.ends \in BOOLEAN
      BY <3>2 DEF TextRows
    <3> QED
      BY <1>1, <3>3
  <2> QED
    BY <2>1, <2>2 DEF ScrollInv, Types, PanelTypes
<1>7. UNCHANGED <<menu, left, current, list, table, last>>
  BY DEF menuVars
<1>8. Begun' = Begun /\ Known' = Known
  BY <1>7 DEF Begun, Known
<1>9. menu \in Seq(Nat \ {0})
  BY DEF ListInv
<1>10. /\ Len(menu) \in Nat /\ DOMAIN at = 0 .. Len(menu)
       /\ \A i \in 0 .. Len(menu) : at[i] \in Nat
  BY <1>9, LayoutFacts
<1>11. Drawn(at)' = q + 1
  <2>1. Drawn(at)' = at[c] - Len(Tail(job)) /\ q = at[c] - Len(job)
    BY <1>1, <1>6, <1>8 DEF Drawn
  <2>2. at[c] \in Nat
    BY <1>1, <1>10
  <2> DEFINE l == Len(job)
             k == Len(Tail(job))
  <2>3. k = l - 1 /\ l \in Nat
    BY <1>1
  <2>4. Drawn(at)' = at[c] - k /\ q = at[c] - l
    BY <2>1
  <2> HIDE DEF l, k, q, c
  <2> QED
    BY <2>2, <2>3, <2>4
<1>12. AnswerInPrint'
  <2>1. Len(job) <= menu[c] /\ \A i \in DOMAIN job :
          job[i].shows = c /\ ~job[i].more /\ job[i].ends
    BY <1>1 DEF Fitted, AnswerInPrint
  <2>2. menu[c] \in Nat /\ Len(job') <= menu[c]
    BY <1>1, <1>6, <1>9, <2>1
  <2> QED
    BY <1>1, <1>5, <1>6, <1>7, <2>1, <2>2 DEF AnswerInPrint
<1>13. TableInv(at)'
  BY <1>7, <1>8 DEF Fitted, TableInv
<1>14. PanelInv(at)'
  <2> DEFINE drawn == [p.shown EXCEPT ![q] = c]
  <2>1. DOMAIN p.shown = 0 .. Rows - 1 /\ On(p.shown, at, q, Blank)
    BY DEF Fitted, PanelInv
  <2>2. DOMAIN drawn = 0 .. Rows - 1
        /\ \A r \in 0 .. Rows - 1 : drawn[r] = IF r = q THEN c ELSE p.shown[r]
    BY <2>1
  <2>3. ASSUME NEW r \in 0 .. Rows - 1, r >= q + 1 PROVE drawn[r] = Blank
    <3>1. r >= q /\ r # q
      BY <1>1, <1>2, <2>3
    <3> QED
      BY <2>1, <2>2, <3>1 DEF On
  <2>4. ASSUME NEW r \in 0 .. Rows - 1, NEW i \in DOMAIN at \ {0},
               at[i - 1] <= r /\ r < at[i] /\ r < q + 1
        PROVE  drawn[r] = i
    <3>1. i \in 1 .. Len(menu) /\ r \in Nat
      BY <1>10
    <3>2. CASE r = q
      <4>1. i = c
        BY <1>1, <1>9, <2>4, <3>1, <3>2, RowOfOneAnswer
      <4> QED
        BY <2>2, <3>2, <4>1
    <3>3. CASE r # q
      <4>1. r < q
        BY <1>1, <1>2, <2>4, <3>3
      <4>2. p.shown[r] = i
        BY <2>1, <2>4, <4>1 DEF On
      <4> QED
        BY <2>2, <3>3, <4>2
    <3> QED
      BY <3>2, <3>3
  <2> HIDE DEF drawn
  <2>5. On(drawn, at, q + 1, Blank)
    BY <2>2, <2>3, <2>4 DEF On
  <2>6. /\ panels'["normal"].shown = drawn /\ panels'["normal"].row = q
        /\ panels'["normal"].pending = TRUE
    BY <1>6 DEF drawn
  <2> DEFINE d == Drawn(at)'
  <2>7. d = q + 1 /\ q \in Nat
    <3>1. d = q + 1
      BY <1>11, Zenon
    <3>2. q \in Nat
      BY <1>1
    <3> QED
      BY <3>1, <3>2, Zenon
  <2> HIDE DEF q, d, p
  <2>8. d > 0 /\ d - 1 = q
    BY <2>7
  <2>9. /\ DOMAIN panels'["normal"].shown = 0 .. Rows - 1
        /\ On(panels'["normal"].shown, at, d, Blank)
        /\ panels'["normal"].pending <=> d > 0
        /\ panels'["normal"].row = IF d > 0 THEN d - 1 ELSE 0
    BY <2>2, <2>5, <2>6, <2>7, <2>8
  <2> QED
    BY <2>9 DEF PanelInv, d
<1> QED
  BY <1>12, <1>13, <1>14 DEF Fitted

LEMMA PrintsOnKeepsMenu ==
  ASSUME AnswersHypothesis, ScrollInv, MenuInv, PrintsOn, UNCHANGED menuVars
  PROVE  MenuInv'
<1>1. ListInv
  BY DEF MenuInv
<1>2. /\ Printing /\ UNCHANGED <<mode, keep>>
      /\ UNCHANGED <<menu, left, current, list, table, last, waiting>>
  <2>1. Printing
    BY DEF PrintsOn, DrawBeside, DrawBelow, DrawScrolled, AskMore, Answer, ScrollInv, ReadInv
  <2> QED
    BY <2>1 DEF PrintsOn, DrawBeside, DrawBelow, DrawScrolled, AskMore, Answer, menuVars
<1>3. CASE list = "up"
  <2>1. keep' = FALSE
    BY <1>1, <1>2 DEF ListInv
  <2> QED
    BY <1>2, <1>3, <2>1, UpKeeps
<1>4. CASE list # "up"
  <2>1. Begun' = Begun
    BY <1>2 DEF Begun
  <2>2. ListInv'
    BY <1>1, <1>2, <1>4, <2>1 DEF ListInv
  <2>3. ASSUME NEW at, Layout(menu, at) PROVE Fitted(at)'
    BY <1>1, <1>2, <1>4, <2>3, FittedAt, RowsPrintOn
  <2> QED
    BY <1>2, <2>2, <2>3 DEF MenuInv
<1> QED
  BY <1>3, <1>4

LEMMA ChooseKeepsMenu ==
  ASSUME MenuInv, NEW k, list = "up", Choose(k)
  PROVE  MenuInv'
<1>1. CASE armed /\ 0 < k /\ k <= Len(menu)
  <2>1. keep' = FALSE /\ UNCHANGED <<menu, left, current, list, table, last>>
    BY <1>1 DEF Choose, PrintTextOn
  <2> QED
    BY <2>1, UpKeeps
<1>2. CASE ~(armed /\ 0 < k /\ k <= Len(menu))
  BY <1>2, StutterKeeps DEF Choose, vars, menuVars
<1> QED
  BY <1>1, <1>2

LEMMA NextMenu ==
  ASSUME AnswersHypothesis, ScrollInv, MenuInv, [Next]_vars
  PROVE  MenuInv'
<1>1. ListInv
  BY DEF MenuInv
<1>2. ASSUME NEW m \in {"normal", "conversation", "menu"}, NEW t \in Texts, Message(m, t)
      PROVE  MenuInv'
  <2>1. /\ list = "up" /\ ~waiting /\ PrintText(m, t)
        /\ UNCHANGED <<menu, left, current, list, table, last>>
    BY <1>2 DEF Message, Resting, menuVars
  <2>2. keep' = FALSE
    BY <1>1, <2>1 DEF ListInv, PrintText, PrintTextOn
  <2> QED
    BY <2>1, <2>2, UpKeeps
<1>3. ASSUME NEW t \in Texts, Interrupt(t) PROVE MenuInv'
  <2>1. /\ list = "up" /\ keep /\ PrintText("normal", t)
        /\ UNCHANGED <<menu, left, current, list, table, last>>
    BY <1>3 DEF Interrupt, Polls, Resting, menuVars
  <2>2. keep' = FALSE
    BY <2>1 DEF PrintText, PrintTextOn
  <2> QED
    BY <2>1, <2>2, UpKeeps
<1>4. ASSUME NEW k \in 1 .. 4, Digit(k) PROVE MenuInv'
  BY <1>4, ChooseKeepsMenu DEF Digit, Polls, Resting
<1>5. CASE Click
  BY <1>5, ChooseKeepsMenu DEF Click, Polls, Resting
<1> QED
  BY <1>2, <1>3, <1>4, <1>5, OpenMenuKeeps, PrintAnswerKeeps, AnswerPrintedKeeps,
     ListIsUpKeeps, RedrawKeeps, PrintsOnKeepsMenu, StutterKeeps DEF Next

\* While the list is up, the table and the panel have the same answers on the same rows.
LEMMA TableAndScreen ==
  ASSUME AnswersHypothesis, MenuInv
  PROVE  TableMatchesScreen
<1> SUFFICES ASSUME Polls, NEW at, Layout(menu, at), NEW r \in 0 .. Rows - 1
             PROVE  table[r] = IF panels["normal"].shown[r] = Blank THEN NoAnswer
                               ELSE panels["normal"].shown[r]
  BY DEF TableMatchesScreen
<1> DEFINE n == Len(menu)
           shown == panels["normal"].shown
<1>1. list = "up" /\ keep /\ job = <<>> /\ ListInv /\ TableInv(at) /\ PanelInv(at)
  BY FittedAt DEF Polls, Resting, Printing, MenuInv, Fitted
<1>2. left = <<>> /\ menu \in Seq(Nat \ {0}) /\ Begun = n /\ Known = n
  BY <1>1, AnswersInOrder DEF ListInv, Known
<1>3. /\ n \in Nat /\ Rows \in Nat /\ DOMAIN at = 0 .. n
      /\ \A i \in 0 .. n : at[i] \in 0 .. Rows
  BY <1>2, LayoutFacts
<1>4. Drawn(at) = at[n]
  <2>1. Drawn(at) = at[n] - 0 /\ at[n] \in Nat
    BY <1>1, <1>2, <1>3 DEF Drawn
  <2> QED
    BY <2>1
<1>5. On(table, at, at[n], NoAnswer) /\ On(shown, at, at[n], Blank)
  BY <1>1, <1>2, <1>4 DEF TableInv, PanelInv
<1>6. r \in DOMAIN table /\ r \in DOMAIN shown /\ r \in Nat
  BY <1>1, <1>3 DEF TableInv, PanelInv, TableRows, AnswersHypothesis
<1>7. CASE r < at[n]
  <2>1. PICK i \in 1 .. n : at[i - 1] <= r /\ r < at[i]
    BY <1>2, <1>6, <1>7, RowOfSomeAnswer
  <2>2. i \in DOMAIN at \ {0} /\ i # Blank
    BY <1>3, <2>1 DEF Blank
  <2>3. table[r] = i /\ shown[r] = i
    BY <1>5, <1>6, <1>7, <2>1, <2>2 DEF On
  <2> QED
    BY <2>2, <2>3
<1>8. CASE r >= at[n]
  BY <1>5, <1>6, <1>8 DEF On
<1>9. at[n] \in Nat
  BY <1>3
<1> QED
  BY <1>6, <1>7, <1>8, <1>9

\* The answers are printed in their order on rows of their own, the table has each on the
\* rows it took, and what else prints gives the panel up (babl_menu, babl_fmenu).
THEOREM AnswerTableInvariant ==
  ASSUME AnswersHypothesis
  PROVE  Spec => [](ScrollInv /\ MenuInv)
<1>1. MenuHypothesis
  BY DEF AnswersHypothesis
<1>2. Init => ScrollInv /\ MenuInv
  BY <1>1, InitScroll, InitMenu
<1>3. ScrollInv /\ MenuInv /\ [Next]_vars => (ScrollInv /\ MenuInv)'
  BY <1>1, NextScroll, NextMenu
<1> QED
  BY <1>2, <1>3, PTL DEF Spec

\* While answers that fit the panel are up, the table names for each row the answer that
\* is printed there, for panels of ten rows at most and any menus (babl.c:2402).
THEOREM TableIsTheScreen ==
  ASSUME AnswersHypothesis
  PROVE  Spec => []TableMatchesScreen
<1>1. ScrollInv /\ MenuInv => TableMatchesScreen
  BY TableAndScreen
<1> QED
  BY <1>1, AnswerTableInvariant, PTL
=============================================================================
