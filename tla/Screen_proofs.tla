---------------------------- MODULE Screen_proofs ----------------------------
(***************************************************************************)
(* For any number of terminals, any screen and any texts: the page table   *)
(* leads the addresses of the terminals to the screen and to their pages,  *)
(* the visible flags name the terminal in front, the cursors stay on the   *)
(* screen, and the terminals that share the statics of lib.c implement     *)
(* terminals that share nothing.                                           *)
(***************************************************************************)
EXTENDS Screen, NatSets

\* The flag that terminal_write tests is set for the terminal in front and no other.
OneVisible == visible = [t \in Terms |-> t = curr_terminal]

\* MapsExact is not inductive alone: a switch leaves the entry of the old terminal to
\* remap_video, which finds it by curr_terminal, and the scheduler takes the entry of the
\* next process, so that both indices have to be terminals.
MapInv ==
  /\ curr_terminal \in Terms
  /\ curr_process \in Terms
  /\ pte \in [Pages -> Pages]
  /\ pte[0] = 0
  /\ MapsExact
  /\ OneVisible

-----------------------------------------------------------------------------
\* Terminals are numbered from 0, and each has a page of its own besides the screen.
LEMMA TermsPages ==
  /\ 0 \in Terms /\ 0 \in Pages
  /\ \A t \in Terms : Page(t) \in Pages /\ Page(t) # 0
  /\ \A t, u \in Terms : Page(t) = Page(u) => t = u
  /\ \A p \in Pages : p = 0 \/ \E t \in Terms : p = Page(t)
<1>1. NUM_TERM \in Nat \ {0}
  BY ScreenAssumption
<1>2. \A p \in Pages : p = 0 \/ (p - 1 \in Terms /\ p = Page(p - 1))
  BY <1>1 DEF Terms, Pages, Page
<1> QED
  BY <1>1, <1>2 DEF Terms, Pages, Page

\* The scheduler's turn stays among the terminals.
LEMMA TurnInTerms ==
  ASSUME NEW t \in Terms
  PROVE  (t + 1) % NUM_TERM \in Terms
BY ScreenAssumption DEF Terms

\* At boot the first terminal is in front.
LEMMA InitMaps == Init => MapInv
<1> SUFFICES ASSUME Init PROVE MapInv
  OBVIOUS
<1>1. /\ curr_terminal = 0 /\ curr_process = 0
      /\ visible = [t \in Terms |-> t = 0]
      /\ pte = [v \in Pages |-> IF v = 0 THEN paging_initialize[0]
                                ELSE IF v = Page(0) THEN 0 ELSE v]
  BY DEF Init
<1>2. paging_initialize[0] = 0
  BY DEF paging_initialize
<1>3. pte \in [Pages -> Pages] /\ pte[0] = 0
  BY <1>1, <1>2, TermsPages
<1>4. MapsExact
  BY <1>1, TermsPages DEF MapsExact
<1> QED
  BY <1>1, <1>3, <1>4, TermsPages DEF MapInv, OneVisible

\* Output, input and reads leave the mappings alone.
LEMMA OthersKeepMaps ==
  ASSUME MapInv, UNCHANGED mapVars
  PROVE  MapInv'
BY DEF MapInv, mapVars, MapsExact, OneVisible, Terms, Pages, Page

\* vidmap changes the user's page only.
LEMMA VidmapKeepsMaps ==
  ASSUME MapInv, vidmap_handler
  PROVE  MapInv'
BY DEF MapInv, vidmap_handler, MapsExact, OneVisible, Terms, Pages, Page

\* A switch points the old terminal's entry to its page and the new one's to the screen.
LEMMA SwitchKeepsMaps ==
  ASSUME MapInv, NEW t \in Terms, terminal_switch(t)
  PROVE  MapInv'
<1> DEFINE leaving == remap_video(pte, curr_terminal)
           coming == remap_video(leaving, t)
<1>1. /\ t # curr_terminal
      /\ pte' = [coming EXCEPT ![Page(t)] = 0]
      /\ visible' = [visible EXCEPT ![curr_terminal] = FALSE, ![t] = TRUE]
      /\ curr_terminal' = t
      /\ curr_process' = curr_process
  BY DEF terminal_switch, VisibleAfter
<1>2. pte' = [[[pte EXCEPT ![Page(curr_terminal)] = Page(curr_terminal)]
                    EXCEPT ![Page(t)] = Page(t)] EXCEPT ![Page(t)] = 0]
  BY <1>1 DEF remap_video
<1>3. /\ pte \in [Pages -> Pages] /\ pte[0] = 0
      /\ curr_terminal \in Terms /\ curr_process \in Terms
      /\ \A u \in Terms : pte[Page(u)] = IF u = curr_terminal THEN 0 ELSE Page(u)
  BY DEF MapInv, MapsExact
<1>4. pte' \in [Pages -> Pages] /\ pte'[0] = 0
  BY <1>2, <1>3, TermsPages
<1>5. ASSUME NEW u \in Terms
      PROVE  pte'[Page(u)] = IF u = t THEN 0 ELSE Page(u)
  BY <1>2, <1>3, TermsPages
<1>6. MapsExact'
  BY <1>1, <1>5 DEF MapsExact, Terms, Page
<1>7. OneVisible'
  BY <1>1, <1>3 DEF MapInv, OneVisible, Terms
<1> QED
  BY <1>1, <1>3, <1>4, <1>6, <1>7 DEF MapInv, Terms, Pages

\* A context switch writes the entry of the next process, with the value it has.
LEMMA SchedulerKeepsMaps ==
  ASSUME MapInv, scheduler
  PROVE  MapInv'
<1> DEFINE n == (curr_process + 1) % NUM_TERM
<1>1. /\ curr_process' = n
      /\ pte' = [pte EXCEPT ![Page(n)] = IF n = curr_terminal THEN 0 ELSE Page(n)]
      /\ visible' = visible /\ curr_terminal' = curr_terminal
  BY DEF scheduler, scheduler_remap_video
<1>2. n \in Terms
  BY TurnInTerms DEF MapInv
<1>3. /\ pte \in [Pages -> Pages]
      /\ \A u \in Terms : pte[Page(u)] = IF u = curr_terminal THEN 0 ELSE Page(u)
  BY DEF MapInv, MapsExact
<1>4. pte' = pte
  BY <1>1, <1>2, <1>3, TermsPages
<1> QED
  BY <1>1, <1>2, <1>4 DEF MapInv, MapsExact, OneVisible, Terms, Pages, Page

-----------------------------------------------------------------------------
\* Every step of the kernel keeps the mappings.
LEMMA StepKeepsMaps == MapInv /\ [Next]_vars => MapInv'
<1> SUFFICES ASSUME MapInv, [Next]_vars PROVE MapInv'
  OBVIOUS
<1>1. CASE UNCHANGED vars
  BY <1>1, OthersKeepMaps DEF vars, mapVars
<1>2. ASSUME NEW text \in Texts, terminal_write(text) \/ printf(text)
      PROVE  MapInv'
  BY <1>2, OthersKeepMaps DEF terminal_write, printf
<1>3. CASE terminal_read
  BY <1>3, OthersKeepMaps DEF terminal_read
<1>4. CASE key_press("a") \/ ClearScreen \/ Backspace \/ Enter
  BY <1>4, OthersKeepMaps DEF key_press, ClearScreen, Backspace, Enter
<1>5. ASSUME NEW t \in Terms, terminal_switch(t)
      PROVE  MapInv'
  BY <1>5, SwitchKeepsMaps
<1>6. CASE scheduler
  BY <1>6, SchedulerKeepsMaps
<1>7. CASE vidmap_handler
  BY <1>7, VidmapKeepsMaps
<1> QED
  BY <1>1, <1>2, <1>3, <1>4, <1>5, <1>6, <1>7 DEF Next

\* Whatever terminal_switch and the scheduler do, in any order and for any number of
\* terminals: the visible terminal's text is on the screen and every other in its page.
THEOREM MapsCorrect == Spec => []MapsExact
<1>1. MapInv => MapsExact
  BY DEF MapInv
<1> QED
  BY InitMaps, StepKeepsMaps, <1>1, PTL DEF Spec

\* The flag that terminal_write tests never disagrees with curr_terminal, so that a
\* program's output goes to its own terminal on either branch.
THEOREM VisibleCorrect == Spec => [](Console = curr_process)
<1>1. MapInv => Console = curr_process
  BY DEF MapInv, OneVisible, Console
<1> QED
  BY InitMaps, StepKeepsMaps, <1>1, PTL DEF Spec

-----------------------------------------------------------------------------
(***************************************************************************)
(* The statics of lib.c.                                                   *)
(***************************************************************************)

\* The columns, the rows and the places of the screen.
Cols == 0 .. NUM_COLS - 1
Rows == 0 .. NUM_ROWS - 1
Places == [x : Cols, y : Rows]

\* The fields of lib.c's state.
LEMMA LibFields ==
  ASSUME NEW m \in LibType
  PROVE  /\ m.frame \in [Pages -> [Cells -> Chars]] /\ m.at \in [Terms -> Places]
         /\ m.x \in Cols /\ m.y \in Rows /\ m.scrollFlag \in BOOLEAN
         /\ m.video_mem \in Pages /\ m.pos \in Cells
BY DEF LibType, Places, Cols, Rows

\* The numbers.
LEMMA Numbers ==
  /\ NUM_COLS \in Nat \ {0} /\ NUM_ROWS \in Nat \ {0, 1} /\ 0 \in Cols /\ 0 \in Rows
  /\ NUM_ROWS - 1 \in Rows /\ NUM_COLS - 1 \in Cols
BY ScreenAssumption DEF Cols, Rows

\* A place on the screen is a cell.
LEMMA PlaceInCells ==
  ASSUME NEW x \in Cols, NEW y \in Rows
  PROVE  NUM_COLS * y + x \in Cells
<1>1. NUM_COLS * y <= NUM_COLS * (NUM_ROWS - 1)
  BY Numbers DEF Rows
<1>2. NUM_COLS * (NUM_ROWS - 1) = NUM_ROWS * NUM_COLS - NUM_COLS
  BY Numbers
<1>3. NUM_COLS * y \in Nat /\ NUM_ROWS * NUM_COLS \in Nat
  BY Numbers DEF Rows
<1> QED
  BY <1>1, <1>2, <1>3, Numbers DEF Cells, Cols

\* Load takes the cursor of a terminal.
LEMMA LoadParts ==
  ASSUME NEW m \in LibType, NEW t \in Terms
  PROVE  /\ Load(m, t) \in LibType
         /\ Load(m, t).frame = m.frame /\ Load(m, t).at = m.at /\ Load(m, t).pos = m.pos
         /\ Load(m, t).video_mem = m.video_mem /\ Load(m, t).scrollFlag = m.scrollFlag
         /\ Load(m, t).x = m.at[t].x /\ Load(m, t).y = m.at[t].y
<1>1. m.at[t].x \in Cols /\ m.at[t].y \in Rows
  BY LibFields DEF Places
<1> QED
  BY <1>1 DEF Load, LibType, Cols, Rows

\* Store gives it back.
LEMMA StoreParts ==
  ASSUME NEW m \in LibType, NEW t \in Terms
  PROVE  /\ Store(m, t) \in LibType
         /\ Store(m, t).frame = m.frame /\ Store(m, t).pos = m.pos
         /\ Store(m, t).video_mem = m.video_mem /\ Store(m, t).scrollFlag = m.scrollFlag
         /\ Store(m, t).x = m.x /\ Store(m, t).y = m.y
         /\ Store(m, t).at = [m.at EXCEPT ![t] = [x |-> m.x, y |-> m.y]]
         /\ Store(m, t).at[t].x = m.x /\ Store(m, t).at[t].y = m.y
         /\ \A u \in Terms \ {t} : Store(m, t).at[u] = m.at[u]
<1>1. [m.at EXCEPT ![t] = [x |-> m.x, y |-> m.y]] \in [Terms -> Places]
  BY LibFields DEF Places
<1>2. Store(m, t) = [m EXCEPT !.at = [m.at EXCEPT ![t] = [x |-> m.x, y |-> m.y]]]
  BY DEF Store
<1>3. Store(m, t).at = [m.at EXCEPT ![t] = [x |-> m.x, y |-> m.y]]
  BY <1>2 DEF LibType
<1> DEFINE a == [m.at EXCEPT ![t] = [x |-> m.x, y |-> m.y]]
<1>4. /\ a[t].x = m.x /\ a[t].y = m.y
      /\ \A u \in Terms \ {t} : a[u] = m.at[u]
  BY LibFields
<1> HIDE DEF a
<1>5. /\ [m EXCEPT !.at = a] \in LibType
      /\ [m EXCEPT !.at = a].frame = m.frame /\ [m EXCEPT !.at = a].pos = m.pos
      /\ [m EXCEPT !.at = a].video_mem = m.video_mem
      /\ [m EXCEPT !.at = a].scrollFlag = m.scrollFlag
      /\ [m EXCEPT !.at = a].x = m.x /\ [m EXCEPT !.at = a].y = m.y
  BY <1>1 DEF LibType, Places, Cols, Rows, a
<1> QED
  BY <1>2, <1>3, <1>4, <1>5, Zenon DEF a

\* A character stored in the page of a terminal.
LEMMA PokeParts ==
  ASSUME NEW m \in LibType, NEW i, NEW c \in Chars, pte \in [Pages -> Pages]
  PROVE  /\ Poke(m, i, c) \in LibType
         /\ Poke(m, i, c).at = m.at /\ Poke(m, i, c).pos = m.pos
         /\ Poke(m, i, c).x = m.x /\ Poke(m, i, c).y = m.y
         /\ Poke(m, i, c).video_mem = m.video_mem /\ Poke(m, i, c).scrollFlag = m.scrollFlag
         /\ \A p \in Pages \ {pte[m.video_mem]} : Poke(m, i, c).frame[p] = m.frame[p]
<1>1. CASE i \notin Cells
  BY <1>1 DEF Poke
<1>2. CASE i \in Cells
  <2> DEFINE q == pte[m.video_mem]
             f == [m.frame EXCEPT ![q] = [m.frame[q] EXCEPT ![i] = c]]
  <2>1. q \in Pages
    BY LibFields
  <2>2. f \in [Pages -> [Cells -> Chars]] /\ \A p \in Pages \ {q} : f[p] = m.frame[p]
    <3> HIDE DEF q
    <3> QED BY <1>2, <2>1, LibFields
  <2>3. Poke(m, i, c) = [m EXCEPT !.frame = f]
    BY <1>2 DEF Poke
  <2> HIDE DEF f, q
  <2> QED
    BY <2>2, <2>3 DEF LibType, q
<1> QED
  BY <1>1, <1>2

\* The hardware cursor after update_cursor.
LEMMA CursorParts ==
  ASSUME NEW m \in LibType, curr_terminal \in Terms
  PROVE  /\ update_cursor(m) \in LibType
         /\ update_cursor(m).frame = m.frame /\ update_cursor(m).at = m.at
         /\ update_cursor(m).x = m.x /\ update_cursor(m).y = m.y
         /\ update_cursor(m).video_mem = m.video_mem
         /\ update_cursor(m).scrollFlag = m.scrollFlag
         /\ update_cursor(m).pos = CursorOf(m, curr_terminal)
<1>1. CursorOf(m, curr_terminal) \in Cells
  BY LibFields, PlaceInCells DEF CursorOf, Places
<1> QED
  BY <1>1 DEF update_cursor, LibType

-----------------------------------------------------------------------------
(***************************************************************************)
(* What the functions of lib.c change: the text and the cursor of one      *)
(* terminal.                                                               *)
(***************************************************************************)

\* From m to r, nothing has changed but the text of terminal t, where the page table leads,
\* and its cursor.
Out(m, r, t) ==
  /\ r \in LibType
  /\ \A p \in Pages \ {pte[Page(t)]} : r.frame[p] = m.frame[p]
  /\ \A u \in Terms \ {t} : r.at[u] = m.at[u]

\* The statics are the cursor of terminal t.
Loaded(m, t) == m.x = m.at[t].x /\ m.y = m.at[t].y

\* The hardware cursor is that of the terminal in front.
Follows(m) == m.pos = CursorOf(m, curr_terminal)

\* Output follows on output.
LEMMA OutTwice ==
  ASSUME NEW m, NEW r, NEW s, NEW t, Out(m, r, t), Out(r, s, t)
  PROVE  Out(m, s, t)
BY DEF Out

\* The next row.
LEMMA NextRow ==
  ASSUME NEW m \in LibType
  PROVE  (IF AtBottom(m) THEN m.y ELSE m.y + 1) \in Rows
BY LibFields, Numbers DEF AtBottom, Rows

\* Store after a change of the statics.
LEMMA StoreOut ==
  ASSUME NEW m, NEW r \in LibType, NEW t \in Terms, Out(m, r, t)
  PROVE  Out(m, Store(r, t), t) /\ Loaded(Store(r, t), t)
<1> DEFINE s == Store(r, t)
<1>1. /\ s \in LibType /\ s.frame = r.frame /\ s.x = r.x /\ s.y = r.y
      /\ s.at[t].x = r.x /\ s.at[t].y = r.y /\ \A u \in Terms \ {t} : s.at[u] = r.at[u]
  BY StoreParts, Zenon
<1> HIDE DEF s
<1>2. Out(m, s, t) /\ Loaded(s, t)
  BY <1>1 DEF Out, Loaded
<1> QED
  BY <1>2 DEF s

\* The line break of a typed or of a long line.
LEMMA EnterOut ==
  ASSUME NEW m \in LibType, NEW t \in Terms
  PROVE  Out(m, enter(m, t), t) /\ Loaded(enter(m, t), t)
<1> DEFINE l == Load(m, t)
           r == [l EXCEPT !.x = 0, !.y = IF AtBottom(l) THEN l.y ELSE l.y + 1,
                          !.scrollFlag = AtBottom(l)]
<1>1. l \in LibType /\ l.frame = m.frame /\ l.at = m.at
  BY LoadParts
<1>2. enter(m, t) = Store(r, t)
  BY DEF enter
<1>3. (IF AtBottom(l) THEN l.y ELSE l.y + 1) \in Rows /\ AtBottom(l) \in BOOLEAN /\ 0 \in Cols
  BY <1>1, NextRow, Numbers DEF AtBottom
<1> HIDE DEF l
<1>4. r \in LibType /\ r.frame = l.frame /\ r.at = l.at
  BY <1>1, <1>3 DEF LibType, Cols, Rows
<1> HIDE DEF r
<1>5. Out(m, r, t)
  BY <1>1, <1>4 DEF Out
<1> QED
  BY <1>2, <1>4, <1>5, StoreOut

\* The test for the line break that a program writes.
LEMMA NewlineOut ==
  ASSUME NEW m \in LibType, NEW t \in Terms
  PROVE  Out(m, newline_check(m, t), t) /\ Loaded(newline_check(m, t), t)
<1> DEFINE l == Load(m, t)
           r == [l EXCEPT !.x = 0, !.scrollFlag = l.scrollFlag \/ AtBottom(l)]
<1>1. l \in LibType /\ l.frame = m.frame /\ l.at = m.at
  BY LoadParts
<1>2. newline_check(m, t) = Store(r, t)
  BY DEF newline_check
<1>3. (l.scrollFlag \/ AtBottom(l)) \in BOOLEAN /\ 0 \in Cols
  BY <1>1, Numbers DEF AtBottom
<1> HIDE DEF l
<1>4. r \in LibType /\ r.frame = l.frame /\ r.at = l.at
  BY <1>1, <1>3 DEF LibType, Cols
<1> HIDE DEF r
<1>5. Out(m, r, t)
  BY <1>1, <1>4 DEF Out
<1> QED
  BY <1>2, <1>4, <1>5, StoreOut

\* The text moved up.
LEMMA ScrolledText ==
  ASSUME NEW text \in [Cells -> Chars]
  PROVE  Scrolled(text) \in [Cells -> Chars]
BY DEF Scrolled, Chars

\* The last line scrolled away.
LEMMA ScrollOut ==
  ASSUME NEW m \in LibType, NEW t \in Terms, MapInv
  PROVE  /\ Out(m, vert_scroll(m, t), t) /\ Loaded(vert_scroll(m, t), t)
         /\ Follows(vert_scroll(m, t))
<1> DEFINE l == Load(m, t)
           q == pte[Page(t)]
           f == [l.frame EXCEPT ![q] = Scrolled(l.frame[q])]
           r == [l EXCEPT !.frame = f, !.video_mem = Page(t), !.scrollFlag = FALSE]
           s == IF AtBottom(l) /\ l.scrollFlag THEN r ELSE l
           w == update_cursor(s)
<1>1. l \in LibType /\ l.frame = m.frame /\ l.at = m.at /\ Loaded(l, t)
  BY LoadParts DEF Loaded
<1>2. q \in Pages /\ Page(t) \in Pages /\ curr_terminal \in Terms
  BY TermsPages DEF MapInv
<1>3. vert_scroll(m, t) = Store(w, t)
  BY DEF vert_scroll
<1> HIDE DEF l, q
<1>4. f \in [Pages -> [Cells -> Chars]] /\ \A p \in Pages \ {q} : f[p] = l.frame[p]
  BY <1>1, <1>2, LibFields, ScrolledText
<1> HIDE DEF f
<1>5. r \in LibType /\ r.frame = f /\ r.at = l.at /\ r.x = l.x /\ r.y = l.y
  BY <1>1, <1>2, <1>4 DEF LibType
<1> HIDE DEF r
<1>6. s \in LibType /\ s.at = m.at /\ s.x = l.x /\ s.y = l.y
      /\ \A p \in Pages \ {q} : s.frame[p] = m.frame[p]
  BY <1>1, <1>4, <1>5
<1> HIDE DEF s
<1>7. /\ w \in LibType /\ w.frame = s.frame /\ w.at = m.at /\ w.x = l.x /\ w.y = l.y
      /\ w.pos = CursorOf(s, curr_terminal)
  BY <1>2, <1>6, CursorParts
<1> HIDE DEF w
<1>8. Out(m, w, t)
  BY <1>6, <1>7 DEF Out, q
<1>9. Out(m, Store(w, t), t) /\ Loaded(Store(w, t), t)
  BY <1>7, <1>8, StoreOut
<1>10. Store(w, t).at = m.at
  <2>1. w.x = m.at[t].x /\ w.y = m.at[t].y
    BY <1>1, <1>7 DEF Loaded
  <2>2. m.at \in [Terms -> Places]
    BY LibFields
  <2>3. Store(w, t).at = [m.at EXCEPT ![t] = [x |-> m.at[t].x, y |-> m.at[t].y]]
    BY <1>7, <2>1, StoreParts
  <2>4. m.at[t] = [x |-> m.at[t].x, y |-> m.at[t].y]
    BY <2>2 DEF Places
  <2> QED
    BY <2>2, <2>3, <2>4
<1>11. Store(w, t).pos = w.pos
  BY <1>7, StoreParts
<1> QED
  BY <1>3, <1>6, <1>7, <1>9, <1>10, <1>11 DEF Follows, CursorOf

\* The cursor stored and shown.
LEMMA PutStores ==
  ASSUME NEW m, NEW r \in LibType, NEW t \in Terms, Out(m, r, t), curr_terminal \in Terms,
         NEW s, s = update_cursor(Store(r, t))
  PROVE  Out(m, s, t) /\ Loaded(s, t) /\ Follows(s)
<1> DEFINE w == Store(r, t)
<1>1. w \in LibType
  BY StoreParts, Zenon
<1>2. Out(m, w, t) /\ Loaded(w, t)
  BY StoreOut
<1> HIDE DEF w
<1>3. /\ s \in LibType /\ s.frame = w.frame /\ s.at = w.at /\ s.x = w.x /\ s.y = w.y
      /\ s.pos = CursorOf(w, curr_terminal)
  BY <1>1, CursorParts DEF w
<1> QED
  BY <1>2, <1>3 DEF Out, Loaded, Follows, CursorOf

\* A character.
LEMMA PutOut ==
  ASSUME NEW m \in LibType, NEW t \in Terms, NEW c \in Chars \cup {"newline"}, MapInv
  PROVE  Out(m, putc(m, t, c), t) /\ Loaded(putc(m, t, c), t) /\ Follows(putc(m, t, c))
<1> DEFINE a == Load(m, t)
           l == [a EXCEPT !.video_mem = Page(t)]
           x == (l.x + 1) % NUM_COLS
           y == (l.y + x \div NUM_COLS) % NUM_ROWS
           n == [l EXCEPT !.x = 0, !.y = IF AtBottom(l) THEN l.y ELSE l.y + 1]
           p == Poke(l, NUM_COLS * l.y + l.x, c)
           w == IF c = "newline" THEN n ELSE [p EXCEPT !.x = x, !.y = y]
<1>1. a \in LibType /\ a.frame = m.frame /\ a.at = m.at
  BY LoadParts
<1>2. Page(t) \in Pages /\ curr_terminal \in Terms /\ pte \in [Pages -> Pages]
  BY TermsPages DEF MapInv
<1>3. putc(m, t, c) = update_cursor(Store(w, t))
  BY DEF putc
<1> HIDE DEF a
<1>4. l \in LibType /\ l.frame = m.frame /\ l.at = m.at /\ l.video_mem = Page(t)
  BY <1>1, <1>2 DEF LibType
<1> HIDE DEF l
<1>5. x \in Cols /\ y \in Rows /\ 0 \in Cols /\ (IF AtBottom(l) THEN l.y ELSE l.y + 1) \in Rows
  <2>1. l.x \in Nat /\ l.y \in Nat /\ x \in Cols
    BY <1>4, LibFields, Numbers DEF Cols, Rows
  <2>2. x \div NUM_COLS \in Nat
    BY <2>1, Numbers DEF Cols
  <2> HIDE DEF x
  <2>3. y \in Rows
    BY <2>1, <2>2, Numbers DEF Rows
  <2> QED
    BY <1>4, <2>1, <2>3, NextRow, Numbers
<1> HIDE DEF x, y
<1>6. n \in LibType /\ n.frame = l.frame /\ n.at = l.at
  BY <1>4, <1>5 DEF LibType, Cols, Rows
<1> HIDE DEF n
<1>7. CASE c = "newline"
  <2>1. w = n /\ Out(m, n, t)
    BY <1>4, <1>6, <1>7 DEF Out
  <2> QED
    BY <1>2, <1>3, <1>6, <2>1, PutStores
<1>8. CASE c # "newline"
  <2>1. c \in Chars
    BY <1>8
  <2>2. /\ p \in LibType /\ p.at = l.at
        /\ \A q \in Pages \ {pte[Page(t)]} : p.frame[q] = l.frame[q]
    BY <1>2, <1>4, <2>1, PokeParts
  <2> HIDE DEF p
  <2>3. [p EXCEPT !.x = x, !.y = y] \in LibType
    BY <1>5, <2>2 DEF LibType, Cols, Rows
  <2>4. [p EXCEPT !.x = x, !.y = y].frame = p.frame /\ [p EXCEPT !.x = x, !.y = y].at = p.at
    BY <2>2 DEF LibType
  <2>5. w \in LibType /\ Out(m, w, t)
    BY <1>4, <1>8, <2>2, <2>3, <2>4 DEF Out
  <2> QED
    BY <1>2, <1>3, <2>5, PutStores
<1> QED
  BY <1>7, <1>8

\* A deletion.
LEMMA BackspaceOut ==
  ASSUME NEW m \in LibType, MapInv
  PROVE  Out(m, backspace(m), curr_terminal)
<1> DEFINE t == curr_terminal
           a == Load(m, t)
           l == [a EXCEPT !.video_mem = Page(t)]
           w == Poke(l, NUM_COLS * l.y + l.x - 1, "nul")
           back == CASE l.x # 0            -> [w EXCEPT !.x = l.x - 1]
                     [] l.x = 0 /\ l.y # 0 -> [w EXCEPT !.x = NUM_COLS - 1, !.y = l.y - 1]
                     [] OTHER              -> w
<1>1. Page(t) \in Pages /\ t \in Terms /\ pte \in [Pages -> Pages]
  BY TermsPages DEF MapInv
<1>2. a \in LibType /\ a.frame = m.frame /\ a.at = m.at
  BY <1>1, LoadParts
<1>3. backspace(m) = Store(back, t)
  BY DEF backspace
<1> HIDE DEF a
<1>4. l \in LibType /\ l.frame = m.frame /\ l.at = m.at /\ l.video_mem = Page(t)
  BY <1>1, <1>2 DEF LibType
<1> HIDE DEF l
<1>5. /\ w \in LibType /\ w.at = l.at
      /\ \A q \in Pages \ {pte[Page(t)]} : w.frame[q] = l.frame[q]
  <2>1. "nul" \in Chars
    BY DEF Chars
  <2> QED
    BY <1>1, <1>4, <2>1, PokeParts
<1> HIDE DEF w
<1>6. /\ NUM_COLS - 1 \in Cols /\ (l.x # 0 => l.x - 1 \in Cols)
      /\ (l.y # 0 => l.y - 1 \in Rows) /\ l.x \in Cols /\ l.y \in Rows
  BY <1>4, LibFields, Numbers DEF Cols, Rows
<1>7. \A x \in Cols : LET r == [w EXCEPT !.x = x] IN r \in LibType /\ r.frame = w.frame /\ r.at = w.at
  BY <1>5 DEF LibType, Cols
<1>8. \A x \in Cols, y \in Rows : LET r == [w EXCEPT !.x = x, !.y = y]
                                  IN  r \in LibType /\ r.frame = w.frame /\ r.at = w.at
  BY <1>5 DEF LibType, Cols, Rows
<1>9. back \in LibType /\ back.frame = w.frame /\ back.at = w.at
  <2>1. CASE l.x # 0
    BY <1>6, <1>7, <2>1
  <2>2. CASE l.x = 0 /\ l.y # 0
    BY <1>6, <1>8, <2>2
  <2>3. CASE l.x = 0 /\ l.y = 0
    BY <1>5, <2>3
  <2> QED
    BY <2>1, <2>2, <2>3
<1> HIDE DEF back
<1>10. Out(m, back, t)
  BY <1>4, <1>5, <1>9 DEF Out
<1> QED
  BY <1>1, <1>3, <1>9, <1>10, StoreOut

-----------------------------------------------------------------------------
(***************************************************************************)
(* The loops of terminal_write and of puts.                                *)
(***************************************************************************)

\* What programs write.
Bytes == {"a", "space", "nul", "newline"}

\* What is claimed of the hardware cursor.
Shown(m) == Follows(m) \/ CursorOf(m, curr_terminal) = 0

\* The states of terminal_write's loop.
Writing == {w \in [m : LibType, n : Nat] :
              Out(lib, w.m, curr_process) /\ Loaded(w.m, curr_process)
              /\ (Shown(lib) => Shown(w.m))}

\* The states of puts' loop.
Printing == {m \in LibType : Out(lib, m, curr_process)}

\* terminal_write finds its own terminal.
LEMMA OwnConsole ==
  ASSUME MapInv
  PROVE  Console = curr_process /\ curr_process \in Terms
BY DEF MapInv, OneVisible, Console

\* A record of statics and tracker.
LEMMA WritingParts ==
  ASSUME NEW m \in LibType, NEW n \in Nat, Out(lib, m, curr_process), Loaded(m, curr_process),
         Shown(m)
  PROVE  [m |-> m, n |-> n] \in Writing
BY DEF Writing

\* One byte of a program's output.
LEMMA ByteWritten ==
  ASSUME MapInv, NEW w \in Writing, NEW c \in Bytes
  PROVE  WriteByte(w, c) \in Writing
<1> DEFINE t == curr_process
           v == vert_scroll(newline_check(w.m, Console), Console)
           fresh == IF c = "newline" THEN [m |-> v, n |-> 0] ELSE w
           p == putc(fresh.m, Console, c)
           q == update_cursor(p)
           put == [m |-> q, n |-> fresh.n + 1]
           e == vert_scroll(enter(put.m, Console), Console)
<1>1. Console = t /\ t \in Terms /\ curr_terminal \in Terms
  BY OwnConsole DEF MapInv
<1>2. WriteByte(w, c) = IF c = "nul" THEN w ELSE IF put.n < NUM_COLS THEN put
                        ELSE [m |-> e, n |-> 0]
  BY DEF WriteByte
<1>3. w.m \in LibType /\ w.n \in Nat /\ Out(lib, w.m, t)
  BY DEF Writing
<1>4. v \in LibType /\ Out(lib, v, t)
  <2> DEFINE a == newline_check(w.m, t)
  <2>1. Out(w.m, a, t)
    BY <1>1, <1>3, NewlineOut
  <2>2. a \in LibType
    BY <2>1 DEF Out
  <2> HIDE DEF a
  <2>3. Out(a, vert_scroll(a, t), t)
    BY <1>1, <2>2, ScrollOut
  <2>4. Out(lib, vert_scroll(a, t), t)
    BY <1>3, <2>1, <2>3, OutTwice
  <2>5. v = vert_scroll(a, t)
    BY <1>1 DEF a
  <2> QED
    BY <2>4, <2>5 DEF Out
<1> HIDE DEF v
<1>5. fresh.m \in LibType /\ fresh.n \in Nat /\ Out(lib, fresh.m, t)
  BY <1>3, <1>4
<1> HIDE DEF fresh
<1>6. Out(fresh.m, p, t) /\ Loaded(p, t) /\ Follows(p)
  <2>1. c \in Chars \cup {"newline"}
    BY DEF Bytes, Chars
  <2> QED
    BY <1>1, <1>5, <2>1, PutOut, Zenon
<1>7. Out(lib, p, t) /\ p \in LibType
  BY <1>5, <1>6, OutTwice DEF Out
<1> HIDE DEF p
<1>8. q \in LibType /\ Out(lib, q, t) /\ Loaded(q, t) /\ Follows(q)
  <2>1. /\ q \in LibType /\ q.frame = p.frame /\ q.at = p.at /\ q.x = p.x /\ q.y = p.y
        /\ q.pos = CursorOf(p, curr_terminal)
    BY <1>1, <1>7, CursorParts
  <2> HIDE DEF q
  <2> QED
    BY <1>6, <1>7, <2>1 DEF Out, Loaded, Follows, CursorOf
<1> HIDE DEF q
<1>9. put \in Writing /\ put.m = q
  <2>1. fresh.n + 1 \in Nat
    BY <1>5
  <2> QED
    BY <1>8, <2>1, WritingParts DEF Shown
<1>10. [m |-> e, n |-> 0] \in Writing
  <2> DEFINE a == enter(q, t)
  <2>1. Out(q, a, t)
    BY <1>1, <1>8, EnterOut
  <2>2. a \in LibType
    BY <2>1 DEF Out
  <2> HIDE DEF a
  <2>3. Out(a, vert_scroll(a, t), t) /\ Loaded(vert_scroll(a, t), t) /\ Follows(vert_scroll(a, t))
    BY <1>1, <2>2, ScrollOut
  <2>4. Out(lib, vert_scroll(a, t), t)
    BY <1>8, <2>1, <2>3, OutTwice
  <2>5. e = vert_scroll(a, t)
    BY <1>1, <1>9 DEF a
  <2>6. e \in LibType
    BY <2>4, <2>5 DEF Out
  <2> QED
    BY <2>3, <2>4, <2>5, <2>6, WritingParts DEF Shown
<1> QED
  BY <1>2, <1>9, <1>10, Zenon

\* One character of a message.
LEMMA BytePrinted ==
  ASSUME MapInv, NEW m \in Printing, NEW c \in Bytes
  PROVE  putc(m, curr_process, c) \in Printing
<1>1. curr_process \in Terms /\ c \in Chars \cup {"newline"}
  BY DEF MapInv, Bytes, Chars
<1>2. m \in LibType /\ Out(lib, m, curr_process)
  BY DEF Printing
<1>3. Out(m, putc(m, curr_process, c), curr_process)
  BY <1>1, <1>2, PutOut, Zenon
<1>4. Out(lib, putc(m, curr_process, c), curr_process)
  BY <1>2, <1>3, OutTwice
<1> QED
  BY <1>4 DEF Printing, Out

\* Before the first byte.
LEMMA WriteStarts ==
  ASSUME MapInv, TypeOK
  PROVE  [m |-> Load(lib, curr_process), n |-> 0] \in Writing
<1> DEFINE l == Load(lib, curr_process)
<1>1. curr_process \in Terms /\ lib \in LibType
  BY DEF MapInv, TypeOK
<1>2. /\ l \in LibType /\ l.frame = lib.frame /\ l.at = lib.at /\ l.pos = lib.pos
      /\ l.x = lib.at[curr_process].x /\ l.y = lib.at[curr_process].y
  BY <1>1, LoadParts
<1> HIDE DEF l
<1>3. Out(lib, l, curr_process) /\ Loaded(l, curr_process) /\ (Shown(lib) => Shown(l))
  BY <1>2 DEF Out, Loaded, Shown, Follows, CursorOf
<1> QED
  BY <1>2, <1>3 DEF Writing, l

\* And before the first character.
LEMMA PrintStarts ==
  ASSUME TypeOK
  PROVE  lib \in Printing
BY DEF Printing, TypeOK, Out

\* The turns h of terminal_write's loop.
WriteTurns(h, text, n) ==
  /\ Written(text) = h[n].m /\ h[0] = [m |-> Load(lib, curr_process), n |-> 0]
  /\ \A k \in 1 .. n : h[k] = WriteByte(h[k - 1], text[k])

\* There are such turns.
LEMMA WriteUnfolds ==
  ASSUME MapInv, TypeOK, NEW text \in Seq(Bytes)
  PROVE  \E h : WriteTurns(h, text, Len(text))
<1> DEFINE n == Len(text)
           b == [m |-> Load(lib, curr_process), n |-> 0]
           step == [q \in Writing \X (1 .. n) |-> WriteByte(q[1], text[q[2]])]
           F(h) == [k \in 0 .. n |-> IF k = 0 THEN b ELSE WriteByte(h[k - 1], text[k])]
<1>0. n \in Nat /\ \A k \in 1 .. n : text[k] \in Bytes
  OBVIOUS
<1> HIDE DEF n
<1>1. step \in [Writing \X (1 .. n) -> Writing]
  <2>1. \A w \in Writing, k \in 1 .. n : WriteByte(w, text[k]) \in Writing
    BY <1>0, ByteWritten, Zenon
  <2> QED
    BY <2>1
<1>b. b \in Writing
  BY WriteStarts
<1>2. PICK f : Loop(f, Writing, b, step, n)
  <2> HIDE DEF step, b
  <2> QED
    BY <1>0, <1>1, <1>b, LoopExists, Zenon
<1>3. f = F(f)
  <2>1. ASSUME NEW k \in 1 .. n PROVE f[k] = WriteByte(f[k - 1], text[k])
    <3>1. f[k - 1] \in Writing /\ f[k] = step[<<f[k - 1], k>>]
      <4> HIDE DEF step
      <4> QED
        BY <1>0, <1>2 DEF Loop
    <3> QED
      BY <3>1, Zenon
  <2>2. f = [k \in 0 .. n |-> f[k]] /\ f[0] = b
    BY <1>2 DEF Loop
  <2>3. \A k \in 0 .. n : f[k] = IF k = 0 THEN b ELSE WriteByte(f[k - 1], text[k])
    <3> SUFFICES ASSUME NEW k \in 0 .. n, k # 0 PROVE f[k] = WriteByte(f[k - 1], text[k])
      BY <2>2, Zenon
    <3>1. k \in 1 .. n
      BY <1>0
    <3> QED
      BY <2>1, <3>1, Zenon
  <2>4. F(f) = [k \in 0 .. n |-> f[k]]
    BY <2>3, Zenon
  <2> QED
    BY <2>2, <2>4, Zenon
<1> DEFINE h == CHOOSE h : h = F(h)
<1>4. Written(text) = h[n].m
  BY DEF Written, n
<1>5. h = F(h)
  <2> HIDE DEF F
  <2> QED
    BY <1>3
<1> HIDE DEF h
<1>6. h[0] = b /\ \A k \in 1 .. n : h[k] = WriteByte(h[k - 1], text[k])
  <2> HIDE DEF b
  <2> QED
    BY <1>0, <1>5
<1> QED
  BY <1>4, <1>6, Zenon DEF WriteTurns, n

\* All of the text.
LEMMA WriteAll ==
  ASSUME MapInv, TypeOK, NEW text \in Seq(Bytes)
  PROVE  /\ Out(lib, Written(text), curr_process) /\ Loaded(Written(text), curr_process)
         /\ Shown(lib) => Shown(Written(text))
<1> DEFINE n == Len(text)
<1>0. n \in Nat /\ \A k \in 1 .. n : text[k] \in Bytes
  OBVIOUS
<1>1. PICK h : WriteTurns(h, text, n)
  BY WriteUnfolds, Zenon
<1> HIDE DEF n
<1>2. /\ Written(text) = h[n].m /\ h[0] = [m |-> Load(lib, curr_process), n |-> 0]
      /\ \A k \in 1 .. n : h[k] = WriteByte(h[k - 1], text[k])
  BY <1>1, Zenon DEF WriteTurns
<1> DEFINE T == {k \in 0 .. n : h[k] \in Writing}
<1>3. 0 \in T
  <2>1. [m |-> Load(lib, curr_process), n |-> 0] \in Writing
    BY WriteStarts
  <2> QED
    BY <1>0, <1>2, <2>1
<1>4. ASSUME NEW k \in 0 .. n - 1, k \in T PROVE k + 1 \in T
  <2>1. k + 1 \in 1 .. n /\ k + 1 \in 0 .. n /\ k + 1 - 1 = k
    BY <1>0
  <2>2. h[k + 1] = WriteByte(h[k], text[k + 1])
    BY <1>2, <2>1
  <2>3. WriteByte(h[k], text[k + 1]) \in Writing
    BY <1>0, <1>4, <2>1, ByteWritten
  <2> QED
    BY <2>1, <2>2, <2>3
<1>5. 0 .. n \subseteq T
  <2> HIDE DEF T
  <2> QED
    BY <1>0, <1>3, <1>4, InductionUpTo
<1>6. h[n] \in Writing
  BY <1>0, <1>5
<1> QED
  BY <1>2, <1>6 DEF Writing

\* The turns h of puts' loop.
PrintTurns(h, text, n) ==
  /\ Printed(text) = h[n] /\ h[0] = lib
  /\ \A k \in 1 .. n : h[k] = putc(h[k - 1], curr_process, text[k])

\* There are such turns.
LEMMA PrintUnfolds ==
  ASSUME MapInv, TypeOK, NEW text \in Seq(Bytes)
  PROVE  \E h : PrintTurns(h, text, Len(text))
<1> DEFINE n == Len(text)
           b == lib
           step == [q \in Printing \X (1 .. n) |-> putc(q[1], curr_process, text[q[2]])]
           F(h) == [k \in 0 .. n |-> IF k = 0 THEN b ELSE putc(h[k - 1], curr_process, text[k])]
<1>0. n \in Nat /\ \A k \in 1 .. n : text[k] \in Bytes
  OBVIOUS
<1> HIDE DEF n
<1>1. step \in [Printing \X (1 .. n) -> Printing]
  <2>1. \A w \in Printing, k \in 1 .. n : putc(w, curr_process, text[k]) \in Printing
    BY <1>0, BytePrinted, Zenon
  <2> QED
    BY <2>1
<1>b. b \in Printing
  BY PrintStarts
<1>2. PICK f : Loop(f, Printing, b, step, n)
  <2> HIDE DEF step, b
  <2> QED
    BY <1>0, <1>1, <1>b, LoopExists, Zenon
<1>3. f = F(f)
  <2>1. ASSUME NEW k \in 1 .. n PROVE f[k] = putc(f[k - 1], curr_process, text[k])
    <3>1. f[k - 1] \in Printing /\ f[k] = step[<<f[k - 1], k>>]
      <4> HIDE DEF step
      <4> QED
        BY <1>0, <1>2 DEF Loop
    <3> QED
      BY <3>1, Zenon
  <2>2. f = [k \in 0 .. n |-> f[k]] /\ f[0] = b
    BY <1>2 DEF Loop
  <2>3. \A k \in 0 .. n : f[k] = IF k = 0 THEN b ELSE putc(f[k - 1], curr_process, text[k])
    <3> SUFFICES ASSUME NEW k \in 0 .. n, k # 0 PROVE f[k] = putc(f[k - 1], curr_process, text[k])
      BY <2>2, Zenon
    <3>1. k \in 1 .. n
      BY <1>0
    <3> QED
      BY <2>1, <3>1, Zenon
  <2>4. F(f) = [k \in 0 .. n |-> f[k]]
    BY <2>3, Zenon
  <2> QED
    BY <2>2, <2>4, Zenon
<1> DEFINE h == CHOOSE h : h = F(h)
<1>4. Printed(text) = h[n]
  BY DEF Printed, n
<1>5. h = F(h)
  <2> HIDE DEF F
  <2> QED
    BY <1>3
<1> HIDE DEF h
<1>6. h[0] = b /\ \A k \in 1 .. n : h[k] = putc(h[k - 1], curr_process, text[k])
  <2> HIDE DEF b
  <2> QED
    BY <1>0, <1>5
<1> QED
  BY <1>4, <1>6, Zenon DEF PrintTurns, n

\* All of the text.
LEMMA PrintAll ==
  ASSUME MapInv, TypeOK, NEW text \in Seq(Bytes)
  PROVE  Out(lib, Printed(text), curr_process)
<1> DEFINE n == Len(text)
<1>0. n \in Nat /\ \A k \in 1 .. n : text[k] \in Bytes
  OBVIOUS
<1>1. PICK h : PrintTurns(h, text, n)
  BY PrintUnfolds, Zenon
<1> HIDE DEF n
<1>2. /\ Printed(text) = h[n] /\ h[0] = lib
      /\ \A k \in 1 .. n : h[k] = putc(h[k - 1], curr_process, text[k])
  BY <1>1, Zenon DEF PrintTurns
<1> DEFINE T == {k \in 0 .. n : h[k] \in Printing}
<1>3. 0 \in T
  <2>1. lib \in Printing
    BY PrintStarts
  <2> QED
    BY <1>0, <1>2, <2>1
<1>4. ASSUME NEW k \in 0 .. n - 1, k \in T PROVE k + 1 \in T
  <2>1. k + 1 \in 1 .. n /\ k + 1 \in 0 .. n /\ k + 1 - 1 = k
    BY <1>0
  <2>2. h[k + 1] = putc(h[k], curr_process, text[k + 1])
    BY <1>2, <2>1
  <2>3. putc(h[k], curr_process, text[k + 1]) \in Printing
    BY <1>0, <1>4, <2>1, BytePrinted
  <2> QED
    BY <2>1, <2>2, <2>3
<1>5. 0 .. n \subseteq T
  <2> HIDE DEF T
  <2> QED
    BY <1>0, <1>3, <1>4, InductionUpTo
<1>6. h[n] \in Printing
  BY <1>0, <1>5
<1> QED
  BY <1>2, <1>6 DEF Printing

-----------------------------------------------------------------------------
(***************************************************************************)
(* The steps.                                                              *)
(***************************************************************************)

\* The types after an output, a key or a read.
Typed == /\ lib' \in LibType /\ UNCHANGED mapVars
         /\ line' \in 0 .. keyBufferSize /\ left' \in 0 .. MaxOutputs

\* The hardware cursor stays right.
KeepsCursor == CursorShown => CursorShown'

\* They are the types.
LEMMA TypedTypes ==
  ASSUME TypeOK, Typed
  PROVE  TypeOK'
BY DEF TypeOK, Typed, mapVars, LibType, Pages, Cells, Chars, Terms

\* A cursor that is shown now.
LEMMA FollowsShown ==
  ASSUME Follows(lib'), UNCHANGED mapVars
  PROVE  KeepsCursor
BY DEF Follows, KeepsCursor, CursorShown, CursorOf, mapVars

\* Store changes nothing where the statics are the cursor.
LEMMA StoreLoaded ==
  ASSUME NEW m \in LibType, NEW t \in Terms, Loaded(m, t)
  PROVE  Store(m, t).at = m.at /\ Store(m, t).pos = m.pos
<1>1. m.at \in [Terms -> Places]
  BY LibFields
<1>2. Store(m, t).at = [m.at EXCEPT ![t] = [x |-> m.at[t].x, y |-> m.at[t].y]]
  BY StoreParts DEF Loaded
<1>3. m.at[t] = [x |-> m.at[t].x, y |-> m.at[t].y]
  BY <1>1 DEF Places
<1>4. Store(m, t).at = m.at
  BY <1>1, <1>2, <1>3
<1> QED
  BY <1>4, StoreParts

\* One output less.
LEMMA FewerLeft ==
  ASSUME TypeOK, Outputs
  PROVE  left' \in 0 .. MaxOutputs
BY ScreenAssumption DEF TypeOK, Outputs

\* A program writes.
LEMMA WriteStep ==
  ASSUME TypeOK, MapInv, NEW text \in Texts, terminal_write(text)
  PROVE  Typed /\ Out(lib, lib', curr_process) /\ KeepsCursor
<1> DEFINE t == curr_process
           r == Written(text)
<1>1. t \in Terms /\ text \in Seq(Bytes)
  BY ScreenAssumption DEF MapInv, Bytes
<1>2. Out(lib, r, t) /\ Loaded(r, t) /\ (Shown(lib) => Shown(r))
  BY <1>1, WriteAll
<1>3. r \in LibType
  BY <1>2 DEF Out
<1>4. lib' = Store(r, t) /\ UNCHANGED mapVars /\ line' = line
  BY DEF terminal_write
<1> HIDE DEF r
<1>5. Out(lib, lib', t)
  BY <1>1, <1>2, <1>3, <1>4, StoreOut
<1>6. lib'.at = r.at /\ lib'.pos = r.pos
  BY <1>1, <1>2, <1>3, <1>4, StoreLoaded
<1>7. KeepsCursor
  BY <1>2, <1>4, <1>6 DEF KeepsCursor, CursorShown, Shown, Follows, CursorOf, mapVars
<1>8. Typed
  BY <1>4, <1>5, FewerLeft DEF Typed, Out, TypeOK, terminal_write
<1> QED
  BY <1>5, <1>7, <1>8

\* The kernel prints.
LEMMA PrintStep ==
  ASSUME TypeOK, MapInv, NEW text \in Texts, printf(text)
  PROVE  Typed /\ Out(lib, lib', curr_process) /\ KeepsCursor
<1> DEFINE t == curr_process
           r == Printed(text)
<1>1. t \in Terms /\ curr_terminal \in Terms /\ text \in Seq(Bytes)
  BY ScreenAssumption DEF MapInv, Bytes
<1>2. Out(lib, r, t)
  BY <1>1, PrintAll
<1>3. r \in LibType
  BY <1>2 DEF Out
<1>4. lib' = update_cursor(r) /\ UNCHANGED mapVars /\ line' = line
  BY DEF printf
<1> HIDE DEF r
<1>5. Out(lib, lib', t) /\ Follows(lib')
  <2>1. /\ lib' \in LibType /\ lib'.frame = r.frame /\ lib'.at = r.at
        /\ lib'.pos = CursorOf(r, curr_terminal)
    BY <1>1, <1>3, <1>4, CursorParts
  <2> QED
    BY <1>2, <2>1 DEF Out, Follows, CursorOf
<1>6. KeepsCursor
  BY <1>4, <1>5, FollowsShown
<1>7. Typed
  BY <1>4, <1>5, FewerLeft DEF Typed, Out, TypeOK, printf
<1> QED
  BY <1>5, <1>6, <1>7

\* A read ends.
LEMMA ReadStep ==
  ASSUME TypeOK, MapInv, terminal_read
  PROVE  /\ Typed /\ Out(lib, lib', curr_process)
         /\ "late" \notin Env => KeepsCursor
<1> DEFINE t == curr_process
<1>1. t \in Terms /\ lib \in LibType /\ Out(lib, lib, t)
  BY DEF MapInv, TypeOK, Out
<1>2. lib' = Store(lib, t) /\ UNCHANGED mapVars /\ line' = 0
  BY DEF terminal_read
<1>3. Out(lib, lib', t)
  BY <1>1, <1>2, StoreOut
<1>4. ASSUME "late" \notin Env PROVE KeepsCursor
  <2>1. [x |-> lib.x, y |-> lib.y] = lib.at[t]
    BY <1>4 DEF terminal_read
  <2>2. Loaded(lib, t)
    BY <2>1 DEF Loaded
  <2>3. lib'.at = lib.at /\ lib'.pos = lib.pos
    BY <1>1, <1>2, <2>2, StoreLoaded
  <2> QED
    BY <1>2, <2>3 DEF KeepsCursor, CursorShown, CursorOf, mapVars
<1>5. Typed
  BY <1>2, <1>3, FewerLeft, ScreenAssumption DEF Typed, Out, terminal_read
<1> QED
  BY <1>3, <1>4, <1>5

\* The hardware cursor set after output.
LEMMA CursorOut ==
  ASSUME NEW m, NEW r \in LibType, NEW t, Out(m, r, t), curr_terminal \in Terms,
         NEW s, s = update_cursor(r)
  PROVE  Out(m, s, t) /\ Follows(s)
<1>1. /\ s \in LibType /\ s.frame = r.frame /\ s.at = r.at
      /\ s.pos = CursorOf(r, curr_terminal)
  BY CursorParts
<1> QED
  BY <1>1 DEF Out, Follows, CursorOf

\* The line break that a long typed line gets, and Enter.
LEMMA BreakOut ==
  ASSUME NEW m \in LibType, NEW t \in Terms, MapInv
  PROVE  Out(m, vert_scroll(enter(m, t), t), t)
<1> DEFINE a == enter(m, t)
<1>1. Out(m, a, t)
  BY EnterOut
<1>2. a \in LibType
  BY <1>1 DEF Out
<1> HIDE DEF a
<1>3. Out(a, vert_scroll(a, t), t)
  BY <1>2, ScrollOut
<1> QED
  BY <1>1, <1>3, OutTwice DEF a

\* A printable key.
LEMMA KeyStep ==
  ASSUME TypeOK, MapInv, key_press("a")
  PROVE  /\ Typed /\ KeepsCursor
         /\ "wrap" \notin Env => Out(lib, lib', curr_terminal)
<1> DEFINE t == curr_terminal
<1>1. /\ t \in Terms /\ curr_process \in Terms /\ lib \in LibType
      /\ line \in 0 .. keyBufferSize /\ left' \in 0 .. MaxOutputs
  BY FewerLeft DEF MapInv, TypeOK, key_press
<1>2. UNCHANGED mapVars
  BY DEF key_press
<1>3. CASE line < keyBufferSize - 2
  <2> DEFINE b == vert_scroll(enter(lib, curr_process), curr_process)
             m == IF AtWrap THEN b ELSE lib
             p == putc(m, t, "a")
  <2>1. lib' = update_cursor(p) /\ line' = line + (IF AtWrap THEN 2 ELSE 1)
    BY <1>3 DEF key_press
  <2>2. Out(lib, b, curr_process)
    BY <1>1, BreakOut
  <2>3. m \in LibType
    BY <1>1, <2>2 DEF Out
  <2>4. "wrap" \notin Env => Out(lib, m, t)
    <3>1. Out(lib, lib, t)
      BY <1>1 DEF Out
    <3>2. "wrap" \notin Env /\ AtWrap => curr_process = t
      BY DEF key_press
    <3> QED
      BY <2>2, <3>1, <3>2
  <2> HIDE DEF b, m
  <2>5. Out(m, p, t)
    <3>1. "a" \in Chars \cup {"newline"}
      BY DEF Chars
    <3> QED
      BY <1>1, <2>3, <3>1, PutOut, Zenon
  <2>6. p \in LibType
    BY <2>5 DEF Out
  <2> HIDE DEF p
  <2>7. Out(m, lib', t) /\ Follows(lib')
    BY <1>1, <2>1, <2>5, <2>6, CursorOut
  <2>8. "wrap" \notin Env => Out(lib, lib', t)
    BY <2>4, <2>7, OutTwice
  <2>9. line' \in 0 .. keyBufferSize
    BY <1>1, <1>3, <2>1, ScreenAssumption
  <2>10. Typed
    BY <1>1, <1>2, <2>7, <2>9 DEF Typed, Out
  <2> QED
    BY <1>2, <2>7, <2>8, <2>10, FollowsShown
<1>4. CASE ~ (line < keyBufferSize - 2)
  <2>1. lib' = update_cursor(lib) /\ line' = line /\ Out(lib, lib, t)
    BY <1>1, <1>4 DEF key_press, Out
  <2>2. Out(lib, lib', t) /\ Follows(lib')
    BY <1>1, <2>1, CursorOut
  <2>3. Typed
    BY <1>1, <1>2, <2>1, <2>2 DEF Typed, Out
  <2> QED
    BY <1>2, <2>2, <2>3, FollowsShown
<1> QED
  BY <1>3, <1>4

\* Ctrl+L.
LEMMA ClearStep ==
  ASSUME TypeOK, MapInv, ClearScreen
  PROVE  /\ Typed /\ KeepsCursor
         /\ "clear" \notin Env => Out(lib, lib', curr_terminal)
<1> DEFINE t == curr_terminal
           q == pte[lib.video_mem]
           f == [lib.frame EXCEPT ![q] = [i \in Cells |-> "space"]]
           r == [lib EXCEPT !.frame = f, !.x = 0, !.y = 0]
<1>1. /\ t \in Terms /\ lib \in LibType /\ left' \in 0 .. MaxOutputs
      /\ q \in Pages
  <2>1. lib.video_mem \in Pages /\ pte \in [Pages -> Pages]
    BY LibFields DEF TypeOK
  <2> QED
    BY <2>1, FewerLeft DEF MapInv, TypeOK, ClearScreen
<1>2. UNCHANGED mapVars /\ line' = 0 /\ 0 \in 0 .. keyBufferSize
  BY ScreenAssumption DEF ClearScreen
<1>3. lib' = Store(r, t)
  BY DEF ClearScreen, reset
<1>4. "clear" \notin Env => q = pte[Page(t)]
  BY DEF ClearScreen
<1> HIDE DEF q
<1>5. f \in [Pages -> [Cells -> Chars]] /\ \A p \in Pages \ {q} : f[p] = lib.frame[p]
  <2>1. "space" \in Chars
    BY DEF Chars
  <2> QED
    BY <1>1, <2>1, LibFields
<1> HIDE DEF f
<1>6. r \in LibType /\ r.frame = f /\ r.at = lib.at /\ r.x = 0 /\ r.y = 0
  BY <1>1, <1>5, Numbers DEF LibType, Cols, Rows
<1> HIDE DEF r
<1>7. lib' \in LibType /\ lib'.at[t].x = 0 /\ lib'.at[t].y = 0
  BY <1>1, <1>3, <1>6, StoreParts
<1>8. ASSUME "clear" \notin Env PROVE Out(lib, lib', t)
  <2>1. Out(lib, r, t)
    BY <1>4, <1>5, <1>6, <1>8 DEF Out
  <2> QED
    BY <1>1, <1>3, <1>6, <2>1, StoreOut
<1>9. KeepsCursor
  BY <1>2, <1>7, Numbers DEF KeepsCursor, CursorShown, CursorOf, mapVars
<1> QED
  BY <1>1, <1>2, <1>7, <1>8, <1>9 DEF Typed

\* The backspace key.
LEMMA BackspaceStep ==
  ASSUME TypeOK, MapInv, Backspace
  PROVE  Typed /\ KeepsCursor /\ Out(lib, lib', curr_terminal)
<1> DEFINE t == curr_terminal
<1>1. /\ t \in Terms /\ lib \in LibType /\ left' \in 0 .. MaxOutputs /\ Out(lib, lib, t)
      /\ line \in 0 .. keyBufferSize
  BY FewerLeft DEF MapInv, TypeOK, Backspace, Out
<1>2. UNCHANGED mapVars
  BY DEF Backspace
<1>3. CASE line > 0
  <2> DEFINE r == backspace(lib)
  <2>1. lib' = update_cursor(r) /\ line' \in {line - 1, line - 2} \cap Nat
    BY <1>3 DEF Backspace
  <2>2. Out(lib, r, t)
    BY <1>1, BackspaceOut
  <2>3. r \in LibType
    BY <2>2 DEF Out
  <2> HIDE DEF r
  <2>4. Out(lib, lib', t) /\ Follows(lib')
    BY <1>1, <2>1, <2>2, <2>3, CursorOut
  <2>5. line' \in 0 .. keyBufferSize
    BY <1>1, <2>1, ScreenAssumption
  <2>6. Typed
    BY <1>1, <1>2, <2>4, <2>5 DEF Typed, Out
  <2> QED
    BY <1>2, <2>4, <2>6, FollowsShown
<1>4. CASE ~ (line > 0)
  <2>1. lib' = update_cursor(lib) /\ line' = line
    BY <1>4 DEF Backspace
  <2>2. Out(lib, lib', t) /\ Follows(lib')
    BY <1>1, <2>1, CursorOut
  <2>3. Typed
    BY <1>1, <1>2, <2>1, <2>2 DEF Typed, Out
  <2> QED
    BY <1>2, <2>2, <2>3, FollowsShown
<1> QED
  BY <1>3, <1>4

\* The Enter key.
LEMMA EnterStep ==
  ASSUME TypeOK, MapInv, Enter
  PROVE  Typed /\ KeepsCursor /\ Out(lib, lib', curr_terminal)
<1> DEFINE t == curr_terminal
           r == vert_scroll(enter(lib, t), t)
<1>1. /\ t \in Terms /\ lib \in LibType /\ left' \in 0 .. MaxOutputs
      /\ line \in 0 .. keyBufferSize
  BY FewerLeft DEF MapInv, TypeOK, Enter
<1>2. UNCHANGED mapVars /\ lib' = update_cursor(r)
  BY DEF Enter
<1>3. Out(lib, r, t)
  BY <1>1, BreakOut
<1>4. r \in LibType
  BY <1>3 DEF Out
<1> HIDE DEF r
<1>5. Out(lib, lib', t) /\ Follows(lib')
  BY <1>1, <1>2, <1>3, <1>4, CursorOut
<1>6. line' \in 0 .. keyBufferSize
  BY <1>1, ScreenAssumption DEF Enter
<1>7. Typed
  BY <1>1, <1>2, <1>5, <1>6 DEF Typed, Out
<1> QED
  BY <1>2, <1>5, <1>7, FollowsShown

\* The text of every terminal passes through a switch unharmed.
LEMMA SwitchStep ==
  ASSUME TypeOK, MapInv, NEW t \in Terms, terminal_switch(t)
  PROVE  TypeOK' /\ CursorShown' /\ Display' = Display /\ curr_process' = curr_process
<1> DEFINE c == curr_terminal
           leaving == [pte EXCEPT ![Page(c)] = Page(c)]
           coming == [leaving EXCEPT ![Page(t)] = Page(t)]
           saved == [lib.frame EXCEPT ![leaving[Page(c)]] = lib.frame[leaving[0]]]
           f == [saved EXCEPT ![coming[0]] = saved[coming[Page(t)]]]
<1>1. /\ t # c /\ curr_terminal' = t /\ curr_process' = curr_process
      /\ lib' = [lib EXCEPT !.frame = f, !.pos = CursorOf(lib, t)]
      /\ pte' = [coming EXCEPT ![Page(t)] = 0] /\ user' = SmallBase(0)
      /\ visible' = [visible EXCEPT ![c] = FALSE, ![t] = TRUE]
      /\ UNCHANGED <<mapped, line, left>>
  BY DEF terminal_switch, VisibleAfter, remap_video, terminal_save_state, terminal_restore_state
<1>2. /\ c \in Terms /\ pte \in [Pages -> Pages] /\ pte[0] = 0 /\ lib \in LibType
      /\ lib.frame \in [Pages -> [Cells -> Chars]] /\ lib.at \in [Terms -> Places]
  BY LibFields DEF MapInv, TypeOK
<1>3. /\ leaving \in [Pages -> Pages] /\ leaving[Page(c)] = Page(c) /\ leaving[0] = 0
      /\ coming \in [Pages -> Pages] /\ coming[Page(t)] = Page(t) /\ coming[0] = 0
  BY <1>2, TermsPages
<1>4. /\ saved = [lib.frame EXCEPT ![Page(c)] = lib.frame[0]]
      /\ f = [saved EXCEPT ![0] = saved[Page(t)]]
  BY <1>3
<1> HIDE DEF leaving, coming, saved, f
<1>5. /\ f \in [Pages -> [Cells -> Chars]]
      /\ f[0] = lib.frame[Page(t)] /\ f[Page(c)] = lib.frame[0]
      /\ \A u \in Terms \ {t, c} : f[Page(u)] = lib.frame[Page(u)]
  <2>1. saved \in [Pages -> [Cells -> Chars]]
    BY <1>2, <1>4, TermsPages
  <2>2. saved[Page(t)] = lib.frame[Page(t)] /\ saved[Page(c)] = lib.frame[0]
    BY <1>1, <1>2, <1>4, TermsPages
  <2>3. \A u \in Terms \ {t, c} : saved[Page(u)] = lib.frame[Page(u)]
    BY <1>2, <1>4, TermsPages
  <2> QED
    BY <1>2, <1>4, <2>1, <2>2, <2>3, TermsPages
<1>6. CursorOf(lib, t) \in Cells
  BY <1>2, PlaceInCells DEF CursorOf, Places
<1>7. lib' \in LibType /\ lib'.frame = f /\ lib'.at = lib.at /\ lib'.pos = CursorOf(lib, t)
  BY <1>1, <1>2, <1>5, <1>6 DEF LibType
<1>8. CursorShown'
  BY <1>1, <1>7 DEF CursorShown, CursorOf
<1>9. Display' = Display
  <2>1. ASSUME NEW u \in Terms
        PROVE  lib'.frame[IF u = t THEN 0 ELSE Page(u)] = lib.frame[IF u = c THEN 0 ELSE Page(u)]
    BY <1>1, <1>2, <1>5, <1>7
  <2> QED
    BY <1>1, <1>7, <2>1 DEF Display, Terms, Page
<1>10. TypeOK'
  <2>1. pte' \in [Pages -> Pages] /\ visible' \in [Terms -> BOOLEAN]
    BY <1>1, <1>3, TermsPages DEF TypeOK
  <2>2. user' \in [hi : 0 .. Half - 1, lo : 0 .. Half - 1]
    BY <1>1 DEF SmallBase, VIDEO_MEM, Half
  <2> QED
    BY <1>1, <1>7, <2>1, <2>2 DEF TypeOK, LibType, Pages, Cells, Chars, Terms
<1> QED
  BY <1>1, <1>8, <1>9, <1>10

\* A context switch changes no text.
LEMMA SchedulerStep ==
  ASSUME TypeOK, MapInv, scheduler
  PROVE  /\ TypeOK' /\ KeepsCursor /\ Display' = Display
         /\ curr_process' = (curr_process + 1) % NUM_TERM /\ curr_terminal' = curr_terminal
<1> DEFINE n == (curr_process + 1) % NUM_TERM
           p == scheduler_remap_video(n)
<1>1. /\ curr_process' = n /\ lib' = [lib EXCEPT !.video_mem = Page(n)]
      /\ pte' = [pte EXCEPT ![Page(n)] = p] /\ user' = LargeBase(user, p)
      /\ UNCHANGED <<mapped, visible, curr_terminal, line, left>>
  BY DEF scheduler
<1>2. n \in Terms /\ curr_process \in Terms
  BY TurnInTerms DEF MapInv
<1>3. Page(n) \in Pages /\ p \in Pages
  BY <1>2, TermsPages DEF scheduler_remap_video
<1> HIDE DEF n, p
<1>4. lib' \in LibType /\ lib'.frame = lib.frame /\ lib'.at = lib.at /\ lib'.pos = lib.pos
  BY <1>1, <1>3 DEF TypeOK, LibType
<1>5. user' \in [hi : 0 .. Half - 1, lo : 0 .. Half - 1]
  <2>1. VIDEO_MEM + p \in Nat
    BY <1>3, ScreenAssumption DEF Pages, VIDEO_MEM
  <2>2. (VIDEO_MEM + p) % Half \in 0 .. Half - 1
    BY <2>1 DEF Half
  <2> QED
    BY <1>1, <2>2 DEF LargeBase, TypeOK
<1>6. TypeOK'
  BY <1>1, <1>2, <1>3, <1>4, <1>5 DEF TypeOK, LibType, Pages, Cells, Chars, Terms
<1>7. KeepsCursor
  BY <1>1, <1>4 DEF KeepsCursor, CursorShown, CursorOf
<1>8. Display' = Display
  BY <1>1, <1>4 DEF Display, Terms, Page
<1> QED
  BY <1>1, <1>6, <1>7, <1>8 DEF n

\* Nor does vidmap.
LEMMA VidmapStep ==
  ASSUME TypeOK, MapInv, vidmap_handler
  PROVE  /\ TypeOK' /\ KeepsCursor
         /\ UNCHANGED <<Display, curr_process, curr_terminal>>
<1>1. user' \in [hi : 0 .. Half - 1, lo : 0 .. Half - 1] /\ mapped' \subseteq Terms
  BY DEF vidmap_handler, SmallBase, VIDEO_MEM, Half, TypeOK
<1>2. UNCHANGED <<lib, pte, visible, curr_terminal, curr_process, line, left>>
  BY DEF vidmap_handler
<1>3. TypeOK'
  BY <1>1, <1>2 DEF TypeOK, LibType, Pages, Cells, Chars, Terms
<1>4. KeepsCursor
  BY <1>2 DEF KeepsCursor, CursorShown, CursorOf
<1> QED
  BY <1>2, <1>3, <1>4 DEF Display, Terms, Page

\* A step that leaves everything alone.
LEMMA QuietStep ==
  ASSUME TypeOK, UNCHANGED vars
  PROVE  TypeOK' /\ KeepsCursor /\ UNCHANGED <<Display, curr_process, curr_terminal>>
BY DEF vars, TypeOK, LibType, Pages, Cells, Chars, Terms, KeepsCursor, CursorShown, CursorOf,
       Display, Page

\* Output to one terminal is output to the console of that terminal.
LEMMA OutOnly ==
  ASSUME MapInv, TypeOK, NEW t \in Terms, Out(lib, lib', t), UNCHANGED mapVars
  PROVE  C!Only(t)
<1>1. /\ curr_terminal' = curr_terminal /\ curr_process' = curr_process
      /\ pte[Page(t)] = IF t = curr_terminal THEN 0 ELSE Page(t)
  BY DEF mapVars, MapInv, MapsExact
<1> DEFINE d(u) == IF u = curr_terminal THEN 0 ELSE Page(u)
<1>2. \A u \in Terms \ {t} : d(u) \in Pages /\ d(u) # pte[Page(t)]
  BY <1>1, TermsPages
<1>3. \A u \in Terms \ {t} : lib'.frame[d(u)] = lib.frame[d(u)] /\ lib'.at[u] = lib.at[u]
  BY <1>2 DEF Out
<1>4. \A u \in Terms \ {t} : Display'[u] = Display[u]
  BY <1>1, <1>3 DEF Display, Terms, Page
<1> QED
  BY <1>1, <1>4 DEF C!Only, C!Terms, Terms

-----------------------------------------------------------------------------
\* Every step keeps the types.
LEMMA TypesStep == TypeOK /\ MapInv /\ [Next]_vars => TypeOK'
<1> SUFFICES ASSUME TypeOK, MapInv, [Next]_vars PROVE TypeOK'
  OBVIOUS
<1>1. CASE UNCHANGED vars
  BY <1>1, QuietStep
<1>2. ASSUME NEW text \in Texts, terminal_write(text) \/ printf(text) PROVE TypeOK'
  BY <1>2, WriteStep, PrintStep, TypedTypes
<1>3. CASE terminal_read
  BY <1>3, ReadStep, TypedTypes
<1>4. CASE key_press("a") \/ ClearScreen \/ Backspace \/ Enter
  BY <1>4, KeyStep, ClearStep, BackspaceStep, EnterStep, TypedTypes
<1>5. ASSUME NEW t \in Terms, terminal_switch(t) PROVE TypeOK'
  BY <1>5, SwitchStep
<1>6. CASE scheduler
  BY <1>6, SchedulerStep
<1>7. CASE vidmap_handler
  BY <1>7, VidmapStep
<1> QED
  BY <1>1, <1>2, <1>3, <1>4, <1>5, <1>6, <1>7 DEF Next

\* The types hold at the start.
LEMMA TypesInit == Init => TypeOK /\ CursorShown
<1> SUFFICES ASSUME Init PROVE TypeOK /\ CursorShown
  OBVIOUS
<1>1. /\ 0 \in Cells /\ 0 \in Terms /\ Page(0) \in Pages /\ 0 \in Cols /\ 0 \in Rows
      /\ NUM_COLS * 0 + 0 = 0
  <2>1. NUM_COLS * 0 + 0 \in Cells
    BY Numbers, PlaceInCells
  <2> QED
    BY <2>1, Numbers, TermsPages
<1>2. lib \in LibType
  <2> DEFINE f == [p \in Pages |-> [i \in Cells |-> IF p = 0 THEN "space" ELSE "nul"]]
             a == [t \in Terms |-> [x |-> 0, y |-> 0]]
  <2>1. f \in [Pages -> [Cells -> Chars]]
    BY DEF Chars
  <2>2. a \in [Terms -> Places]
    BY <1>1 DEF Places
  <2>3. lib = [frame |-> f, at |-> a, x |-> 0, y |-> 0, scrollFlag |-> FALSE,
               video_mem |-> Page(0), pos |-> 0]
    BY DEF Init
  <2> HIDE DEF f, a
  <2> QED
    BY <1>1, <2>1, <2>2, <2>3 DEF LibType, Places, Cols, Rows
<1>3. pte \in [Pages -> Pages]
  BY InitMaps DEF MapInv
<1>4. user \in [hi : 0 .. Half - 1, lo : 0 .. Half - 1]
  BY DEF Init, VIDEO_MEM, Half
<1>5. TypeOK
  BY <1>1, <1>2, <1>3, <1>4, ScreenAssumption DEF TypeOK, Init
<1>6. CursorShown
  BY <1>1 DEF CursorShown, CursorOf, Init
<1> QED
  BY <1>5, <1>6

\* The cursors stay on the screen through wraps, scrolls and deletions, on every terminal, for
\* every text and whatever is typed.
THEOREM TypeCorrect == Spec => []TypeOK
<1>1. Init => TypeOK /\ MapInv
  BY TypesInit, InitMaps
<1>2. TypeOK /\ MapInv /\ [Next]_vars => TypeOK' /\ MapInv'
  BY TypesStep, StepKeepsMaps
<1> QED
  BY <1>1, <1>2, PTL DEF Spec

\* As long as no program writes between Enter and the end of the read, the hardware cursor is
\* where the next character of the terminal in front will go, or Ctrl+L has been pressed.
THEOREM CursorRight ==
  ASSUME "late" \notin Env
  PROVE  Spec => []CursorShown
<1> DEFINE I == TypeOK /\ MapInv /\ CursorShown
<1>1. Init => I
  BY TypesInit, InitMaps
<1>2. I /\ [Next]_vars => I'
  <2> SUFFICES ASSUME I, [Next]_vars PROVE CursorShown'
    BY TypesStep, StepKeepsMaps
  <2>1. CASE UNCHANGED vars
    BY <2>1, QuietStep DEF KeepsCursor
  <2>2. ASSUME NEW text \in Texts, terminal_write(text) \/ printf(text) PROVE CursorShown'
    BY <2>2, WriteStep, PrintStep DEF KeepsCursor
  <2>3. CASE terminal_read
    BY <2>3, ReadStep DEF KeepsCursor
  <2>4. CASE key_press("a") \/ ClearScreen \/ Backspace \/ Enter
    BY <2>4, KeyStep, ClearStep, BackspaceStep, EnterStep DEF KeepsCursor
  <2>5. ASSUME NEW t \in Terms, terminal_switch(t) PROVE CursorShown'
    BY <2>5, SwitchStep
  <2>6. CASE scheduler
    BY <2>6, SchedulerStep DEF KeepsCursor
  <2>7. CASE vidmap_handler
    BY <2>7, VidmapStep DEF KeepsCursor
  <2> QED
    BY <2>1, <2>2, <2>3, <2>4, <2>5, <2>6, <2>7 DEF Next
<1> QED
  BY <1>1, <1>2, PTL DEF Spec

\* As long as Ctrl+L comes after output to the terminal in front, and a typed line wraps while
\* the program of that terminal runs, each terminal behaves as one of its own: the shared statics,
\* screen and page table implement Consoles.
THEOREM TerminalsApart ==
  ASSUME "clear" \notin Env, "wrap" \notin Env
  PROVE  Spec => KeepsApart
<1> DEFINE I == TypeOK /\ MapInv
           Step == [C!Next]_<<Display, curr_process, curr_terminal>>
<1>1. Init => I /\ C!Init
  <2>1. Init => C!Init
    BY DEF Init, C!Init, C!Terms, Terms, Display
  <2> QED
    BY <2>1, TypesInit, InitMaps
<1>2. I /\ [Next]_vars => I' /\ Step
  <2> SUFFICES ASSUME I, [Next]_vars PROVE Step
    BY TypesStep, StepKeepsMaps
  <2>0. curr_terminal \in Terms /\ curr_process \in Terms
    BY DEF MapInv
  <2>1. CASE UNCHANGED vars
    BY <2>1, QuietStep
  <2>2. ASSUME NEW text \in Texts, terminal_write(text) \/ printf(text) PROVE Step
    BY <2>0, <2>2, WriteStep, PrintStep, OutOnly DEF Typed, C!Next, C!Output
  <2>3. CASE terminal_read
    BY <2>0, <2>3, ReadStep, OutOnly DEF Typed, C!Next, C!Output
  <2>4. CASE key_press("a") \/ ClearScreen \/ Backspace \/ Enter
    BY <2>0, <2>4, KeyStep, ClearStep, BackspaceStep, EnterStep, OutOnly DEF Typed, C!Next, C!Typed
  <2>5. ASSUME NEW t \in Terms, terminal_switch(t) PROVE Step
    <3>1. curr_terminal' = t
      BY <2>5 DEF terminal_switch
    <3> QED
      BY <2>5, <3>1, SwitchStep DEF C!Next, C!Front, C!Terms, Terms
  <2>6. CASE scheduler
    BY <2>6, SchedulerStep DEF C!Next, C!Schedule
  <2>7. CASE vidmap_handler
    BY <2>7, VidmapStep
  <2> QED
    BY <2>1, <2>2, <2>3, <2>4, <2>5, <2>6, <2>7 DEF Next
<1> QED
  BY <1>1, <1>2, PTL DEF Spec, KeepsApart, C!Spec
=============================================================================
