-------------------------------- MODULE Screen --------------------------------
(***************************************************************************)
(* The text screen of the mp3 kernel: the output functions of lib.c and    *)
(* their statics, which all terminals share; terminal_write and the echo   *)
(* of the keyboard; the page tables through which the address of a         *)
(* terminal's text reaches the screen or the terminal's own page           *)
(* (scheduler.c, paging.c, vidmap).                                        *)
(*                                                                         *)
(* A page is numbered from VIDEO_MEM on: page 0 is the screen, Page(t) the *)
(* one terminal t keeps its text in while it is not visible.  Attributes   *)
(* of the characters are left out; the contents of the line buffer and the *)
(* enter flags are in module Terminal.  The handlers run with interrupts   *)
(* off: each is one step.                                                  *)
(***************************************************************************)
EXTENDS Integers, Sequences, FiniteSets

CONSTANTS
  NUM_TERM,        \* terminals (3)
  NUM_ROWS,        \* (25)
  NUM_COLS,        \* (80)
  WRAP,            \* the echo goes to the next line every so many characters (73)
  keyBufferSize,   \* (128)
  Texts,           \* what programs write
  MaxOutputs,      \* bound: the writes, messages, keys and reads of a behaviour
  Env              \* what users and programs may do beyond the ordinary, see below

(***************************************************************************)
(* Three handlers act on the terminal of the running process, or on what   *)
(* the last output function left in the statics, where they mean the       *)
(* visible one.  In this module's ordinary use the two agree, by guards    *)
(* that are not in the code; members of Env lift them.  The scheduler      *)
(* moves video_mem and curr_process at every tick (scheduler.c:91, 118),   *)
(* so with shells on several terminals "clear" and "wrap" are what         *)
(* usually happens, and ordinary use is that of one busy terminal:         *)
(*  "clear"  Ctrl+L while video_mem is another terminal's page;            *)
(*  "wrap"   a typed line reaches WRAP while another terminal's process    *)
(*           runs;                                                         *)
(*  "late"   another terminal's program writes between Enter and the end   *)
(*           of the read that Enter releases.                              *)
(***************************************************************************)
ASSUME ScreenAssumption ==
  /\ NUM_TERM \in Nat \ {0}
  /\ NUM_ROWS \in Nat \ {0, 1}
  /\ NUM_COLS \in Nat \ {0}
  /\ WRAP \in Nat \ {0}
  /\ keyBufferSize \in Nat /\ keyBufferSize > 2
  /\ MaxOutputs \in Nat
  /\ Texts \subseteq Seq({"a", "space", "nul", "newline"})
  /\ Env \subseteq {"clear", "wrap", "late"}

Terms == 0 .. NUM_TERM - 1
Pages == 0 .. NUM_TERM
Cells == 0 .. NUM_ROWS * NUM_COLS - 1
Chars == {"a", "space", "nul"}

VARIABLES
  lib,             \* the statics of lib.c and what its functions change, see LibType
  pte,             \* pte[v]: the page at the address of page v
  user,            \* page_virtual_mem[0]: the upper and the lower half of its 20-bit base
  mapped,          \* the terminals whose program has called vidmap
  visible,         \* term_arr[t].visible
  curr_terminal,
  curr_process,
  line,            \* keyBufferIndex
  left             \* outputs the behaviour may still make

vars == <<lib, pte, user, mapped, visible, curr_terminal, curr_process, line, left>>
mapVars == <<pte, user, mapped, visible, curr_terminal, curr_process>>

VIDEO_MEM == 184   \* the number of the screen's page, 0xB8000 >> 12
Half == 1024       \* 2^10: half of a base
Page(t) == t + 1

LibType ==
  [frame : [Pages -> [Cells -> Chars]],                          \* the text in each page
   at : [Terms -> [x : 0 .. NUM_COLS - 1, y : 0 .. NUM_ROWS - 1]], \* term_arr[t].screen_x, screen_y
   x : 0 .. NUM_COLS - 1, y : 0 .. NUM_ROWS - 1,                 \* screen_x, screen_y
   scrollFlag : BOOLEAN,
   video_mem : Pages,
   pos : Cells]                                                  \* the hardware cursor

\* Only the screen's own page; those of the terminals are mapped when they are first scheduled.
paging_initialize == [v \in {0} |-> v]

\* The first shell is about to run: every terminal has been scheduled once.
Init ==
  /\ lib = [frame |-> [p \in Pages |-> [i \in Cells |-> IF p = 0 THEN "space" ELSE "nul"]],
            at |-> [t \in Terms |-> [x |-> 0, y |-> 0]],
            x |-> 0, y |-> 0, scrollFlag |-> FALSE, video_mem |-> Page(0), pos |-> 0]
  /\ pte = [v \in Pages |-> IF v = 0 THEN paging_initialize[0] ELSE IF v = Page(0) THEN 0 ELSE v]
  /\ user = [hi |-> VIDEO_MEM, lo |-> 0]
  /\ mapped = {}
  /\ visible = [t \in Terms |-> t = 0]
  /\ curr_terminal = 0
  /\ curr_process = 0
  /\ line = 0
  /\ left = MaxOutputs

-----------------------------------------------------------------------------
(***************************************************************************)
(* lib.c.  Each function is an operator on lib.  Where the code has two    *)
(* copies of a function, for the running process's terminal and (_user)    *)
(* for the visible one, the terminal is a parameter.                       *)
(***************************************************************************)

Load(m, t)  == [m EXCEPT !.x = m.at[t].x, !.y = m.at[t].y]
Store(m, t) == [m EXCEPT !.at[t] = [x |-> m.x, y |-> m.y]]

\* A store at video_mem; below the first cell it falls between two pages' texts.
Poke(m, i, c) ==
  IF i \in Cells THEN [m EXCEPT !.frame[pte[m.video_mem]][i] = c] ELSE m

CursorOf(m, t) == NUM_COLS * m.at[t].y + m.at[t].x

update_cursor_running(m) == [m EXCEPT !.pos = CursorOf(m, curr_process)]
update_cursor(m) == [m EXCEPT !.pos = CursorOf(m, curr_terminal)]

reset(m) ==
  Store([m EXCEPT !.frame[pte[m.video_mem]] = [i \in Cells |-> "space"], !.x = 0, !.y = 0],
        curr_terminal)

backspace(m) ==
  LET l == [Load(m, curr_terminal) EXCEPT !.video_mem = Page(curr_terminal)]
      w == Poke(l, NUM_COLS * l.y + l.x - 1, "nul")
      back == CASE l.x # 0            -> [w EXCEPT !.x = l.x - 1]
                [] l.x = 0 /\ l.y # 0 -> [w EXCEPT !.x = NUM_COLS - 1, !.y = l.y - 1]
                [] OTHER              -> w
  IN  Store(back, curr_terminal)

AtBottom_never(m) == m.y = NUM_ROWS
AtBottom(m) == m.y = NUM_ROWS - 1

enter(m, t) ==
  LET l == Load(m, t)
  IN  Store([l EXCEPT !.x = 0, !.y = IF AtBottom(l) THEN l.y ELSE l.y + 1,
                      !.scrollFlag = AtBottom(l)], t)

newline_check(m, t) ==
  LET l == Load(m, t)
  IN  Store([l EXCEPT !.x = 0, !.scrollFlag = @ \/ AtBottom(l)], t)

\* All lines move up by one, except that a deleted character does not replace the one above it.
Scrolled(text) ==
  [i \in Cells |->
     IF i + NUM_COLS \notin Cells THEN "space"
     ELSE IF text[i + NUM_COLS] # "nul" THEN text[i + NUM_COLS] ELSE text[i]]

vert_scroll(m, t) ==
  LET l == Load(m, t)
      s == IF AtBottom(l) /\ l.scrollFlag
             THEN [l EXCEPT !.frame[pte[Page(t)]] = Scrolled(@), !.video_mem = Page(t),
                            !.scrollFlag = FALSE]
             ELSE l
  IN  Store(update_cursor(s), t)

putc(m, t, c) ==
  LET l == [Load(m, t) EXCEPT !.video_mem = Page(t)]
      x == (l.x + 1) % NUM_COLS
      w == IF c = "newline"
             THEN [l EXCEPT !.x = 0, !.y = IF AtBottom(l) THEN l.y ELSE l.y + 1]
             ELSE [Poke(l, NUM_COLS * l.y + l.x, c) EXCEPT
                     !.x = x, !.y = (l.y + x \div NUM_COLS) % NUM_ROWS]
  IN  update_cursor(Store(w, t))

-----------------------------------------------------------------------------
(***************************************************************************)
(* Output of programs and of the kernel.                                   *)
(***************************************************************************)

Outputs ==
  /\ left > 0
  /\ left' = left - 1

\* terminal_write writes through the _user functions when its terminal is visible.
Console == IF visible[curr_process] THEN curr_terminal ELSE curr_process

\* One pass of the loop of terminal_write; n is the newline_tracker.
WriteByte(w, c) ==
  LET fresh == IF c = "newline"
                 THEN [m |-> vert_scroll(newline_check(w.m, Console), Console), n |-> 0]
                 ELSE w
      put == [m |-> update_cursor(putc(fresh.m, Console, c)), n |-> fresh.n + 1]
  IN  IF c = "nul" THEN w
      ELSE IF put.n < NUM_COLS THEN put
      ELSE [m |-> vert_scroll(enter(put.m, Console), Console), n |-> 0]

\* The loop: what is written after the first k bytes.
Written(text) ==
  LET w[k \in 0 .. Len(text)] ==
        IF k = 0 THEN [m |-> Load(lib, curr_process), n |-> 0]
        ELSE WriteByte(w[k - 1], text[k])
  IN  w[Len(text)].m

terminal_write(text) ==
  /\ Outputs
  /\ lib' = Store(Written(text), curr_process)
  /\ UNCHANGED <<mapVars, line>>

\* The loop of puts, which printf calls or repeats: the first k characters.
Printed(text) ==
  LET p[k \in 0 .. Len(text)] ==
        IF k = 0 THEN lib ELSE putc(p[k - 1], curr_process, text[k])
  IN  p[Len(text)]

\* The kernel's own messages: halt_handler's, and the exceptions'.  A nul would end them.
printf(text) ==
  /\ Outputs
  /\ \A k \in DOMAIN text : text[k] # "nul"
  /\ lib' = update_cursor(Printed(text))
  /\ UNCHANGED <<mapVars, line>>

\* The end of terminal_read: the line is taken and the statics become the reader's cursor.
terminal_read ==
  /\ Outputs
  /\ visible[curr_process]
  /\ line > 0
  /\ "late" \in Env \/ [x |-> lib.x, y |-> lib.y] = lib.at[curr_process]
  /\ lib' = Store(lib, curr_process)
  /\ line' = 0
  /\ UNCHANGED mapVars

-----------------------------------------------------------------------------
(***************************************************************************)
(* The keyboard interrupt.                                                 *)
(***************************************************************************)

AtWrap == line # 0 /\ line % WRAP = 0

\* A printable key; at WRAP the echo goes on in the next line of curr_process's terminal.
key_press(c) ==
  /\ Outputs
  /\ ~ AtWrap \/ curr_process = curr_terminal \/ "wrap" \in Env
  /\ IF line < keyBufferSize - 2
       THEN LET m == IF AtWrap THEN vert_scroll(enter(lib, curr_process), curr_process) ELSE lib
            IN  /\ lib' = update_cursor(putc(m, curr_terminal, c))
                /\ line' = line + (IF AtWrap THEN 2 ELSE 1)
       ELSE /\ lib' = update_cursor(lib)
            /\ UNCHANGED line
  /\ UNCHANGED mapVars

\* Ctrl+L: reset clears whatever video_mem points to.
ClearScreen ==
  /\ Outputs
  /\ line < keyBufferSize - 2
  /\ lib.video_mem = Page(curr_terminal) \/ "clear" \in Env
  /\ lib' = reset(lib)
  /\ line' = 0
  /\ UNCHANGED mapVars

\* Over a stored line break the index goes back twice; where those are is left open.
Backspace ==
  /\ Outputs
  /\ IF line > 0
       THEN /\ lib' = update_cursor(backspace(lib))
            /\ line' \in {line - 1, line - 2} \cap Nat
       ELSE /\ lib' = update_cursor(lib)
            /\ UNCHANGED line
  /\ UNCHANGED mapVars

Enter ==
  /\ Outputs
  /\ line < keyBufferSize
  /\ lib' = update_cursor(vert_scroll(enter(lib, curr_terminal), curr_terminal))
  /\ line' = line + 1
  /\ UNCHANGED mapVars

-----------------------------------------------------------------------------
(***************************************************************************)
(* The mappings.                                                           *)
(***************************************************************************)

\* Writing the base of a page table entry sets its 20 bits; writing it as that of a 4 MB
\* page, the other member of the union, sets the upper 10 of them.
SmallBase(p) == [hi |-> 0, lo |-> VIDEO_MEM + p]
LargeBase(u, p) == [u EXCEPT !.hi = (VIDEO_MEM + p) % Half]

remap_video(table, t) == [table EXCEPT ![Page(t)] = Page(t)]

\* The text on the screen goes to the page of the terminal that leaves it.
terminal_save_state(table, frame, t) == [frame EXCEPT ![table[Page(t)]] = frame[table[0]]]

terminal_restore_state(table, frame, t) == [frame EXCEPT ![table[0]] = frame[table[Page(t)]]]

VisibleAfter_both(t) == [visible EXCEPT ![t] = TRUE]
VisibleAfter(t) == [visible EXCEPT ![curr_terminal] = FALSE, ![t] = TRUE]

terminal_switch(t) ==
  LET leaving == remap_video(pte, curr_terminal)
      saved   == terminal_save_state(leaving, lib.frame, curr_terminal)
      coming  == remap_video(leaving, t)
  IN  /\ t # curr_terminal
      /\ lib' = [lib EXCEPT !.frame = terminal_restore_state(coming, saved, t),
                            !.pos = CursorOf(lib, t)]
      /\ pte' = [coming EXCEPT ![Page(t)] = 0]
      /\ user' = SmallBase(0)
      /\ visible' = VisibleAfter(t)
      /\ curr_terminal' = t
      /\ UNCHANGED <<mapped, curr_process, line, left>>

\* The page of a terminal that the scheduler turns to.
scheduler_remap_video_own(t) == Page(t)
scheduler_remap_video(t) == IF t = curr_terminal THEN 0 ELSE Page(t)

scheduler ==
  LET next_process == (curr_process + 1) % NUM_TERM
      p == scheduler_remap_video(next_process)
  IN  /\ curr_process' = next_process
      /\ lib' = [lib EXCEPT !.video_mem = Page(next_process)]
      /\ pte' = [pte EXCEPT ![Page(next_process)] = p]
      /\ user' = LargeBase(user, p)
      /\ UNCHANGED <<mapped, visible, curr_terminal, line, left>>

vidmap_handler ==
  /\ user' = SmallBase(0)
  /\ mapped' = mapped \cup {curr_process}
  /\ UNCHANGED <<lib, pte, visible, curr_terminal, curr_process, line, left>>

-----------------------------------------------------------------------------
Next ==
  \/ \E text \in Texts : terminal_write(text) \/ printf(text)
  \/ terminal_read
  \/ key_press("a") \/ ClearScreen \/ Backspace \/ Enter
  \/ \E t \in Terms : terminal_switch(t)
  \/ scheduler
  \/ vidmap_handler

Spec == Init /\ [][Next]_vars

-----------------------------------------------------------------------------
\* The cursors stay on the screen through wraps, scrolls and deletions.
TypeOK ==
  /\ lib \in LibType
  /\ pte \in [Pages -> Pages]
  /\ user \in [hi : 0 .. Half - 1, lo : 0 .. Half - 1]
  /\ mapped \subseteq Terms
  /\ visible \in [Terms -> BOOLEAN]
  /\ curr_terminal \in Terms
  /\ curr_process \in Terms
  /\ line \in 0 .. keyBufferSize
  /\ left \in 0 .. MaxOutputs

\* The address of the visible terminal's text reaches the screen and that of every other
\* terminal its own page, whatever terminal_switch and the scheduler did last.
MapsExact ==
  \A t \in Terms : pte[Page(t)] = IF t = curr_terminal THEN 0 ELSE Page(t)

\* update_cursor keeps the hardware cursor at the visible terminal's position, except while
\* that is the first cell: Ctrl+L homes the position alone.
CursorShown ==
  \/ lib.pos = CursorOf(lib, curr_terminal)
  \/ CursorOf(lib, curr_terminal) = 0

\* The text and the cursor of a terminal, on the screen or in the terminal's page.
Display ==
  [t \in Terms |-> [text |-> lib.frame[IF t = curr_terminal THEN 0 ELSE Page(t)],
                    at |-> lib.at[t]]]

C == INSTANCE Consoles WITH display <- Display, active <- curr_process, focus <- curr_terminal

\* Although all terminals share the statics of lib.c, one line index and the screen, each
\* behaves as a terminal of its own.
KeepsApart == C!Spec

\* A visible program that has called vidmap draws on the screen.
VidmapShown ==
  curr_process \in mapped /\ visible[curr_process] => user = SmallBase(0)
=============================================================================
