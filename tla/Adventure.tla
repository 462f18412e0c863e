------------------------------ MODULE Adventure ------------------------------
(***************************************************************************)
(* The program around the world of the mp2 adventure game: main and the    *)
(* game loop (adventure.c), the keyboard (input.c), the helper thread that *)
(* takes status messages away, and the stack of cleanups that runs when    *)
(* the program ends, fails or is hit by a signal (assert.c).               *)
(*                                                                         *)
(* World.tla models what the commands do.  Here a command is known by its  *)
(* result: another scene, another scene over the same photograph, a status *)
(* message, or nothing.  The sections under msg_lock are single actions.   *)
(* Not modelled: gettimeofday failing, and spurious wakeups of the helper. *)
(***************************************************************************)
EXTENDS ModeX, FiniteSets

CONSTANTS
  Loads,          \* bound: what happens to the program, one record per kind of session:
                  \*   start, scenes: the first scene and all of them, see Photo
                  \*   speeds: the speeds of motion
                  \*   bytes: the keyboard input that may arrive between two turns
                  \*   messages: how many of them; signals: their kinds
                  \*   fails: whether pthread_create, set_mode_X, init_input and malloc
                  \*     may fail
  MAX_TYPED_LEN,  \* 20
  MESSAGE_TICKS   \* 30: the 1.5 seconds of a status message, in ticks of the game loop

ASSUME AdventureAssumption ==
  /\ MAX_TYPED_LEN \in Nat \ {0} /\ MESSAGE_TICKS \in Nat \ {0}
  /\ \A l \in Loads :
       /\ l.start \in l.scenes /\ l.speeds \subseteq Nat /\ l.bytes \subseteq Seq(STRING)
       /\ \A s \in l.scenes : IsScene(s)
       /\ \A s, r \in l.scenes : s.photo = r.photo => s.width = r.width /\ s.height = r.height

MOTION_SPEED == 2
NoMsg == 0
Resources == {"thread", "modeX", "nonblock", "tty"}
Places == {"acquire", "fcntl", "push", "top", "wait", "get", "pop", "execute", "ended"}

VARIABLES
  load,        \* the session, one of Loads
  pc,          \* where main is
  stack,       \* cleanup_stack, top first; a cleanup is named by what it releases
  held,        \* the resources acquired and not released, the settings changed and not
               \* restored
  running,     \* the cleanup that has been popped and is to be executed
  lost,        \* what was between acquiring and pushing, or popping and executing, when a
               \* signal struck or the memory ran out
  caught,      \* the kinds of signals caught so far, whose behaviour is the default again
  killed,      \* a signal has ended the process without a handler
  where, cur_room,    \* game_info.where, and the room photo.c has been told of
  map, speed,         \* game_info.map_x and map_y, x_speed and y_speed
  enter_room,
  view, shown,        \* the build buffer of ModeX, and the picture on the display
  input,       \* get_command: state, typing and pushed
  bar,         \* what the status bar shows
  status_msg, posted, \* the message, by number; how many there were
  helper, left,       \* where the helper thread is, and the ticks until its timeout
  due          \* the time of the next turn has come

loopvars == <<where, cur_room, map, speed, enter_room, view, shown, input, bar>>
msgvars == <<status_msg, posted, helper, left>>
endvars == <<stack, held, running, lost, caught, killed>>
vars == <<load, pc, endvars, loopvars, msgvars, due>>

-----------------------------------------------------------------------------
(***************************************************************************)
(* The keyboard.                                                           *)
(***************************************************************************)

Arrow == [A |-> "UP", B |-> "DOWN", C |-> "RIGHT", D |-> "LEFT"]
Paging == [k \in {"1", "2", "5"} |-> CASE k = "1" -> "ENTER" [] k = "2" -> "MOVE_LEFT"
                                       [] k = "5" -> "MOVE_RIGHT"]
valid_typing(ch) == ch \in DOMAIN Arrow \cup DOMAIN Paging \cup {"x", " ", "BS"}

\* Faulty variant: the terminating null is not counted.
typed_a_char_full(typing, ch) ==
  IF ch = "BS" THEN IF typing # <<>> THEN Front(typing) ELSE typing
  ELSE IF MAX_TYPED_LEN >= Len(typing) THEN Append(typing, ch) ELSE typing
typed_a_char(typing, ch) ==
  IF ch = "BS" THEN IF typing # <<>> THEN Front(typing) ELSE typing
  ELSE IF MAX_TYPED_LEN > Len(typing) THEN Append(typing, ch) ELSE typing

\* A byte that does not belong to an escape sequence.
Plain(in, ch) ==
  IF valid_typing(ch) THEN [in EXCEPT !.state = 0, !.typing = typed_a_char(@, ch)]
  ELSE IF ch = "CR" THEN [in EXCEPT !.state = 0, !.pushed = "TYPED"]
  ELSE [in EXCEPT !.state = 0]

\* One byte through the automaton that finds the arrow and paging keys.
Scan(in, ch) ==
  CASE in.pushed = "QUIT" -> in
    [] ch = "QUIT" /\ in.pushed # "QUIT" -> [in EXCEPT !.pushed = "QUIT"]
    [] in.state = 0 /\ ch = "ESC" -> [in EXCEPT !.state = 1]
    [] in.state = 1 /\ ch = "["   -> [in EXCEPT !.state = 2]
    [] in.state = 2 /\ ch \in DOMAIN Arrow ->
         [in EXCEPT !.state = 0, !.pushed = Arrow[ch]]
    [] in.state = 2 /\ ch \in DOMAIN Paging ->
         [in EXCEPT !.state = 3, !.pushed = Paging[ch]]
    [] OTHER -> Plain(in, ch)

\* All bytes that have arrived; the last key decides.
get_command(in, bytes) ==
  LET scanned[k \in 0 .. Len(bytes)] ==
        IF k = 0 THEN [in EXCEPT !.pushed = "NONE"] ELSE Scan(scanned[k - 1], bytes[k])
  IN  scanned[Len(bytes)]

reset_typed_command(in) == [in EXCEPT !.typing = <<>>]

-----------------------------------------------------------------------------
(***************************************************************************)
(* Drawing.                                                                *)
(***************************************************************************)

redraw_room(v, s) == draw_horiz_line(v, s, 0 .. SCROLL_Y_DIM - 1)

move_photo_down ==
  LET delta == Min({speed.y, map.y})
  IN  /\ map' = [map EXCEPT !.y = @ - delta]
      /\ view' = draw_horiz_line(set_view_window(view, map.x, map.y - delta), cur_room,
                                 0 .. delta - 1)

\* Faulty variant: the movement does not stop at the right edge.
move_photo_left_on ==
  LET delta == speed.x
  IN  /\ map' = [map EXCEPT !.x = @ + delta]
      /\ view' = draw_vert_line(set_view_window(view, map.x + delta, map.y), cur_room,
                                SCROLL_X_DIM - delta .. SCROLL_X_DIM - 1)
move_photo_left ==
  LET delta == Min({speed.x, where.width - SCROLL_X_DIM - map.x})
  IN  /\ map' = [map EXCEPT !.x = @ + delta]
      /\ view' = draw_vert_line(set_view_window(view, map.x + delta, map.y), cur_room,
                                SCROLL_X_DIM - delta .. SCROLL_X_DIM - 1)

move_photo_right ==
  LET delta == Min({speed.x, map.x})
  IN  /\ map' = [map EXCEPT !.x = @ - delta]
      /\ view' = draw_vert_line(set_view_window(view, map.x - delta, map.y), cur_room,
                                0 .. delta - 1)

move_photo_up ==
  LET delta == Min({speed.y, where.height - SCROLL_Y_DIM - map.y})
  IN  /\ map' = [map EXCEPT !.y = @ + delta]
      /\ view' = draw_horiz_line(set_view_window(view, map.x, map.y + delta), cur_room,
                                 SCROLL_Y_DIM - delta .. SCROLL_Y_DIM - 1)

-----------------------------------------------------------------------------
(***************************************************************************)
(* Status messages.                                                        *)
(***************************************************************************)

\* Posts a message and signals msg_cv.  A helper in one of its two waits has to look at
\* the message, or at the clock, again; nobody hears a signal outside of them.
show_status ==
  /\ posted < load.messages   \* bound
  /\ posted' = posted + 1
  /\ status_msg' = posted + 1
  /\ helper' = CASE helper = "waiting" -> "look" [] helper = "timing" -> "restart"
                 [] OTHER -> helper
  /\ UNCHANGED left

Silent == UNCHANGED msgvars

\* Faulty variant: waits for the signal without looking for a message first.
WaitForMessage_blind ==
  /\ helper = "look"
  /\ helper' = "waiting"
  /\ UNCHANGED <<load, pc, endvars, loopvars, status_msg, posted, left, due>>
\* With the lock taken, pthread_cond_wait until there is a message.
WaitForMessage ==
  /\ helper = "look"
  /\ helper' = IF status_msg = NoMsg THEN "waiting" ELSE "restart"
  /\ UNCHANGED <<load, pc, endvars, loopvars, status_msg, posted, left, due>>

\* Reads the clock and waits for 1.5 seconds or a signal.
Restart ==
  /\ helper = "restart"
  /\ helper' = "timing" /\ left' = MESSAGE_TICKS
  /\ UNCHANGED <<load, pc, endvars, loopvars, status_msg, posted, due>>

\* The time is up; the helper no longer hears signals but does not have the lock yet.
TimeOut ==
  /\ helper = "timing" /\ left = 0
  /\ helper' = "timedout"
  /\ UNCHANGED <<load, pc, endvars, loopvars, status_msg, posted, left, due>>

ClearMessage ==
  /\ helper = "timedout"
  /\ status_msg' = NoMsg
  /\ helper' = "look"
  /\ UNCHANGED <<load, pc, endvars, loopvars, posted, left, due>>

status_thread == WaitForMessage \/ Restart \/ TimeOut \/ ClearMessage

-----------------------------------------------------------------------------
(***************************************************************************)
(* The game loop.                                                          *)
(***************************************************************************)

\* The upper half of a turn: a room that was entered is drawn, then the status bar and
\* the screen are shown.  The bar is wiped before each text, so the last text stays.
Show ==
  LET v == set_view_window(view, 0, 0)
      typing == input'.typing
  IN  /\ pc = "top"
      /\ IF enter_room
           THEN /\ map' = [x |-> 0, y |-> 0]
                /\ input' = reset_typed_command(input)
                /\ cur_room' = where
                /\ view' = redraw_room(v, cur_room')
           ELSE UNCHANGED <<map, input, cur_room, view>>
      /\ enter_room' = FALSE
      /\ bar' = IF status_msg # NoMsg THEN <<"message", status_msg>>
                ELSE IF typing # <<>> THEN <<"typing", typing>> ELSE <<"room", where>>
      /\ shown' = show_screen(view')
      /\ pc' = "wait"
      /\ UNCHANGED <<load, endvars, where, speed, msgvars, due>>

\* The tick has come; ticks that were missed are skipped.
NextTurn ==
  /\ pc = "wait" /\ due
  /\ due' = FALSE
  /\ pc' = "get"
  /\ UNCHANGED <<load, endvars, loopvars, msgvars>>

\* What a typed command does to the world, by its result; each may have something to say.
\* Another room, or the same in another state; it is drawn at the top of the next turn.
ChangeRoom(in) ==
  /\ where' \in load.scenes
  /\ enter_room' = TRUE
  /\ input' = in
  /\ show_status \/ Silent
  /\ UNCHANGED <<cur_room, map, speed, view>>

\* An object has come or gone, perhaps the board or the jetpack.  photo.c refers to the
\* room, so that it sees the change as well.
RedrawRoom(in) ==
  /\ where' \in {s \in load.scenes : s.photo = where.photo}
  /\ cur_room' = where'
  /\ speed' \in [x : load.speeds, y : load.speeds]
  /\ input' = reset_typed_command(in)
  /\ view' = redraw_room(view, cur_room')
  /\ show_status \/ Silent
  /\ UNCHANGED <<map, enter_room>>

DiscardText(in) ==
  /\ input' = reset_typed_command(in)
  /\ show_status \/ Silent
  /\ UNCHANGED <<where, cur_room, map, speed, enter_room, view>>

\* Also for a verb that is not in the list.
Refused(in) ==
  /\ input' = in
  /\ show_status
  /\ UNCHANGED <<where, cur_room, map, speed, enter_room, view>>

Nothing(in) ==
  /\ input' = in
  /\ UNCHANGED <<where, cur_room, map, speed, enter_room, view, msgvars>>

\* A line of spaces is no command.
handle_typing(in) ==
  IF \A i \in DOMAIN in.typing : in.typing[i] = " "
    THEN Nothing(in)
    ELSE ChangeRoom(in) \/ RedrawRoom(in) \/ DiscardText(in) \/ Refused(in)

\* An arrow key moves the view, a paging key the player.
Scroll(in) ==
  /\ CASE in.pushed = "UP"    -> move_photo_down
       [] in.pushed = "RIGHT" -> move_photo_left
       [] in.pushed = "DOWN"  -> move_photo_up
       [] in.pushed = "LEFT"  -> move_photo_right
  /\ input' = in
  /\ UNCHANGED <<where, cur_room, speed, enter_room, msgvars>>
Walk(in) == ChangeRoom(in) \/ Refused(in) \/ Nothing(in)

\* The lower half of a turn, with the input that has arrived.  The game ends when the
\* player quits or, by a command that sets the room to NULL, wins.
Turn(bytes) ==
  LET in == get_command(input, bytes)
  IN  /\ pc = "get"
      /\ CASE in.pushed \in Range(Arrow)  -> Scroll(in)
           [] in.pushed \in Range(Paging) -> Walk(in)
           [] in.pushed = "TYPED"         -> handle_typing(in)
           [] OTHER                       -> Nothing(in)
      /\ \/ in.pushed # "QUIT" /\ pc' = "top"
         \/ in.pushed = "QUIT" /\ pc' = "pop"
         \/ in.pushed = "TYPED" /\ enter_room' /\ pc' = "pop"
      /\ UNCHANGED <<load, endvars, shown, bar, due>>

-----------------------------------------------------------------------------
(***************************************************************************)
(* main, its cleanups, and signals.                                        *)
(***************************************************************************)

\* main acquires three resources, each with its cleanup: pthread_create, set_mode_X and
\* init_input.
Acquired == <<"thread", "modeX", "tty">>
NextResource == Acquired[Len(stack) + 1]

\* What main is about to put on the stack, or has taken from it.
InHand == CASE pc = "push" -> {NextResource} [] pc = "execute" -> {running} [] OTHER -> {}

\* init_input first makes stdin non-blocking, for which there is no cleanup.
SetNonblocking ==
  /\ pc = "fcntl"
  /\ held' = held \cup {"nonblock"}
  /\ pc' = "acquire"
  /\ UNCHANGED <<load, stack, running, lost, caught, killed, loopvars, msgvars, due>>

Acquire ==
  /\ pc = "acquire"
  /\ held' = held \cup {NextResource}
  /\ helper' = IF NextResource = "thread" THEN "look" ELSE helper
  /\ view' = IF NextResource = "modeX" THEN set_mode_X ELSE view
  /\ pc' = "push"
  /\ UNCHANGED <<load, stack, running, lost, caught, killed, where, cur_room, map, speed,
                 enter_room, shown, input, bar, status_msg, posted, left, due>>

push_cleanup ==
  /\ pc = "push"
  /\ stack' = <<NextResource>> \o stack
  /\ pc' = CASE NextResource = "thread" -> "acquire" [] NextResource = "modeX" -> "fcntl"
             [] OTHER -> "top"
  /\ UNCHANGED <<load, held, running, lost, caught, killed, loopvars, msgvars, due>>

\* push_cleanup without memory is an ABORT: the cleanups pushed before, and not this one.
OutOfMemory ==
  /\ load.fails /\ pc = "push"
  /\ lost' = lost \cup InHand
  /\ pc' = "pop"
  /\ UNCHANGED <<load, stack, held, running, caught, killed, loopvars, msgvars, due>>

\* Faulty variant: the program exits at once.
Panic_exit ==
  /\ load.fails /\ pc \in {"acquire", "fcntl"}
  /\ pc' = "ended"
  /\ UNCHANGED <<load, endvars, loopvars, msgvars, due>>
\* PANIC, when a resource is not to be had: the cleanups pushed so far, then exit.  The
\* calls that fail leave nothing of their own behind in the world, but init_input may fail
\* with stdin made non-blocking.
Panic ==
  /\ load.fails /\ pc \in {"acquire", "fcntl"}
  /\ pc' = "pop"
  /\ UNCHANGED <<load, endvars, loopvars, msgvars, due>>

\* Faulty variant: the cleanup stays on the stack while it is executed.
pop_cleanup_late ==
  /\ pc = "pop" /\ stack # <<>>
  /\ running' = Head(stack)
  /\ stack' = stack
  /\ pc' = "execute"
  /\ UNCHANGED <<load, held, lost, caught, killed, loopvars, msgvars, due>>
\* Takes the cleanup off the stack before it is executed.
pop_cleanup ==
  /\ pc = "pop" /\ stack # <<>>
  /\ running' = Head(stack)
  /\ stack' = Tail(stack)
  /\ pc' = "execute"
  /\ UNCHANGED <<load, held, lost, caught, killed, loopvars, msgvars, due>>

\* cancel_status_thread, clear_mode_X or shutdown_input, which gives stdin its attributes
\* back and leaves it non-blocking.
Execute ==
  /\ pc = "execute"
  /\ held' = held \ {running}
  /\ helper' = IF running = "thread" THEN "cancelled" ELSE helper
  /\ pc' = "pop"
  /\ UNCHANGED <<load, stack, running, lost, caught, killed, loopvars, status_msg, posted, left,
                 due>>

\* After the last cleanup the program exits, or dies of the signal raised again.
End ==
  /\ pc = "pop" /\ stack = <<>>
  /\ pc' = "ended"
  /\ UNCHANGED <<load, endvars, loopvars, msgvars, due>>

\* The signals clean_on_signals has a handler for.
Handled == {"INT", "SEGV", "BUS", "QUIT"}

\* catch_signal, wherever main is: do_cleanups, and what main was at is never resumed.  A
\* further signal, of another kind, interrupts the cleanups in the same way.  The handler
\* runs on the main thread, to which Linux gives signals first.
catch_signal(k) ==
  /\ k \in Handled \ caught
  /\ pc # "ended"
  /\ caught' = caught \cup {k}
  /\ lost' = lost \cup InHand
  /\ pc' = "pop"
  /\ UNCHANGED <<load, stack, held, running, killed, loopvars, msgvars, due>>

\* SA_ONESHOT takes the handler away when it is entered, and only the main thread has the
\* signal blocked until it returns: as long as there is the helper thread, a second one of
\* the same kind ends the process.  So does one without a handler, at any time.
Killed(k) ==
  /\ k \notin Handled \/ (k \in caught /\ helper \notin {"none", "cancelled"})
  /\ pc # "ended"
  /\ pc' = "ended" /\ killed' = TRUE
  /\ lost' = lost \cup InHand
  /\ UNCHANGED <<load, stack, held, running, caught, loopvars, msgvars, due>>

\* Time passes: the next turn is due, and the helper's timeout comes nearer.
Tick ==
  /\ pc # "ended"
  /\ due' = TRUE
  /\ left' = IF left > 0 THEN left - 1 ELSE left
  /\ UNCHANGED <<load, pc, endvars, loopvars, status_msg, posted, helper>>

Ended == pc = "ended" /\ UNCHANGED vars

-----------------------------------------------------------------------------
Init ==
  /\ load \in Loads
  /\ pc = "acquire" /\ stack = <<>> /\ held = {} /\ running = "none"
  /\ lost = {} /\ caught = {} /\ killed = FALSE
  /\ where = load.start /\ cur_room = where
  /\ map = [x |-> 0, y |-> 0] /\ speed = [x |-> MOTION_SPEED, y |-> MOTION_SPEED]
  /\ enter_room = TRUE
  /\ view = set_mode_X
  /\ shown = [p \in (0 .. SCROLL_X_DIM - 1) \X (0 .. SCROLL_Y_DIM - 1) |-> Black]
  /\ input = [state |-> 0, typing |-> <<>>, pushed |-> "NONE"]
  /\ bar = <<"room", where>>
  /\ status_msg = NoMsg /\ posted = 0 /\ helper = "none" /\ left = 0
  /\ due = FALSE

main ==
  \/ SetNonblocking \/ Acquire \/ push_cleanup \/ OutOfMemory \/ Panic
  \/ Show \/ NextTurn \/ \E bytes \in load.bytes : Turn(bytes)
  \/ pop_cleanup \/ Execute \/ End

Next ==
  \/ main
  \/ pc # "ended" /\ status_thread
  \/ \E k \in load.signals : catch_signal(k) \/ Killed(k)
  \/ Tick \/ Ended

Spec == Init /\ [][Next]_vars

\* Both threads run and time passes.  MainRuns says of a step of main that it takes main
\* to another place, which each of them does.
MainRuns == pc # "ended" /\ (pc = "wait" => due) /\ pc' \in Places \ {pc}
FairSpec == Spec /\ WF_pc(MainRuns) /\ WF_vars(pc # "ended" /\ status_thread) /\ WF_vars(Tick)

-----------------------------------------------------------------------------
(***************************************************************************)
(* Properties.                                                             *)
(***************************************************************************)

\* The typed line fits its buffer, the automaton of the keyboard stays in its four states,
\* and the helper's timeout is never more than the time a message is shown.
TypeOK ==
  /\ pc \in Places
  /\ held \subseteq Resources /\ Range(stack) \subseteq Resources
  /\ Len(input.typing) \in 0 .. MAX_TYPED_LEN /\ input.state \in 0 .. 3
  /\ helper \in {"none", "look", "waiting", "restart", "timing", "timedout", "cancelled"}
  /\ left \in 0 .. MESSAGE_TICKS

\* While the player looks at the screen it shows the window of the room's picture that
\* game_info says it shows, object by object and pixel by pixel, however the window has
\* wandered through the build buffer.
ShowsRoom ==
  pc = "wait" =>
    \A p \in DOMAIN shown : shown[p] = Look(where, map.x + p[1], map.y + p[2])

\* No drawing and no copying writes outside of the build buffer, which clear_mode_X checks
\* only at the end.
FenceIntact == FencesStand(view)

\* The window never leaves the photograph, whose pixels are fetched without a test of the
\* other coordinate.
WindowInside ==
  /\ map.x \in 0 .. where.width - SCROLL_X_DIM \/ enter_room
  /\ map.y \in 0 .. where.height - SCROLL_Y_DIM \/ enter_room

\* A cleanup is executed only while there is something to clean up: clear_mode_X, for one,
\* writes to memory that it unmaps.
CleanupOnce == pc = "execute" => running \in held

\* The program ends with its cleanups done, also when it panics, aborts or is hit by a signal
\* it has a handler for, unless a signal kills it outright: the second of a kind, or one it
\* does not handle.  What it leaves behind then is what was still to be cleaned up; otherwise
\* nothing but what was changing hands when a signal struck or the memory ran out, and the
\* non-blocking mode of stdin.
CleanEnd ==
  pc = "ended" =>
    /\ held \subseteq lost \cup Range(stack) \cup {"nonblock"}
    /\ stack # <<>> => killed

\* A message disappears from the status bar in the end.
MessageGoes == bar[1] = "message" ~> bar[1] # "message" \/ pc \notin {"top", "wait", "get"}
=============================================================================
