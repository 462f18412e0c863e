# Verification of the ece391 kernel, drivers and game

TLA+ models of the core of this repository, TLC configurations that check them
on small instances, and TLAPS proofs for every instance. The repository holds
three course projects: `mp3`, a small preemptive kernel with three terminals;
`mp2`, an adventure game with a status thread, mode X graphics and a kernel line
discipline for the Tux controller; and `mp1`, an unfinished display driver.

## Inventory

| part | state | operations | hard behaviour |
|---|---|---|---|
| process control, `mp3/student-distrib/syscall.c` | `pid_arr`, `program_count`, `pcb_current`, the PCBs (pid, parent, saved esp/ebp, descriptors), the mapped 4 MB page, `tss.esp0` | `execute`, `halt`, `open`, `close`, `read`, `write`, `getargs`, `vidmap` | shares its tables with the PIT handler; reuses slots, PCBs and kernel stacks; `halt` returns through a context somebody else saved |
| scheduler and PIT, `scheduler.c` | `sched_pid`, `curr_process`, the saved contexts | `pit_interrupt_handler`, `scheduler` | runs on the stack of whatever it interrupted; starts the three shells itself; must not lose a terminal |
| terminal switching and video mappings, `scheduler.c`, `paging.c` | `curr_terminal`, `term_arr`, `page_table`, `page_virtual_mem` | `terminal_switch`, `scheduler_remap_video`, `vidmap` | Alt+Fn arrives at any time; each mapping serves the visible terminal or the running one |
| terminal driver and keyboard, `terminal.c`, `keyboard.c` | `keyBuffer`, `keyBufferIndex`, `enterFlag`, modifier keys | `terminal_read`, `terminal_write`, `keyboard_inter_handler` | one line buffer for three terminals, filled by interrupts while readers spin |
| screen output, `lib.c` | `screen_x`, `screen_y`, `scrollFlag`, `video_mem`, the text, the hardware cursor | `putc`, `enter`, `backspace`, `vert_scroll`, `reset`, `update_cursor` | statics shared by all terminals, loaded and stored around every output |
| file system, `filesystem.c` | a read-only image | `read_dentry_by_name`, `read_data`, `directory_read` | limits at the boundaries of files, blocks and tables |
| RTC, `rtc.c` | `rtc_status`, the rate | `rtc_open`, `rtc_read`, `rtc_write`, the interrupt | one tick flag and one rate for all processes |
| interrupt plumbing, `i8259.c`, `idt_exceptions.c`, `link.S`, `syslink.S` | PIC masks, the IDT | mask, unmask, EOI, linkage, exceptions | every kernel entry re-uses a stack from the top |
| Tux line discipline, `mp2/module/tuxctl-ld.c` | two rings, saved packet bytes | open, close, receive, get, put, `write_wakeup`, the packet callback | interrupt and process contexts at once; the driver's room is read without the lock |
| the game's world, `mp2/world.c` | rooms, contents lists, flags, photographs | moves and typed commands | one object in a list and in `loc`; result codes decide what is redrawn |
| game loop and status thread, `mp2/adventure.c`, `input.c` | position and speed, the typed line, the status message | the turns of `game_loop`, `get_command`, `show_status`, the helper thread | a condition variable and a timeout; key sequences cut anywhere |
| cleanup stack and signals, `mp2/assert.c` | `cleanup_stack` | `push_cleanup`, `pop_cleanup`, `do_cleanups`, `catch_signal` | signals at any point of a start or of a cleanup |
| mode X graphics and photographs, `mp2/modex.c`, `photo.c` | the build buffer, the logical window | `set_view_window`, line drawing, `show_screen` | a sliding window in a fixed buffer with overlapping copies |
| status bar text, `mp2/text.c` | - | a font table and the copying of its bits | none |
| Tux ioctl driver, `mp2/module/tuxctl-ioctl.c` | - | a stub | none |
| missile command, `mp1` | the missile list | ioctl and tasklet | most of the assembly half is a stub |

How they interact: a user program enters `syscall.c` through `int 0x80`
(`link.S`); the PIT, keyboard and RTC interrupts enter through
`common_interrupt`. The scheduler writes the context it interrupts into the PCB
named by `sched_pid[curr_process]` and returns through the context in the next
terminal's PCB. `execute` and `halt` redirect `sched_pid`, the page and
`tss.esp0`, and `halt` leaves through a context the scheduler saved. The
keyboard interrupt changes `curr_terminal`, which `execute` and the output
functions read. In the game, the main thread and the helper share the status
message under `msg_lock`; the loop calls the world, which reports by a result
code what has to be drawn, and the photographs fill lines of the build buffer.

What makes each part correct: for the process tables, that they agree with each
other; for the scheduler, that it only returns through intact contexts and
reaches every process; for the line buffer, that a read delivers the line that
was typed; for the screen, that each terminal behaves as one of its own; for the
files, that descriptors deliver the bytes of the file and no other; for the line
discipline, that bytes and packets are neither lost, nor duplicated, nor
reordered; for the game, that the screen shows the room, that nothing in the
world multiplies or vanishes, that the plot cannot be cut short, that messages
go away and that the program cleans up however it ends.

The hazards, with their lines and the properties that watch them, are listed in
`PROJECT.json`.

## Modules

### `Processes`

State and actions carry the names of the code. Process `p` has PCB `p`, at
`bottomKernal - p * kernalStackSize`, and the 8 KB stack *region* `p` above that
PCB. A saved context (`esp`, `ebp` of a PCB) is abstracted to what was
interrupted (`mode`), the region its frame lies on (`stk`) and whether anything
has since been pushed from the top of that region (`ok`). `cpu` says what the
processor does, and `esp0` where the next entry from user code will push.

| action | code |
|---|---|
| `TickBoot`, `TickStart`, `TickSwitch` | `pit_interrupt_handler` and `scheduler`: the first tick, a terminal without a shell, and an ordinary switch |
| `Execute`, and `execute_handler` inside the ticks | `execute_handler` from the point where the command names an executable; `ExecuteBase` is the branch for the first three programs |
| `Halt` | `halt_handler` as one step, in `Spec` |
| `HaltBegin`, `HaltClose`, `HaltJump` | the same handler cut where a `close_handler` has executed `sti`, in `WindowSpec` |
| `Return`, inside `Halt` and the ticks | the `leave; ret` or `iret` through a saved frame: an overwritten one faults or lands in user code |
| `Open`, `Close`, `ReadBegin`, `ReadEnd` | the descriptor calls, and a read that spins with interrupts on |
| `KernelVisit` | every other entry from user code: it leaves this state alone but re-uses the stack |
| `terminal_switch` | Alt+F1..F3 |
| `Exception` | the exception handlers, which never return |

`Env` names what programs may do beyond the ordinary: `"background"`, a program
of a terminal that is not visible calls `execute`. A return through an
overwritten frame, which `halt` makes (see *Findings*), has either outcome: it
faults, or it lands back in the process; `landed` remembers the second. `Spec`
has `halt` as one step; `WindowSpec` has it in the steps between which an
interrupt can come.

Assumptions of the model, each with its reason:

- A system call is one step. The gate of `int 0x80` is a trap gate
  (`idt_exceptions.c:59-64`) and leaves interrupts on, but the calls that change
  state begin with `cli`, and an interrupt before it is an interrupt of the user
  program as far as this state goes. Calls that execute `sti` before they end do
  so as their last act, except reads and the closes inside `halt`, which are
  several steps.
- The load loop of `execute` copies up to 4 MB with interrupts off, longer than
  a PIT period, so a tick is pending at the `sti` at the end of `execute` and is
  the next step. The start of the three shells depends on it.
- An entry at an `esp0` in the middle of a region (`halt` sets one) lies below
  the frame it was taken from and overwrites nothing that is still needed.

### `Terminal`

The one line buffer that the three terminals share. The keyboard interrupt is
`key_press`, `ClearLine` (Ctrl+L), `Backspace`, `Enter` and `terminal_switch`;
the process side is `terminal_write`, which clears the enter flag of the running
terminal and sets it again when it fills a row of the visible screen
(`enter_user`), and `terminal_read`, cut into the three loads of its spin loop and
the copy after its `cli`, with `Tick` preempting anywhere. The buffer keeps its
layout: entries behind the index, the line breaks that `key_press` stores, the
padding byte behind the array, and what a reader finds in its own buffer where
the copy loop skips a position. The programs ask for 1023 bytes of an array of
127; how many bytes behind the array the copy loop takes for characters is any
member of the constant `Behind`, and the count goes through `int8_t`. `typed`
and `entered` are what the user did, `filled` is that the last write filled a row.

The code works for a disciplined user and program; `Env` lists the departures:
`"switch"` (a terminal switch in the middle of a line), `"ahead"` (Enter, and
keys after it, while nobody reads), `"long"` (a line that reaches the wrap
column, where `key_press` stores a line break of its own), `"reread"` (two reads
without a write) and `"split"` (a switch between two loads of the spin loop, or
between the loop and its `cli`). Each of the five breaks `ReadDelivers`,
`EnteredLineRead` or `TypeOK`; the first is a run of its own. A write that fills
a row is no departure: programs do it whenever they list a file. The read after it
returns at the first key, and `ReadDelivers` says so.

### `Screen` and `Consoles`

`Screen` is the output side of the same three terminals. `lib` is the record of
`lib.c`'s statics, each function of the library an operator on it; `Load` and
`Store` are the exchanges of `screen_x`, `screen_y` with `term_arr` that stand
around every output. The loops over a text are recursive functions (`Written`,
`Printed`); the text of a `printf` is a C string, that of a write may hold NUL
bytes. The actions are `terminal_write`, the kernel's `printf`, the
end of `terminal_read`, the echo of the keyboard (`key_press`, `ClearScreen`,
`Backspace`, `Enter`), and what changes mappings: `terminal_switch`, `scheduler`
and `vidmap_handler`. A page is identified with its number from the screen's
page on, and copies go through the page table entries as they are at that moment.
The entry of `page_virtual_mem` keeps its two views: the 20-bit base of a page
table entry and the 10-bit base of a 4 MB page.

`Consoles` is the promise: a terminal is a display and a cursor of its own, a
program changes its own, the keyboard changes the one in front, and neither a
switch nor a tick changes any. `KeepsApart` says that `Screen` implements it,
with `Display` (the text on the screen or in the terminal's page, and the saved
cursor) as refinement mapping.

Three handlers act on the running process's terminal, or on what the last output
left in the statics, where they mean the visible one. The guards that make the
two agree are not in the code, and members of `Env` lift them: `"clear"` (Ctrl+L
while `video_mem` is another terminal's page), `"wrap"` (a typed line reaches the
wrap column while another terminal's process runs) and `"late"` (another program
writes between Enter and the end of the read). The first two break `KeepsApart`,
the third breaks `CursorShown`. The first two are not rare: the scheduler moves
`video_mem` and `curr_process` at every tick (`scheduler.c:91`, `118`), so with
shells on three terminals they are what usually happens. `KeepsApart` is about
everything else.

`CursorShown` exempts every state in which the visible terminal's position is the
first cell: Ctrl+L sets it without `update_cursor`, and the state does not tell
such a position from another one there.

### `Files`

Descriptors, the file system and the clock. `read_data` and `directory_read` are
operators with the loop conditions of the code; `open_handler`, `read_handler`,
`write_handler` and `close_handler` are the system calls, the wait of `rtc_read`
is cut into its test and its assignment. `got` and `short` record what a
descriptor has delivered since it was opened, `asked` the frequency somebody is
entitled to. `ReadsExact` says which bytes a descriptor delivers and when a read
may come short; `WithinFile` says where delivery must end.

### `TuxLdisc`

The receive side is one interrupt: `tuxctl_ldisc_rcv_buf` with the data
callback it calls, which assembles packets from the saved bytes and what it can
read of the ring. The transmit side is `tuxctl_ldisc_put` and three steps of
`write_wakeup` (the room, the locked loop, the driver's write), which runs in
two contexts, the process that called put and the driver's interrupt. A received
byte is its framing bit and its position in the stream, a sent byte its
position. The serial driver is external: a queue of `ROOM` bytes that accepts
what fits and calls `write_wakeup` after it has sent something.
`TUXCTL_BUFSIZE` is 64 and the packet array 12 bytes in the code; both are
parameters here. A tty driver calls `write_wakeup` for a discipline that has set
`TTY_DO_WRITE_WAKEUP`; nothing in `mp2` sets the bit, and the model takes the
comment at `tuxctl-ld.c:186-188` at its word that the calls come. Part of what
`TransmitDrains` sees drained is the byte per wake-up that `tux_put` shows lost.

### `World` and `Plot`

The 64 rooms with their doors and the objects with their places are the tables
of `world.c`. A contents list is the sequence its links spell out, so that
`insert_object` and `remove_object` can leave a list and a location in
disagreement; the loop of `build_world` over the objects is the recursive
function `Built`. Each command is an action in its accepted form and ends in
`Handle`, the part of the game loop that acts on the result code: nothing, a
redrawn room or an entered room. `drawn` is the picture that was drawn last.

`Plot` is the promise: eleven milestones with what each needs, reached one at a
time and never undone. `FollowsPlot` says that `World` implements it, with the
milestones read off flags, objects and doors. Nothing in the code states the
plot; it is what locked doors and missing objects enforce together.

### `Photo`, `ModeX` and `Adventure`

`Photo` computes a line or column of a room's picture with the objects over it,
`ModeX` keeps the build buffer: four planes one behind the other, the window
inside it, two fences around it. The loops over the objects of a room and over
the bytes of a copy are recursive functions of the number of iterations, so that
an overlapping copy in the wrong direction spoils the bytes it has yet to read;
the lines of one move, which write to different addresses, are drawn together. A
pixel is named by the image it comes from and
its place there, so that a shifted or stale pixel is a wrong one. `Adventure`
composes them with the program: `main` acquires three resources and pushes their
cleanups, runs the turns of `game_loop` (`Show`, `NextTurn`, `Turn`), and pops
and executes the cleanups; the helper thread (`status_thread`) runs beside it.
`init_input` makes stdin non-blocking (`SetNonblocking`) before it can fail and
before it changes the terminal's modes; no cleanup undoes that, so `"nonblock"`
is a resource of its own. An acquisition can fail (`Panic`), and so can the
`malloc` of `push_cleanup` (`OutOfMemory`), whose `ABORT` runs the cleanups
without the one that was to be pushed. The first signal of a handled kind runs
`catch_signal`, at any of these steps and also during the cleanups; a second of
the same kind, which `SA_ONESHOT` has given the default action back and which the
helper thread need not block, or one of a kind without a handler, ends the
process on the spot (`Killed`).
`Turn` reads all the keyboard bytes that have arrived through the automaton of
`get_command`. What a typed command does to the world is a choice of scenes
here; `World` says which.

### Proof modules

`Processes_proofs`, `Screen_proofs`, `World_proofs`, `TuxLdisc_proofs`,
`Files_proofs`, `Terminal_proofs` and `Adventure_proofs` (which also holds the
lemmas about `Photo` and `ModeX`); `NatSets` holds the induction they share. See
*What is proved*.

## Runs

| run | instance | what it shows |
|---|---|---|
| `processes` | 3 terminals, 4 slots, 1 descriptor | Boot and a program slot that is taken and freed for ever: the count, the current PCB, the page and the parent chains stay consistent, no slot is handed on with open descriptors, the scheduler only resumes contexts that are intact (`SuspendedResumable`, until a return through an overwritten frame has landed), although shells start on the region of another process, and every scheduled process runs again (`NoStarvation`). |
| `halt_window` | violation | A tick between the closes of `halt`: the grandparent becomes current while the parent's page is mapped. |
| `terminal` | 2 terminals, an array of 4, lines of 2 kinds of characters, 0, 2 or 200 bytes read behind the array | Every read returns after Enter (`EnteredLineRead`) and delivers the line typed and edited on its own terminal (`ReadDelivers`), wherever its spin loop is preempted and whatever rows a write has filled. |
| `terminal_switch` | violation | After a switch in the middle of a line, the other terminal's reader waits for ever. |
| `screen` | 2 terminals, 2 by 2 characters, 4 outputs | The mappings are exact (`MapsExact`), the hardware cursor follows the visible terminal (`CursorShown`), and the shared screen implements separate terminals (`KeepsApart`), whatever switches and ticks come between. |
| `vidmap` | violation | The first tick that returns to a program which has called `vidmap` takes the screen away from it. |
| `files` | 2 processes, 2 descriptors each, 2 files, the directory, the clock | A descriptor delivers its file without gap or repetition across blocks, whatever else is opened and closed (`ReadsExact`); the clock runs as asked (`RateAsAsked`); a tick reaches a waiting process (`TickSeen`). |
| `files_end` | violation | A read that reaches the end of a file or of the directory delivers one byte more than there is. |
| `tux` | rings of 4, packets in an array of 4; 8 bytes received, or 6 put, or 3 of each | However the stream is cut into interrupts, and with the discipline reopened in between, exactly its packets are delivered, in order (`PacketsExact`); the transmit ring is first in, first out under concurrent wake-ups and nothing is stranded in it (`TransmitDrains`). |
| `tux_put` | violation | A byte that put has reported written is lost: `write_wakeup` takes one byte more than the driver's room. |
| `world` | all rooms, one complete game | Lists and locations agree (`ListsMatchLoc`), nothing is lost or doubled (`Conserved`), photographs and speed match the world, every change is drawn (`DrawnCurrent`), and the game implements its plot (`FollowsPlot`). |
| `adventure` | 4 kinds of sessions, a screen of 8 by 3 pixels | The screen shows the room pixel by pixel (`ShowsRoom`), the fences stand, the window stays in the photograph, no cleanup is executed for what is not held (`CleanupOnce`), however the program ends it leaves behind only what `CleanEnd` names, messages go away (`MessageGoes`). |

Each property of a passing run is paired with a faulty variant of a definition
(`..._early`, `..._short` and so on, next to the definition) that violates it.

Bounds and why they are enough.

- `Processes`: three terminals are the code's own number; one slot beyond the
  shells is wanted by three terminals at once, refused, freed and reused, and one
  descriptor tells clean slots from dirty ones. Chains of more than two processes
  need more slots than TLC can afford here and are covered by the theorems, whose
  bounds are arbitrary. `halt_window` has two terminals and two such slots, for a
  grandparent.
- `Terminal`: two terminals are enough to confuse two lines, two characters to
  see one replaced by another; an array of four is filled to its limit; 200
  bytes behind it make the count overflow its 8 bits.
- `Screen`: a screen of two lines scrolls at the second line break, two columns
  wrap in the middle of a text; four outputs allow text, a scroll, a deletion
  and a read around any number of switches and ticks, which are not bounded.
- `Files`: a file that ends inside its second block and one that fills its only
  block; reads shorter and longer than a block; three successful opens reuse a
  descriptor and reset the clock under a waiting reader. The frequencies are a
  legal one, one that is no power of two and one that is too large.
- `TuxLdisc`: the indices of a ring of four wrap twice; streams of 8 bytes hold
  two packets and all ways to split them; a driver queue of 2 lets a wake-up
  find it empty, partly filled and full. The two sides only share the reopening,
  so long mixed sessions add nothing.
- `World`: the objects of the plot are taken in one order (`Quest`), which
  leaves all rooms, all ways between them and all other commands open; a second
  battery command, three objects that may be dropped, and the inventory in one
  place bring the side conditions in. A free order multiplies the states beyond
  reach and adds no new pair of commands.
- `Adventure`: rooms a little larger than the screen, so that a fast step meets
  both edges; an extra space of three bytes, so that the window leaves the buffer
  within a few steps; an object larger than the screen and one smaller, with
  transparent pixels; two messages, to have one posted while another is timed;
  two signals with handlers, to have one interrupt the cleanups of the other and a
  second of the same kind arrive anywhere in them, and one without.

Fairness. `Processes`: weak fairness of the PIT handler, which the hardware
raises for ever and nothing masks but a fault; nothing is assumed of programs,
which may compute or spin in a read for ever. `Terminal`: the tick, and strong
fairness of a reader's steps, since a quantum of 10 ms is long enough for many
turns of the spin loop. `Files`: the periodic interrupt is enabled once and for
all (`rtc_init`), and each process that waits gets its quanta (which
`NoStarvation` shows of the scheduler). `TuxLdisc`: an activation of
`write_wakeup` runs to its end, the driver sends what it holds and interrupts
after a send; no interrupt is assumed without one. `Adventure`: the operating
system runs both threads, and time passes; nothing is assumed of the player or
of signals. `World` and `Screen` have safety properties and refinements only.

Deadlock is checked in every run but `world`: a game that is won is over. A
faulted kernel spins, which is a step.

## What is proved

### Processes

For all `NUM_TERM`, `programMax` (larger, and below 256) and `FDS`, whether a
return through an overwritten frame faults or lands, of `Spec` in the ordinary
environment (no `"background"`):

- `TypeCorrect`: `Spec => []TypeOK`;
- `CountCorrect`: `program_count` is the number of used slots, and does not wrap;
- `CurrentCorrect`: current PCB, mapped page and scheduler entry agree;
- `ChainsCorrect`: each live process is scheduled on exactly one terminal or
  waits for exactly one live child;
- `DescriptorsCorrect`: free slots have no open descriptors.

All follow from `Invariance`, `Spec => []IInv`. None of the five is inductive by
itself: that `execute`'s search succeeds needs the count to be exact; that
`halt` hands the terminal to a live parent that was not scheduled already needs
the chains; that the chains survive `halt` needs the halting process to be the
scheduled one, which is `CurrentAgrees`. `IInv` adds `NotInHalt` (no context is
one of an interrupted `halt`), `BaseShells` (exactly the shells are their own
parents, so the `pid <= 3` test of `halt` keeps the roots alive) and the three
phases `Booting`, `Starting`, `Running`. The phases carry the start-up argument:
while shells are missing every step is a tick, and slot search, `program_count`
and `curr_process` march in step, so the base-shell branch, which takes its pid
from the count and its page from the search, is consistent. The proof has one
lemma per action.

In the same environment:

- `ContextsCorrect`: `Spec => []SuspendedResumable`: until a return through an
  overwritten frame has landed, the scheduler only resumes intact contexts. (A
  process that survived such a return runs with `esp0` on a region that is not
  its own, and the next entries can overwrite a context.)

Its invariant is `landed \/ ContextInv`. The contexts of a process lie on its own region
or on one of the processes that wait for it, since `execute` runs on the caller's
stack and `halt` sets `esp0` to where the parent's context lies; `anc` gives each
process this chain, and the chains of two terminals are disjoint (`Ancestry`), so
that a kernel entry of one terminal spares the contexts of the others. The
exceptions are the shells: the scheduler starts shell `p` on region `p + 1`, which
belongs to another process, and its context stays there (`Away`) until its first
quantum ends, or longer if the shell calls `execute` in it. So there is a
`FirstRound`, in which the shells to come are away and nothing has run on the
regions where they are, and a `LaterRound`, in which at most the last shell
is away, whose region `NUM_TERM + 1` is that of the first program started. A
`halt` back to that shell would jump through the context on that region, and
`LaterRound` shows that by then the program has entered the kernel there, so that
the jump faults. TLC finds no violation of `ContextInv` for one, two and
three terminals and five slots.

### Screen

For any number of terminals, any size of the screen and any texts:

- `TypeCorrect`: `Spec => []TypeOK`, for any `Env`: no cursor leaves the screen;
- `MapsCorrect`: `Spec => []MapsExact`, for any `Env`;
- `VisibleCorrect`: for any `Env`, the terminal that `terminal_write` chooses by
  the visible flags is that of the running process;
- `CursorRight`: `Spec => []CursorShown`, without `"late"`;
- `TerminalsApart`: `Spec => KeepsApart`, the refinement of `Consoles`, without
  `"clear"` and `"wrap"`.

The mappings need `MapInv`, which adds to `MapsExact` that the indices are
terminals, that the screen's own entry stays, and that the flags name
`curr_terminal`. The interesting steps are `terminal_switch`, whose two calls of
`remap_video` and last assignment touch two entries, and `scheduler`, which
rewrites an entry with the value it has.

The other theorems follow from `TypeOK /\ MapInv` and what each function of
`lib.c` does to the record of its statics. `Out(m, r, t)` says that `r` is a
well-formed state that differs from `m` at most in the text of terminal `t`, in its
cursor and in the statics; there is a lemma for each function that it
establishes `Out` for the terminal whose mapping it writes through, and one for
the loops of `terminal_write` and `printf`, by induction over the text
(`WriteAll` and the like). An action then composes `Load`, the function and
`Store`, and `MapInv` says that the mapping it writes through is the text of the
terminal it stores the cursor of, which is all that `Consoles` asks.

### World

For every order of the quest and every choice of the objects that may be taken
and dropped and of the rooms in which they are (`WorldAssumption`), where the run
has one order:

- `TypeCorrect`, `ListsGood`, `ThingsConserved`, `PhotosRight`, `NeverStale`,
  `SpeedRight`: `Spec => []P` for each of the six invariants of the run;
- `PlotFollowed`: `Spec => FollowsPlot`, the refinement of `Plot`.

They follow from one invariant, `Inv`. `GoodWorld` (lists without repetition that
agree with `loc`) is kept by the three list operations whatever they are applied
to, which is proved once per operation, and holds of `Built` by induction over
the object table. `OneBattery` and `OneOfEach` say which of the objects that
stand for one thing exist, by the flags; `Way` says behind which doors the player
can be, given what has been opened, from the table of doors: without it a
milestone could be claimed from a room that cannot have been reached. `Moved`
says what must have been done before some objects left their places. Each action
is shown to keep `Inv` and to be a step of the plot or to leave the milestones
alone.

### TuxLdisc

For rings, packet arrays and driver queues of any size, any lengths of the
streams and any number of bytes per interrupt (`TuxAssumption`):

- `TypeCorrect`: ring indices, saved bytes and buffers stay in their bounds;
- `FirstInFirstOut`: `Spec => []TransmitRingFifo`;
- `InOrder`: `Spec => []ReceivedInOrder`;
- `PacketsRight`: `Spec => []PacketsExact`.

`TxInv` is the types and `TransmitRingFifo` itself, which is inductive once the
content of a ring is known to behave as a queue under the index arithmetic of
`buf_used` and the wrapping copies. `RxInv` is `Assembled`: the stream is what
has left the ring and what is in it; the saved bytes are the last of what has
left; all packets of it are delivered; and no packet can begin just before the
saved bytes. That the loop of `data_callback` keeps this is shown by induction
over its iterations.

### Files

For any image, block and name size, number of processes and lengths of reads
(`FilesAssumption`: an entry of type file has an inode, as `read_dentry_by_name`
and `read_data` presuppose; the one byte past the end that `files_end` shows is
part of the invariant, not of the property):

- `ReadsRight`: `Spec => []ReadsExact`, from `FilesInv`, which ties the position
  of each descriptor to the length of what it has delivered and a short read to
  the end of the file;
- `RateRight`: `Spec => []RateAsAsked`: the halving loop of `set_frequency`
  returns a rate for exactly the powers of two of its range, and it is theirs.

### Terminal

For any number of terminals, any size of the buffer and of `WRAP`:

- `TypeCorrect`, when the user is `Patient` (no `"ahead"`, `"switch"` or
  `"long"`; programs may do what they like): `Spec => []TypeOK`. The invariant is
  `TypeOK /\ Room`, since only the Enter that ends a full line moves the index
  to the padding byte;
- `LinesDelivered`, with no departure, for requests that run behind the array by
  any number of bytes (`Behind`) and writes that fill rows:
  `Spec => []ReadDelivers`. Every read delivers the characters of its own line in
  order; after Enter it delivers the whole line and nothing else in the array; it
  returns without Enter only if the last write has filled a row. `LineInv` says
  that the buffer holds the visible terminal's line as typed and edited, with
  what backspace left behind it; that all other terminals are between lines;
  and, for a reader at each load of its spin loop, what the flags it has yet to
  test are. The hypotheses are those of the run; `Env` says what happens without
  each.

### Adventure, ModeX and Photo

For photographs, objects, speeds, screens, build buffers and inputs of any size
(`DimAssumption`: the width of the screen is a multiple of 4; `BufferAssumption`;
`AdventureAssumption`: a photograph is at least as large as the screen, and a
photograph has one size):

- `RoomShown`: `Spec => []ShowsRoom`;
- `FencesNeverHit`: `Spec => []FenceIntact`;
- `StaysInside`: `Spec => []WindowInside`;
- `NeverTwice`, `NothingLeft`: `Spec => []CleanupOnce`, `Spec => []CleanEnd`;
- `TypeCorrect`: `Spec => []TypeOK`.

The first three follow from `PictureInv`: between turns the build buffer holds, at
the address of each pixel of the window, the pixel that `Look` gives for the
room, the window is where the map position says, and everything outside of the
buffer is fence. The argument has four parts. *Drawing*: `fill_horiz_buffer` and
`fill_vert_buffer` deliver `Look`, by induction over the contents list
(`HorizLooks`, `VertLooks`). *Addresses*: the pixels of a window have different
addresses (`PixelsDiffer`), which lie in the buffer if `Fits` holds or the window
is recentred (`AddressInBuffer`). *Copying*: in the order of `Order`, the loop
moves the bytes whether or not the areas overlap (`CopyMoves`), so
`set_view_window` keeps every pixel that old and new window share
(`WindowMoves`). *Moving*: those and the newly drawn lines make up the window
(`MoveShows`), and `show_screen`, which walks over the planes in its own way,
displays it (`DisplaysWindow`).

`CleanupInv` says that the cleanup stack is one of the four prefixes of the
acquisitions, that what is on it or in hand (`InHand`: acquired and not yet
pushed, or popped and not yet executed) is held, and that anything else that is
held was in hand when a signal struck or the memory ran out, or is the
non-blocking mode of stdin; once the program has ended, entries are left on the
stack only if it was killed. `TypeInv` adds the states of the keyboard
automaton, whose loop over the bytes of a turn is another induction.

`PictureInv` and `CleanupInv` are also invariants of the `adventure` run's
instance, where TLC found no violation of either.

### Induction

The library's induction theorems have an operator as parameter, which the
provers cannot instantiate. `NatSets` states induction for *sets* instead:
`InductionUpTo` says that a set that contains 0 and is closed under successor
below a limit contains all numbers up to it, and is proved from the
well-foundedness of `<`. A property is then a set comprehension. The same
lemma gives `LoopExists`, the existence of the function that a loop's recursive
definition chooses, and so what the loops of `World`, `Photo`, `ModeX`,
`TuxLdisc` and `Screen` compute.

### Only model-checked

Liveness (`NoStarvation`, `EnteredLineRead`, `TickSeen`,
`TransmitDrains`, `MessageGoes`) is out of the prover's reach. Every invariant
and every refinement of the passing runs is a theorem, those of
`Processes`, `CursorShown`, `KeepsApart` and the properties of `Terminal` under the
restriction of `Env` that the run has too.

## Findings

Five runs show a disagreement of the code with its own comments; `PROJECT.json`
quotes the lines.

- `tux_put`: `write_wakeup` is off by one against the driver's room.
- `terminal_switch`: a terminal switch does not exchange `keyBufferIndex`.
- `vidmap`: `scheduler_remap_video` writes the page number into the wrong member
  of the page table entry's union.
- `halt_window`: the `sti` of `close_handler` opens `halt`'s critical section; a
  tick inside makes `halt` install the grandparent.
- `files_end`: `read_data` and `directory_read` deliver one byte beyond the end.

Other things seen while modelling, which the departures in `Env` reproduce or
which are facts of the code:

- `halt` returns through the context in the parent's PCB, its last preemption,
  whose frame the parent's own `execute` has overwritten (`syscall.c:59`); the
  frame of `execute` is stored in the child's PCB. `Processes` models the return
  as a fault or as one that lands in the parent.
- `execute` uses the visible terminal's slot: `NoProcessLost` fails with
  `"background"`.
- A write whose output reaches the end of a row of the visible screen calls
  `enter_user` (`terminal.c:132`), which sets the enter flag (`lib.c:156`) that
  the same write cleared at its start. The next read, which is to "check if user pressed
  enter" (`terminal.c:26`), returns at the first key. With no departure from
  ordinary use, `ReadDelivers` has to make an exception of it.
- Every reader asks for 1023 bytes of a buffer of 127: the copy loop runs on
  behind the array (`terminal.c:36`), and the count it returns is 8 bits wide.
- A line longer than the wrap column is delivered with a hole and without its
  end (`keyboard.c:104`, `terminal.c:36`): `ReadDelivers` fails with `"long"` when
  `WRAP` lies inside the buffer.
- Ctrl+L clears the terminal of the last output or of the last tick, on a system
  with several shells usually not the visible one; a wrapped echo moves the
  cursor of the running terminal, and a read that ends late stores a foreign cursor
  (`Env` of `Screen`). Ctrl+L also leaves the hardware cursor where it was;
  `vert_scroll` does not move the NUL cells that backspace leaves.
- A status message posted between the helper's timeout and its lock is cleared
  at once, where the comment has a new message restart the clock.
- `init_input` sets `O_NONBLOCK` on stdin (`input.c:92`). Neither `shutdown_input`
  (`input.c:292-296`), which "restores original terminal settings"
  (`input.c:289`), nor an `init_input` that fails, whose order was changed "to
  avoid leaving keyboard in odd state on failure" (`input.c:37-38`), undoes it:
  `CleanEnd` excepts it.
- A second signal of one kind, in the middle of the cleanups, is not caught
  (`SA_ONESHOT`, `assert.c:235`) and can be delivered to the helper thread, which
  does not block it: the process ends with cleanups undone. A `malloc` that fails
  in `push_cleanup` (`assert.c:174-175`) loses the resource just acquired.

## Plan

1. Abstract specifications still worth stating: a process forest that
   `Processes` implements, a line-by-line input that `Terminal` implements in
   ordinary use, a lossless queue for each ring of `TuxLdisc`.
2. The close of the line discipline that races an interrupt.

Not modelled, and why:

- descriptor tables, multiboot parsing, PIC masks and other device set-up, and
  the VGA registers and palette of `modex.c`: straight-line I/O;
- `getargs`, the parsing of the command line, `printf`'s conversions and the
  string helpers of `lib.c`: sequential code without shared state;
- the modifier keys and the scan code table: a key is the function it stands for;
- `text.c`: a font table; the reading of photograph files: once, sequentially;
- the kernel's self tests, the user programs and the fish demo: the environment;
- `tuxctl-ioctl.c` and `mp1`: stubs in this repository.
