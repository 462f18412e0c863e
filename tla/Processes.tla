------------------------------ MODULE Processes ------------------------------
(***************************************************************************)
(* Process creation, termination and preemption in the mp3 kernel:         *)
(* syscall.c (execute, halt, open, close, read) and scheduler.c (the PIT   *)
(* handler and the round-robin scheduler over the terminals).              *)
(*                                                                         *)
(* Process p owns PCB p and the 8 KB kernel stack "region" p that lies     *)
(* under it; region 0 is the boot stack.  A saved context is abstracted to *)
(* what the processor was doing (mode), the region its frame lies on (stk) *)
(* and whether the bytes of the frame are still those saved (ok).          *)
(*                                                                         *)
(* The calls that change this state (execute, halt, open, close) begin     *)
(* with cli and are single steps; a tick between the entry of a call and   *)
(* its cli is one before the entry.  halt's calls of close_handler turn    *)
(* the interrupts on again: Spec has no interrupt there, WindowSpec has.   *)
(* Other calls run with interrupts on: ReadBegin to ReadEnd is such a      *)
(* call, and a read spins in it.                                           *)
(***************************************************************************)
EXTENDS Integers, FiniteSets

CONSTANTS
  NUM_TERM,     \* terminals the scheduler rotates over (3)
  programMax,   \* process slots (6)
  FDS,          \* file descriptors a program may open (2..7)
  Env           \* beyond the ordinary: with "background" in it, execute may be called by
                \* a process of a terminal that is not the visible one

ASSUME ProcessesAssumption ==
  /\ NUM_TERM \in Nat \ {0}
  /\ programMax \in Nat /\ NUM_TERM < programMax /\ programMax < 256
  /\ FDS \subseteq Nat
  /\ Env \subseteq {"background"}

VARIABLES
  sched_pid,      \* sched_pid[t]: the pid terminal t gives its quanta to, 0 before its shell starts
  curr_process,   \* the terminal whose process is running
  curr_terminal,  \* the terminal on the screen
  pid_arr,        \* the pids in use (the 1 entries of the array)
  program_count,
  pcb_current,    \* the pid whose PCB it points to, 0 for NULL
  page,           \* the pid whose 4 MB page is mapped at 128 MB, 0 for none
  esp0,           \* tss.esp0: the region, and whether it is its top or the middle of it
  parent_pid,     \* parent_pid and parent_pcb of each PCB
  ctx,            \* esp and ebp of each PCB
  fds,            \* the open descriptors of each PCB
  hlt,            \* locals of a halt_handler activation on each region
  cpu,            \* what the processor executes, and on which region
  landed          \* history: whether a return through an overwritten frame did not fault

vars == <<sched_pid, curr_process, curr_terminal, pid_arr, program_count, pcb_current,
          page, esp0, parent_pid, ctx, fds, hlt, cpu, landed>>

Terms   == 0 .. NUM_TERM - 1
Pids    == 1 .. programMax
Regions == 0 .. programMax + 1

(***************************************************************************)
(* boot: the idle loop of entry(); start: execute_handler's sti, before    *)
(* its iret; user: user code; read: the spin loop of terminal_read or      *)
(* rtc_read; halt: halt_handler after a close; exec: the frame             *)
(* execute_handler stores in the child's PCB; fault: an exception handler, *)
(* which spins with interrupts off.                                        *)
(***************************************************************************)
Modes  == {"boot", "start", "user", "read", "halt", "exec", "fault"}
Frames == [mode : Modes, stk : Regions, ok : BOOLEAN]

User  == [mode |-> "user", stk |-> 0]
Fault == [mode |-> "fault", stk |-> 0]
Top(p) == [stk |-> p, at |-> "top"]
NoFrame == [mode |-> "boot", stk |-> 0, ok |-> FALSE]

Init ==
  /\ sched_pid = [t \in Terms |-> 0]
  /\ curr_process = 0
  /\ curr_terminal = 0
  /\ pid_arr = {}
  /\ program_count = 0
  /\ pcb_current = 0
  /\ page = 0
  /\ esp0 = Top(0)
  /\ parent_pid = [p \in Pids |-> 0]
  /\ ctx = [p \in Pids |-> NoFrame]
  /\ fds = [p \in Pids |-> {}]
  /\ hlt = [r \in Regions |-> [fd |-> 0, target |-> NoFrame]]
  /\ cpu = [mode |-> "boot", stk |-> 0]
  /\ landed = FALSE

-----------------------------------------------------------------------------
(***************************************************************************)
(* Kernel entries and stack frames.                                        *)
(***************************************************************************)

\* The region a kernel entry now runs on: esp0 from user code, else the current stack.
EntryStack == IF cpu.mode = "user" THEN esp0.stk ELSE cpu.stk

\* Frame f once a stack that starts at the top of region r has been used.
Clobbered(f, r) == IF f.stk = r THEN [f EXCEPT !.ok = FALSE] ELSE f

\* Entering from user code at the top of a region overwrites the frames on that region.
\* An entry at a mid-region esp0 lies below the frame esp0 was taken from.
Entered(f) ==
  IF cpu.mode = "user" /\ esp0.at = "top" THEN Clobbered(f, esp0.stk) ELSE f

EnteredAll == [p \in Pids |-> Entered(ctx[p])]
HltEntered == [r \in Regions |-> [fd |-> hlt[r].fd, target |-> Entered(hlt[r].target)]]

\* What the processor may do next when it returns through frame f: if the frame has been
\* overwritten it faults, or happens to land back in the process.
Resumed(f) ==
  IF f.ok
    THEN {IF f.mode \in {"read", "halt"} THEN [mode |-> f.mode, stk |-> f.stk] ELSE User}
    ELSE {Fault, User}

Return(f) ==
  /\ cpu' \in Resumed(f)
  /\ landed' = (landed \/ (~ f.ok /\ cpu' # Fault))

\* Interrupts are on and the running process may be interrupted.
Interruptible == cpu.mode \in {"boot", "user", "read", "halt"}

-----------------------------------------------------------------------------
(***************************************************************************)
(* execute_handler, from the point where the command is known to name an   *)
(* executable.  c are the saved contexts when it is called, s the region   *)
(* it runs on.  The 4 MB load loop with interrupts off outlasts a PIT      *)
(* period, so that the next step is the tick pending at its sti.           *)
(***************************************************************************)

\* The first free entry of pid_arr, as a pid.
FirstFree(p) == p \in Pids \ pid_arr /\ 1 .. p - 1 \subseteq pid_arr

\* The slot of sched_pid a program is entered in.
execute_slot == curr_terminal

\* The PCB of the child holds execute's own frame.
ChildContext(s) == [mode |-> "exec", stk |-> s, ok |-> TRUE]

\* Faulty variant: the count is used as the pid before it is incremented.
ExecuteBase_early(sched, c, s) ==
  LET pid == program_count IN
  /\ parent_pid' = [parent_pid EXCEPT ![pid] = pid]
  /\ ctx' = [c EXCEPT ![pid] = ChildContext(s)]
  /\ pid_arr' = pid_arr \cup {pid}
  /\ sched_pid' = [sched EXCEPT ![program_count] = pid]
  /\ pcb_current' = pid
\* program_count < 3: a base shell, which is its own parent.
ExecuteBase(sched, c, s) ==
  LET pid == program_count + 1 IN
  /\ parent_pid' = [parent_pid EXCEPT ![pid] = pid]
  /\ ctx' = [c EXCEPT ![pid] = ChildContext(s)]
  /\ pid_arr' = pid_arr \cup {pid}
  /\ sched_pid' = [sched EXCEPT ![program_count] = pid]
  /\ pcb_current' = pid

\* Otherwise a child of the current process.
ExecuteProgram(slot, sched, c, s) ==
  /\ parent_pid' = [parent_pid EXCEPT ![slot] = pcb_current]
  /\ ctx' = [c EXCEPT ![slot] = ChildContext(s)]
  /\ pid_arr' = pid_arr \cup {slot}
  /\ sched_pid' = [sched EXCEPT ![execute_slot] = slot]
  /\ pcb_current' = slot

execute_handler(sched, c, s) ==
  /\ program_count < programMax
  /\ program_count' = (program_count + 1) % 256
  /\ \E slot \in Pids :
       /\ FirstFree(slot)
       /\ IF program_count < NUM_TERM
            THEN ExecuteBase(sched, c, s)
            ELSE ExecuteProgram(slot, sched, c, s)
       /\ page' = slot
       /\ esp0' = Top(slot)
  /\ cpu' = [mode |-> "start", stk |-> s]

\* A user program calls execute and the call succeeds.
Execute ==
  /\ cpu.mode = "user"
  /\ "background" \in Env \/ curr_terminal = curr_process
  /\ execute_handler(sched_pid, EnteredAll, EntryStack)
  /\ hlt' = HltEntered
  /\ UNCHANGED <<curr_process, curr_terminal, fds, landed>>

-----------------------------------------------------------------------------
(***************************************************************************)
(* pit_interrupt_handler and scheduler.                                    *)
(***************************************************************************)

\* The region on which the scheduler starts the shell with sched_pid entry p:
\* esp = bottomKernal - p * kernalStackSize - 4 is the top of the region after p's own.
StartStack(p) == p + 1

\* Faulty variant: the modulus is one short.
next_process_short == (curr_process + 1) % (NUM_TERM - 1)
next_process == (curr_process + 1) % NUM_TERM

\* Faulty variant: the scheduler leaves tss.esp0 as it is.
SwitchStack_kept(p) == esp0
\* tss.esp0 for the process p that the scheduler resumes.
SwitchStack(p) == Top(p)

\* The context the scheduler stores in the PCB of the interrupted process.
SavedFrame == [mode |-> cpu.mode, stk |-> EntryStack, ok |-> TRUE]
Saved == [EnteredAll EXCEPT ![sched_pid[curr_process]] = SavedFrame]

\* The first tick: nothing is saved, the shell of terminal 0 starts on region 1.
TickBoot ==
  /\ cpu.mode = "boot"
  /\ sched_pid[0] = 0
  /\ execute_handler([sched_pid EXCEPT ![0] = 1], ctx, 1)
  /\ UNCHANGED <<curr_process, curr_terminal, fds, hlt, landed>>

\* The next terminal has no process yet: its shell is started.
TickStart ==
  /\ cpu.mode \in {"start", "user", "read", "halt"}
  /\ sched_pid[next_process] = 0
  /\ LET p == sched_pid[curr_process] + 1 IN
       execute_handler([sched_pid EXCEPT ![next_process] = p],
                       [q \in Pids |-> Clobbered(Saved[q], StartStack(p))], StartStack(p))
  /\ curr_process' = next_process
  /\ hlt' = HltEntered
  /\ UNCHANGED <<curr_terminal, fds, landed>>

\* The next terminal's process is resumed where its PCB says.
TickSwitch ==
  /\ cpu.mode \in {"start", "user", "read", "halt"}
  /\ sched_pid[next_process] # 0
  /\ LET p == sched_pid[next_process] IN
       /\ ctx' = Saved
       /\ Return(Saved[p])
       /\ pcb_current' = p
       /\ page' = p
       /\ esp0' = SwitchStack(p)
  /\ curr_process' = next_process
  /\ hlt' = HltEntered
  /\ UNCHANGED <<sched_pid, curr_terminal, pid_arr, program_count, parent_pid, fds>>

pit_interrupt_handler == TickBoot \/ TickStart \/ TickSwitch

-----------------------------------------------------------------------------
(***************************************************************************)
(* halt_handler.                                                           *)
(***************************************************************************)

\* Faulty variant: the program stays counted.
ProgramsLeft_same == program_count
ProgramsLeft == (program_count - 1) % 256

\* Faulty variant: the slot of the visible terminal, as in execute.
halt_slot_visible == curr_terminal
\* The slot of sched_pid that goes back to the parent.
halt_slot == curr_process

\* Faulty variant: the first descriptor is left open.
HaltCloses_from3 == {f \in FDS : f > 2}
\* The descriptors halt closes.
HaltCloses == FDS

\* What halt does before its close_handler calls, with parent the pid halt returns to.
HaltBookkeeping(parent) ==
  /\ pid_arr' = pid_arr \ {pcb_current}
  /\ sched_pid' = [sched_pid EXCEPT ![halt_slot] = parent]
  /\ program_count' = ProgramsLeft
  /\ page' = parent
  /\ esp0' = [stk |-> ctx[parent].stk, at |-> "mid"]

\* The whole of halt when no interrupt arrives before its final jump, which goes
\* through the context the parent's PCB held when halt was called.
Halt ==
  /\ cpu.mode = "user"
  /\ pcb_current > NUM_TERM
  /\ LET parent == parent_pid[pcb_current] IN
       /\ HaltBookkeeping(parent)
       /\ Return(Entered(ctx[parent]))
       /\ pcb_current' = parent
  /\ fds' = [fds EXCEPT ![pcb_current] = @ \ HaltCloses]
  /\ ctx' = EnteredAll
  /\ hlt' = HltEntered
  /\ UNCHANGED <<curr_process, curr_terminal, parent_pid>>

\* The first descriptor after k that is open in the current PCB.
NextOpen(k, f) == f \in fds[pcb_current] /\ f > k /\ \A g \in fds[pcb_current] : g > k => f <= g

\* halt up to and including its first successful close_handler, which ends with sti.
HaltBegin ==
  /\ cpu.mode = "user"
  /\ pcb_current > NUM_TERM
  /\ \E f \in FDS :
       /\ NextOpen(0, f)
       /\ LET parent == parent_pid[pcb_current] IN
            /\ HaltBookkeeping(parent)
            /\ hlt' = [HltEntered EXCEPT ![esp0.stk] = [fd |-> f, target |-> Entered(ctx[parent])]]
       /\ fds' = [fds EXCEPT ![pcb_current] = @ \ {f}]
  /\ ctx' = EnteredAll
  /\ cpu' = [mode |-> "halt", stk |-> esp0.stk]
  /\ UNCHANGED <<curr_process, curr_terminal, parent_pid, pcb_current, landed>>

\* A later close_handler call of halt that succeeds; the failing ones change nothing.
HaltClose ==
  /\ cpu.mode = "halt"
  /\ \E f \in FDS :
       /\ NextOpen(hlt[cpu.stk].fd, f)
       /\ hlt' = [hlt EXCEPT ![cpu.stk].fd = f]
       /\ fds' = [fds EXCEPT ![pcb_current] = @ \ {f}]
  /\ UNCHANGED <<sched_pid, curr_process, curr_terminal, pid_arr, program_count, pcb_current,
                 page, esp0, parent_pid, ctx, cpu, landed>>

\* The end of halt: the parent's PCB becomes current and the jump is taken.
HaltJump ==
  /\ cpu.mode = "halt"
  /\ \A f \in FDS : ~ NextOpen(hlt[cpu.stk].fd, f)
  /\ pcb_current' = parent_pid[pcb_current]
  /\ Return(hlt[cpu.stk].target)
  /\ UNCHANGED <<sched_pid, curr_process, curr_terminal, pid_arr, program_count,
                 page, esp0, parent_pid, ctx, fds, hlt>>

-----------------------------------------------------------------------------
(***************************************************************************)
(* The other system calls and interrupts.                                  *)
(***************************************************************************)

\* Any kernel entry from user code that comes back without touching this state:
\* write, getargs, vidmap, a failed call, "Can't exit base shell!", an RTC interrupt.
KernelVisit ==
  /\ cpu.mode = "user"
  /\ ctx' = EnteredAll
  /\ hlt' = HltEntered
  /\ UNCHANGED <<sched_pid, curr_process, curr_terminal, pid_arr, program_count, pcb_current,
                 page, esp0, parent_pid, fds, cpu, landed>>

\* open: the first free descriptor of the current PCB.
Open ==
  /\ cpu.mode = "user"
  /\ \E f \in FDS \ fds[pcb_current] :
       /\ \A g \in FDS : g < f => g \in fds[pcb_current]
       /\ fds' = [fds EXCEPT ![pcb_current] = @ \cup {f}]
  /\ ctx' = EnteredAll
  /\ hlt' = HltEntered
  /\ UNCHANGED <<sched_pid, curr_process, curr_terminal, pid_arr, program_count, pcb_current,
                 page, esp0, parent_pid, cpu, landed>>

Close ==
  /\ cpu.mode = "user"
  /\ \E f \in fds[pcb_current] : fds' = [fds EXCEPT ![pcb_current] = @ \ {f}]
  /\ ctx' = EnteredAll
  /\ hlt' = HltEntered
  /\ UNCHANGED <<sched_pid, curr_process, curr_terminal, pid_arr, program_count, pcb_current,
                 page, esp0, parent_pid, cpu, landed>>

\* A call that runs with interrupts on, such as a read that spins, starts and ends.
ReadBegin ==
  /\ cpu.mode = "user"
  /\ cpu' = [mode |-> "read", stk |-> esp0.stk]
  /\ ctx' = EnteredAll
  /\ hlt' = HltEntered
  /\ UNCHANGED <<sched_pid, curr_process, curr_terminal, pid_arr, program_count, pcb_current,
                 page, esp0, parent_pid, fds, landed>>

ReadEnd ==
  /\ cpu.mode = "read"
  /\ cpu' = User
  /\ UNCHANGED <<sched_pid, curr_process, curr_terminal, pid_arr, program_count, pcb_current,
                 page, esp0, parent_pid, ctx, fds, hlt, landed>>

\* Alt+F1..F3: keyboard_inter_handler calls terminal_switch.
terminal_switch ==
  /\ Interruptible
  /\ \E idx \in Terms \ {curr_terminal} : curr_terminal' = idx
  /\ ctx' = EnteredAll
  /\ hlt' = HltEntered
  /\ UNCHANGED <<sched_pid, curr_process, pid_arr, program_count, pcb_current,
                 page, esp0, parent_pid, fds, cpu, landed>>

\* The exception handlers print a message and never return.
Exception ==
  /\ cpu.mode = "fault"
  /\ UNCHANGED vars

Next ==
  \/ pit_interrupt_handler
  \/ Execute
  \/ Halt
  \/ KernelVisit \/ Open \/ Close \/ ReadBegin \/ ReadEnd
  \/ terminal_switch
  \/ Exception

Spec == Init /\ [][Next]_vars

\* The PIT interrupts for ever, and nothing keeps interrupts off for ever but a fault.
FairSpec == Spec /\ WF_vars(pit_interrupt_handler)

\* The same with interrupts inside halt.
WindowNext == Next \/ HaltBegin \/ HaltClose \/ HaltJump
WindowSpec == Init /\ [][WindowNext]_vars

-----------------------------------------------------------------------------
(***************************************************************************)
(* Properties.                                                             *)
(***************************************************************************)

\* Every variable keeps its range: no PCB, region or terminal outside the arrays is used.
TypeOK ==
  /\ sched_pid \in [Terms -> 0 .. programMax]
  /\ curr_process \in Terms
  /\ curr_terminal \in Terms
  /\ pid_arr \subseteq Pids
  /\ program_count \in 0 .. 255
  /\ pcb_current \in 0 .. programMax
  /\ page \in 0 .. programMax
  /\ esp0 \in [stk : Regions, at : {"top", "mid"}]
  /\ parent_pid \in [Pids -> 0 .. programMax]
  /\ ctx \in [Pids -> Frames]
  /\ fds \in [Pids -> SUBSET FDS]
  /\ hlt \in [Regions -> [fd : {0} \cup FDS, target : Frames]]
  /\ cpu \in [mode : Modes, stk : Regions]
  /\ landed \in BOOLEAN

\* program_count, which execute tests against programMax before it looks for a free
\* entry of pid_arr, is the number of entries in use, so that the search succeeds.
ProgramCountExact == program_count = Cardinality(pid_arr)

\* Outside halt, which is a critical section, the current PCB, the mapped program page and
\* the scheduler's idea of the running process are one and the same process.
CurrentAgrees ==
  cpu.mode \notin {"boot", "halt"} => /\ pcb_current = sched_pid[curr_process]
                       /\ page = pcb_current

\* Process p waits for its child c.
Waits(p, c) == c \in pid_arr \ {p} /\ parent_pid[c] = p
\* Process p receives the quanta of a terminal.
Scheduled(p) == \E t \in Terms : sched_pid[t] = p

\* No process is lost or scheduled twice: each live process either has the quanta of
\* exactly one terminal or waits for exactly one live child, and its parent is alive.
\* A terminal without a live process is one whose shell has not started.
NoProcessLost ==
  /\ \A t \in Terms : sched_pid[t] \in pid_arr \cup {0}
  /\ \A t, u \in Terms : sched_pid[t] = sched_pid[u] /\ sched_pid[t] # 0 => t = u
  /\ \A p \in pid_arr : Scheduled(p) <=> ~ \E c \in Pids : Waits(p, c)
  /\ \A p \in pid_arr : \A c, d \in Pids : Waits(p, c) /\ Waits(p, d) => c = d
  /\ \A p \in pid_arr : parent_pid[p] \in pid_arr

\* Until a return through an overwritten frame has landed somewhere: whenever the scheduler
\* turns to another started terminal, it finds in the PCB a context that it saved itself and
\* that no kernel entry has overwritten since, although shells start on the stack region of
\* another process.
SuspendedResumable ==
  ~ landed => \A t \in Terms \ {curr_process} :
    sched_pid[t] # 0 => /\ ctx[sched_pid[t]].ok
                        /\ ctx[sched_pid[t]].mode \in {"start", "user", "read"}

\* execute does not clear the descriptors of the PCB it fills: halt has left none open.
FreshDescriptors == \A p \in Pids \ pid_arr : fds[p] = {}

\* A process that has the quanta of a terminal runs again, unless the kernel has faulted.
NoStarvation ==
  \A p \in Pids : Scheduled(p) ~> (pcb_current = p \/ cpu.mode = "fault")
=============================================================================
