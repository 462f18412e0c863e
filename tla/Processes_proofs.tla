--------------------------- MODULE Processes_proofs ---------------------------
(***************************************************************************)
(* Proofs about Processes, for every number of terminals, process slots    *)
(* and descriptors, in the ordinary environment: execute is called from    *)
(* the visible terminal and no interrupt falls between the close_handler   *)
(* calls of halt.  A jump through an overwritten frame may fault or land   *)
(* back in the process; only the last part, about the saved contexts, is   *)
(* about what happens before one has landed.                               *)
(***************************************************************************)
EXTENDS Processes, FiniteSetTheorems, TLAPS

Ordinary == Env = {}

\* No activation of halt is ever interrupted.
NotInHalt == cpu.mode # "halt" /\ \A p \in Pids : ctx[p].mode # "halt"

\* The base shells are the processes that are their own parents.
BaseShells == \A p \in pid_arr : parent_pid[p] = p <=> p <= NUM_TERM

(***************************************************************************)
(* The three phases of the kernel: the idle loop of entry(), the ticks     *)
(* that start the shells one after the other, and the rest.                *)
(***************************************************************************)
Booting ==
  /\ cpu.mode = "boot"
  /\ program_count = 0
  /\ pid_arr = {}
  /\ curr_process = 0
  /\ \A t \in Terms : sched_pid[t] = 0

Starting ==
  /\ cpu.mode = "start"
  /\ program_count \in 1 .. NUM_TERM - 1
  /\ pid_arr = 1 .. program_count
  /\ curr_process = program_count - 1
  /\ \A t \in Terms : sched_pid[t] = IF t < program_count THEN t + 1 ELSE 0

Running ==
  /\ cpu.mode # "boot"
  /\ 1 .. NUM_TERM \subseteq pid_arr
  /\ \A t \in Terms : sched_pid[t] # 0

\* The inductive invariant.
IInv ==
  /\ TypeOK
  /\ ProgramCountExact
  /\ CurrentAgrees
  /\ NoProcessLost
  /\ FreshDescriptors
  /\ NotInHalt
  /\ BaseShells
  /\ Booting \/ Starting \/ Running

-----------------------------------------------------------------------------
(***************************************************************************)
(* Lemmas about the operators of Processes.                                *)
(***************************************************************************)

\* A kernel entry marks saved frames as overwritten and changes nothing else of them.
LEMMA EnteredFrames ==
  ASSUME TypeOK
  PROVE  /\ EnteredAll \in [Pids -> Frames]
         /\ HltEntered \in [Regions -> [fd : {0} \cup FDS, target : Frames]]
         /\ \A p \in Pids : EnteredAll[p].mode = ctx[p].mode
<1>1. \A f \in Frames : Entered(f) \in Frames /\ Entered(f).mode = f.mode
  BY DEF Entered, Clobbered, Frames
<1>2. \A p \in Pids : ctx[p] \in Frames
  BY DEF TypeOK
<1>3. \A r \in Regions : hlt[r].fd \in {0} \cup FDS /\ hlt[r].target \in Frames
  BY DEF TypeOK
<1> QED
  BY <1>1, <1>2, <1>3 DEF EnteredAll, HltEntered

\* The region a kernel entry runs on exists.
LEMMA EntryStackType ==
  ASSUME TypeOK
  PROVE  EntryStack \in Regions
BY DEF TypeOK, EntryStack

\* Whether a return has landed is true or false.
LEMMA ReturnType ==
  ASSUME NEW f, Return(f)
  PROVE  landed' \in BOOLEAN
<1>1. landed' = (landed \/ (~ f.ok /\ cpu' # Fault))
  BY DEF Return
<1> QED
  BY <1>1, Zenon

\* A return through a saved frame leads to user code, a spinning read or a fault, unless
\* the frame is one of halt.
LEMMA ResumedModes ==
  ASSUME NEW f \in Frames, f.mode # "halt", NEW c \in Resumed(f)
  PROVE  c \in [mode : Modes, stk : Regions] /\ c.mode \in {"user", "read", "fault"}
<1>1. 0 \in Regions
  BY ProcessesAssumption DEF Regions
<1>2. User \in [mode : Modes, stk : Regions] /\ Fault \in [mode : Modes, stk : Regions]
  BY <1>1 DEF User, Fault, Modes
<1>3. f.mode \in Modes /\ f.stk \in Regions
  BY DEF Frames
<1>4. c \in {User, Fault} \/ (f.mode = "read" /\ c = [mode |-> f.mode, stk |-> f.stk])
  BY DEF Resumed
<1> QED
  BY <1>2, <1>3, <1>4 DEF User, Fault

\* The next terminal of the rotation is a terminal, and it is the following one or the first.
LEMMA NextTerminal ==
  ASSUME TypeOK
  PROVE  /\ next_process \in Terms
         /\ curr_process < NUM_TERM - 1 => next_process = curr_process + 1
         /\ curr_process = NUM_TERM - 1 => next_process = 0
<1>1. NUM_TERM \in Nat /\ NUM_TERM > 0 /\ curr_process \in 0 .. NUM_TERM - 1
  BY ProcessesAssumption DEF TypeOK, Terms
<1>2. CASE curr_process < NUM_TERM - 1
  <2>1. (curr_process + 1) % NUM_TERM = curr_process + 1
    BY <1>1, <1>2
  <2> QED BY <1>1, <1>2, <2>1 DEF next_process, Terms
<1>3. CASE curr_process = NUM_TERM - 1
  <2>1. (curr_process + 1) % NUM_TERM = 0
    BY <1>1, <1>3
  <2> QED BY <1>1, <1>3, <2>1 DEF next_process, Terms
<1> QED BY <1>1, <1>2, <1>3

\* A count that fits in a byte does not wrap.
LEMMA ByteNoWrap == \A k \in 0 .. 255 : k % 256 = k
OBVIOUS

\* The processes in use are a finite set with at most programMax members.
LEMMA PidsFinite ==
  ASSUME TypeOK
  PROVE  IsFiniteSet(pid_arr) /\ Cardinality(pid_arr) \in 0 .. programMax
<1>1. IsFiniteSet(Pids) /\ Cardinality(Pids) = programMax
  BY ProcessesAssumption, FS_Interval DEF Pids
<1>2. IsFiniteSet(pid_arr) /\ Cardinality(pid_arr) <= Cardinality(Pids)
  BY <1>1, FS_Subset DEF TypeOK
<1> QED
  BY <1>1, <1>2, FS_CardinalityType, ProcessesAssumption

-----------------------------------------------------------------------------
(***************************************************************************)
(* The invariant holds initially and every step preserves it.              *)
(***************************************************************************)

\* The state entry() leaves to the first tick satisfies the invariant.
LEMMA InitIInv == Init => IInv
<1> SUFFICES ASSUME Init PROVE IInv
  OBVIOUS
<1>1. 0 \in Terms /\ 0 \in Regions
  BY ProcessesAssumption DEF Terms, Regions
<1>2. NoFrame \in Frames
  BY <1>1 DEF NoFrame, Frames, Modes
<1>3. TypeOK
  <2>1. hlt \in [Regions -> [fd : {0} \cup FDS, target : Frames]] /\ ctx \in [Pids -> Frames]
    BY <1>2 DEF Init
  <2>2. cpu \in [mode : Modes, stk : Regions] /\ esp0 \in [stk : Regions, at : {"top", "mid"}]
    BY <1>1 DEF Init, Modes, Top
  <2>3. 0 \in 0 .. programMax /\ 0 \in 0 .. 255
    BY ProcessesAssumption
  <2> QED
    BY <1>1, <2>1, <2>2, <2>3 DEF Init, TypeOK
<1>4. ProgramCountExact
  BY FS_EmptySet DEF Init, ProgramCountExact
<1>5. CurrentAgrees /\ NoProcessLost /\ FreshDescriptors /\ BaseShells
  BY DEF Init, CurrentAgrees, NoProcessLost, FreshDescriptors, BaseShells
<1>6. NotInHalt
  BY DEF Init, NotInHalt, NoFrame
<1>7. Booting
  BY DEF Init, Booting
<1> QED
  BY <1>3, <1>4, <1>5, <1>6, <1>7 DEF IInv

\* Once all shells are started, the current process is alive and no fewer than NUM_TERM
\* processes are.
LEMMA RunningFacts ==
  ASSUME IInv, Running, cpu.mode # "halt"
  PROVE  /\ program_count >= NUM_TERM
         /\ pcb_current = sched_pid[curr_process]
         /\ pcb_current \in pid_arr
         /\ parent_pid[pcb_current] \in pid_arr
<1>1. IsFiniteSet(pid_arr)
  BY PidsFinite DEF IInv
<1>2. Cardinality(1 .. NUM_TERM) = NUM_TERM
  BY ProcessesAssumption, FS_Interval
<1>3. Cardinality(1 .. NUM_TERM) <= Cardinality(pid_arr)
  BY <1>1, FS_Subset DEF Running
<1>4. curr_process \in Terms
  BY DEF IInv, TypeOK
<1>5. pcb_current = sched_pid[curr_process] /\ pcb_current \in pid_arr
  BY <1>4 DEF IInv, Running, CurrentAgrees, NoProcessLost
<1> QED
  BY <1>2, <1>3, <1>5 DEF IInv, ProgramCountExact, NoProcessLost

\* A step of the running phase that changes none of the process tables preserves what the
\* invariant says of them.
LEMMA TablesUnchanged ==
  ASSUME IInv, Running, cpu'.mode # "boot",
         UNCHANGED <<sched_pid, pid_arr, program_count, parent_pid>>
  PROVE  ProgramCountExact' /\ NoProcessLost' /\ BaseShells' /\ Running'
<1>1. ProgramCountExact'
  BY DEF IInv, ProgramCountExact
<1>2. NoProcessLost'
  BY DEF IInv, NoProcessLost, Scheduled, Waits
<1>3. BaseShells'
  BY DEF IInv, BaseShells
<1>4. Running'
  BY DEF Running
<1> QED
  BY <1>1, <1>2, <1>3, <1>4

\* execute_handler in its base-shell branch, called by the tick that follows the start of
\* the previous shell, starts the shell of the next terminal.
LEMMA BaseShellStarted ==
  ASSUME TypeOK, ProgramCountExact, BaseShells, FreshDescriptors,
         program_count < NUM_TERM, pid_arr = 1 .. program_count,
         \A t \in Terms : sched_pid[t] = IF t < program_count THEN t + 1 ELSE 0,
         NEW sched \in [Terms -> Int],
         \A t \in Terms \ {program_count} : sched[t] = sched_pid[t],
         NEW c \in [Pids -> Frames], \A p \in Pids : c[p].mode # "halt",
         NEW s \in Regions,
         execute_handler(sched, c, s),
         hlt' \in [Regions -> [fd : {0} \cup FDS, target : Frames]],
         curr_process' = program_count,
         UNCHANGED <<curr_terminal, fds, landed>>
  PROVE  IInv'
<1> DEFINE n == program_count
<1>1. n \in Nat /\ n < NUM_TERM /\ n < programMax /\ NUM_TERM \in Nat /\ programMax \in Nat
  BY ProcessesAssumption DEF TypeOK
<1>2. n \in Terms /\ n + 1 \in Pids /\ n + 1 \in Regions
  BY <1>1 DEF Terms, Pids, Regions
<1>3. PICK slot \in Pids :
        /\ FirstFree(slot)
        /\ ExecuteBase(sched, c, s)
        /\ page' = slot
        /\ esp0' = Top(slot)
  BY DEF execute_handler
<1>4. slot = n + 1
  <2>1. slot \in 1 .. programMax /\ slot \notin 1 .. n /\ 1 .. slot - 1 \subseteq 1 .. n
    BY <1>3 DEF FirstFree, Pids
  <2>2. slot > n
    BY <1>1, <2>1
  <2>3. slot - 1 = 0 \/ slot - 1 \in 1 .. slot - 1
    BY <2>1
  <2>4. slot - 1 <= n
    BY <1>1, <2>1, <2>3, SMTT(30)
  <2> QED BY <1>1, <2>1, <2>2, <2>4
<1>5. /\ parent_pid' = [parent_pid EXCEPT ![n + 1] = n + 1]
      /\ ctx' = [c EXCEPT ![n + 1] = ChildContext(s)]
      /\ pid_arr' = pid_arr \cup {n + 1}
      /\ sched_pid' = [sched EXCEPT ![n] = n + 1]
      /\ pcb_current' = n + 1
  BY <1>3 DEF ExecuteBase
<1>6. program_count' = n + 1
  <2>1. program_count' = (n + 1) % 256
    BY DEF execute_handler
  <2>2. n + 1 \in 0 .. 255
    BY <1>1, ProcessesAssumption
  <2> QED BY <2>1, <2>2, ByteNoWrap
<1>7. cpu' = [mode |-> "start", stk |-> s]
  BY DEF execute_handler
<1>8. pid_arr' = 1 .. n + 1
  BY <1>1, <1>5
<1>9. \A t \in Terms : sched_pid'[t] = IF t < n + 1 THEN t + 1 ELSE 0
  <2> TAKE t \in Terms
  <2>1. CASE t = n
    BY <1>1, <1>2, <1>5, <2>1
  <2>2. CASE t # n
    <3>1. sched_pid'[t] = sched_pid[t]
      BY <1>5, <2>2
    <3> QED BY <1>1, <2>2, <3>1 DEF Terms
  <2> QED BY <2>1, <2>2
<1>10. TypeOK'
  <2>1. sched_pid' \in [Terms -> 0 .. programMax]
    <3>1. \A t \in Terms : sched_pid'[t] \in 0 .. programMax
      BY <1>1, <1>9 DEF Terms
    <3> QED BY <1>5, <3>1
  <2>2. ctx' \in [Pids -> Frames]
    BY <1>5 DEF ChildContext, Frames, Modes
  <2>3. parent_pid' \in [Pids -> 0 .. programMax]
    BY <1>2, <1>5 DEF TypeOK, Pids
  <2>4. program_count' \in 0 .. 255 /\ curr_process' \in Terms
    BY <1>1, <1>2, <1>6, ProcessesAssumption
  <2>5. pid_arr' \subseteq Pids
    BY <1>2, <1>5 DEF TypeOK
  <2>6. pcb_current' \in 0 .. programMax /\ page' \in 0 .. programMax
    BY <1>2, <1>3, <1>5 DEF Pids
  <2>7. esp0' \in [stk : Regions, at : {"top", "mid"}]
    BY <1>2, <1>3, <1>4 DEF Top
  <2>8. cpu' \in [mode : Modes, stk : Regions]
    BY <1>7 DEF Modes
  <2>9. curr_terminal' \in Terms /\ fds' \in [Pids -> SUBSET FDS] /\ landed' \in BOOLEAN
    BY DEF TypeOK
  <2> QED BY <2>1, <2>2, <2>3, <2>4, <2>5, <2>6, <2>7, <2>8, <2>9 DEF TypeOK
<1>11. ProgramCountExact'
  <2>1. Cardinality(1 .. n + 1) = n + 1
    BY <1>1, FS_Interval
  <2> QED BY <1>6, <1>8, <2>1 DEF ProgramCountExact
<1>12. CurrentAgrees'
  BY <1>1, <1>2, <1>3, <1>4, <1>5, <1>9 DEF CurrentAgrees
<1>13. \A p \in pid_arr' : parent_pid'[p] = p
  <2>1. \A p \in pid_arr : parent_pid[p] = p
    BY <1>1 DEF BaseShells
  <2> QED BY <1>2, <1>5, <2>1, SMTT(30) DEF TypeOK
<1>14. NoProcessLost'
  <2>1. \A t \in Terms : sched_pid'[t] \in pid_arr' \cup {0}
    BY <1>1, <1>8, <1>9 DEF Terms
  <2>2. \A t, u \in Terms : sched_pid'[t] = sched_pid'[u] /\ sched_pid'[t] # 0 => t = u
    BY <1>1, <1>9 DEF Terms
  <2>3. \A p \in pid_arr' : Scheduled(p)'
    <3> TAKE p \in pid_arr'
    <3>1. p - 1 \in Terms /\ sched_pid'[p - 1] = p
      BY <1>1, <1>8, <1>9 DEF Terms
    <3> QED BY <3>1 DEF Scheduled
  <2>4. \A p \in pid_arr' : \A q \in Pids : ~ Waits(p, q)'
    BY <1>13 DEF Waits
  <2> QED BY <1>13, <2>1, <2>2, <2>3, <2>4 DEF NoProcessLost
<1>15. FreshDescriptors'
  BY <1>5 DEF FreshDescriptors
<1>16. NotInHalt'
  BY <1>2, <1>5, <1>7 DEF NotInHalt, ChildContext
<1>17. BaseShells'
  BY <1>1, <1>8, <1>13 DEF BaseShells
<1>18. CASE n + 1 < NUM_TERM
  BY <1>1, <1>6, <1>7, <1>8, <1>9, <1>18, <1>10, <1>11, <1>12, <1>14, <1>15, <1>16, <1>17
  DEF IInv, Starting
<1>19. CASE n + 1 = NUM_TERM
  <2>1. Running'
    BY <1>1, <1>7, <1>8, <1>9, <1>19 DEF Running, Terms
  <2> QED BY <2>1, <1>10, <1>11, <1>12, <1>14, <1>15, <1>16, <1>17 DEF IInv
<1> QED BY <1>1, <1>18, <1>19

\* The first tick starts the shell of terminal 0.
LEMMA TickBootStep ==
  ASSUME IInv, TickBoot
  PROVE  IInv'
<1> DEFINE sched == [sched_pid EXCEPT ![0] = 1]
<1>1. Booting
  BY DEF IInv, Starting, Running, TickBoot
<1>2. program_count = 0 /\ program_count < NUM_TERM /\ pid_arr = 1 .. program_count
  BY <1>1, ProcessesAssumption DEF Booting
<1>3. \A t \in Terms : sched_pid[t] = IF t < program_count THEN t + 1 ELSE 0
  BY <1>1, <1>2 DEF Booting, Terms
<1>4. sched \in [Terms -> Int]
  BY ProcessesAssumption DEF IInv, TypeOK, Terms
<1>5. \A t \in Terms \ {program_count} : sched[t] = sched_pid[t]
  BY <1>2 DEF IInv, TypeOK
<1>6. ctx \in [Pids -> Frames] /\ \A p \in Pids : ctx[p].mode # "halt"
  BY DEF IInv, TypeOK, NotInHalt
<1>7. 1 \in Regions
  BY ProcessesAssumption DEF Regions
<1>8. /\ execute_handler(sched, ctx, 1)
      /\ hlt' \in [Regions -> [fd : {0} \cup FDS, target : Frames]]
      /\ curr_process' = program_count
      /\ UNCHANGED <<curr_terminal, fds, landed>>
  BY <1>1, <1>2 DEF TickBoot, IInv, TypeOK, Booting
<1> HIDE DEF sched
<1> QED
  BY <1>2, <1>3, <1>4, <1>5, <1>6, <1>7, <1>8, BaseShellStarted DEF IInv

\* The saved contexts of a tick are frames, none of them of halt.
LEMMA SavedFrames ==
  ASSUME IInv
  PROVE  /\ Saved \in [Pids -> Frames]
         /\ \A p \in Pids : Saved[p].mode # "halt"
<1>1. EnteredAll \in [Pids -> Frames] /\ \A p \in Pids : EnteredAll[p].mode # "halt"
  BY EnteredFrames DEF IInv, NotInHalt
<1>2. SavedFrame \in Frames /\ SavedFrame.mode # "halt"
  BY EntryStackType DEF IInv, TypeOK, NotInHalt, SavedFrame, Frames
<1> QED
  BY <1>1, <1>2 DEF Saved

\* A tick that finds a terminal without a process is one of the start-up sequence, and
\* starts the next shell.
LEMMA TickStartStep ==
  ASSUME IInv, TickStart
  PROVE  IInv'
<1> DEFINE pid == sched_pid[curr_process] + 1
           sched == [sched_pid EXCEPT ![next_process] = pid]
           c == [q \in Pids |-> Clobbered(Saved[q], StartStack(pid))]
<1>0. NUM_TERM \in Nat /\ NUM_TERM > 0 /\ programMax \in Nat /\ NUM_TERM < programMax
  BY ProcessesAssumption
<1>1. next_process \in Terms /\ sched_pid[next_process] = 0
  BY NextTerminal DEF IInv, TickStart
<1>2. Starting
  BY <1>1 DEF IInv, Booting, Running, TickStart
<1>3. program_count \in Nat /\ program_count > 0 /\ program_count < NUM_TERM
  BY <1>0, <1>2 DEF Starting
<1>4. next_process = program_count
  BY <1>0, <1>2, <1>3, NextTerminal DEF Starting, IInv
<1>5. pid = program_count + 1
  <2>1. curr_process \in Terms /\ curr_process = program_count - 1
    BY <1>2 DEF Starting, IInv, TypeOK
  <2>2. sched_pid[curr_process] = IF curr_process < program_count THEN curr_process + 1 ELSE 0
    BY <1>2, <2>1 DEF Starting
  <2> QED BY <1>3, <2>1, <2>2
<1>6. sched \in [Terms -> Int] /\ \A t \in Terms \ {program_count} : sched[t] = sched_pid[t]
  BY <1>1, <1>3, <1>4, <1>5 DEF IInv, TypeOK
<1>7. c \in [Pids -> Frames] /\ \A p \in Pids : c[p].mode # "halt"
  <2>1. \A f \in Frames : \A r : Clobbered(f, r) \in Frames /\ Clobbered(f, r).mode = f.mode
    BY DEF Clobbered, Frames
  <2> QED BY <2>1, SavedFrames
<1>8. StartStack(pid) \in Regions
  BY <1>0, <1>3, <1>5 DEF StartStack, Regions
<1>9. /\ execute_handler(sched, c, StartStack(pid))
      /\ curr_process' = program_count
      /\ UNCHANGED <<curr_terminal, fds, landed>>
  BY <1>4 DEF TickStart
<1>10. hlt' \in [Regions -> [fd : {0} \cup FDS, target : Frames]]
  BY EnteredFrames DEF IInv, TickStart
<1>11. /\ pid_arr = 1 .. program_count
       /\ \A t \in Terms : sched_pid[t] = IF t < program_count THEN t + 1 ELSE 0
  BY <1>2 DEF Starting
<1> HIDE DEF sched, c
<1> QED
  BY <1>3, <1>6, <1>7, <1>8, <1>9, <1>10, <1>11, BaseShellStarted DEF IInv

\* A tick that resumes the next terminal's process makes that process the current one.
LEMMA TickSwitchStep ==
  ASSUME IInv, TickSwitch
  PROVE  IInv'
<1> DEFINE p == sched_pid[next_process]
<1>1. next_process \in Terms
  BY NextTerminal DEF IInv
<1>2. Running
  <2>1. ~ Booting
    BY DEF TickSwitch, Booting
  <2>2. ~ Starting
    <3> SUFFICES ASSUME Starting PROVE FALSE
      OBVIOUS
    <3>1. NUM_TERM \in Nat /\ program_count \in 1 .. NUM_TERM - 1 /\ curr_process = program_count - 1
      BY ProcessesAssumption DEF Starting
    <3>2. next_process = program_count
      BY <3>1, NextTerminal DEF IInv
    <3>3. sched_pid[next_process] = 0
      BY <1>1, <3>1, <3>2 DEF Starting
    <3> QED BY <3>3 DEF TickSwitch
  <2> QED BY <2>1, <2>2 DEF IInv
<1>3. p \in pid_arr /\ p \in Pids
  BY <1>1 DEF IInv, NoProcessLost, TickSwitch, TypeOK
<1>4. cpu' \in Resumed(Saved[p]) /\ ctx' = Saved /\ pcb_current' = p /\ page' = p
      /\ esp0' = Top(p) /\ curr_process' = next_process
      /\ UNCHANGED <<sched_pid, curr_terminal, pid_arr, program_count, parent_pid, fds>>
  BY DEF TickSwitch, SwitchStack, Return
<1>5. cpu' \in [mode : Modes, stk : Regions] /\ cpu'.mode \in {"user", "read", "fault"}
  BY <1>3, <1>4, SavedFrames, ResumedModes
<1>6. ProgramCountExact' /\ NoProcessLost' /\ BaseShells' /\ Running'
  BY <1>2, <1>4, <1>5, TablesUnchanged
<1>7. TypeOK'
  <2>1. p \in Regions /\ p \in 0 .. programMax
    BY <1>3, ProcessesAssumption DEF Pids, Regions
  <2>2. esp0' \in [stk : Regions, at : {"top", "mid"}]
    BY <1>4, <2>1 DEF Top
  <2>3. hlt' \in [Regions -> [fd : {0} \cup FDS, target : Frames]]
    BY EnteredFrames DEF IInv, TickSwitch
  <2>4. landed' \in BOOLEAN
    BY ReturnType DEF TickSwitch
  <2> QED
    BY <1>1, <1>4, <1>5, <2>1, <2>2, <2>3, <2>4, SavedFrames DEF IInv, TypeOK
<1>8. CurrentAgrees'
  BY <1>4 DEF CurrentAgrees
<1>9. FreshDescriptors'
  BY <1>4 DEF IInv, FreshDescriptors
<1>10. NotInHalt'
  BY <1>4, <1>5, SavedFrames DEF NotInHalt
<1> QED
  BY <1>6, <1>7, <1>8, <1>9, <1>10 DEF IInv

\* execute puts a new process in the place of its caller on the caller's terminal.
LEMMA ExecuteStep ==
  ASSUME Ordinary, IInv, Execute
  PROVE  IInv'
<1> DEFINE x == pcb_current
<1>1. Running
  BY DEF IInv, Booting, Starting, Execute
<1>2. cpu.mode = "user" /\ curr_terminal = curr_process /\ curr_process \in Terms
  BY DEF Ordinary, Execute, IInv, TypeOK
<1>3. /\ program_count >= NUM_TERM
      /\ x = sched_pid[curr_process] /\ x \in pid_arr
  BY <1>1, <1>2, RunningFacts
<1>4. PICK slot \in Pids :
        /\ FirstFree(slot)
        /\ ExecuteProgram(slot, sched_pid, EnteredAll, EntryStack)
        /\ page' = slot
        /\ esp0' = Top(slot)
  <2>1. ~ (program_count < NUM_TERM)
    BY <1>3, ProcessesAssumption DEF IInv, TypeOK
  <2> QED BY <2>1 DEF Execute, execute_handler
<1>5. slot \notin pid_arr /\ slot > NUM_TERM /\ slot # x
  BY <1>1, <1>3, <1>4, ProcessesAssumption DEF FirstFree, Running, Pids
<1>6. /\ parent_pid' = [parent_pid EXCEPT ![slot] = x]
      /\ ctx' = [EnteredAll EXCEPT ![slot] = ChildContext(EntryStack)]
      /\ pid_arr' = pid_arr \cup {slot}
      /\ sched_pid' = [sched_pid EXCEPT ![curr_process] = slot]
      /\ pcb_current' = slot
  BY <1>2, <1>4 DEF ExecuteProgram, execute_slot
<1>7. /\ program_count' = (program_count + 1) % 256
      /\ program_count < programMax
      /\ cpu' = [mode |-> "start", stk |-> EntryStack]
      /\ hlt' = HltEntered
      /\ UNCHANGED <<curr_process, curr_terminal, fds, landed>>
  BY DEF Execute, execute_handler
<1>8. program_count' = program_count + 1 /\ program_count' \in 0 .. 255
  <2>1. program_count + 1 \in 0 .. 255
    BY <1>7, ProcessesAssumption DEF IInv, TypeOK
  <2> QED BY <1>7, <2>1, ByteNoWrap
<1>9. /\ sched_pid \in [Terms -> 0 .. programMax]
      /\ parent_pid \in [Pids -> 0 .. programMax]
      /\ pid_arr \subseteq Pids
  BY DEF IInv, TypeOK
<1>10. TypeOK'
  <2>1. slot \in 0 .. programMax /\ slot \in Regions /\ x \in 0 .. programMax
    BY <1>3, <1>4, <1>9, ProcessesAssumption DEF Pids, Regions
  <2>2. ctx' \in [Pids -> Frames]
    BY <1>6, EnteredFrames, EntryStackType DEF IInv, ChildContext, Frames, Modes
  <2>3. hlt' \in [Regions -> [fd : {0} \cup FDS, target : Frames]]
    BY <1>7, EnteredFrames DEF IInv
  <2>4. cpu' \in [mode : Modes, stk : Regions]
    BY <1>7, EntryStackType DEF IInv, Modes
  <2>5. esp0' \in [stk : Regions, at : {"top", "mid"}]
    BY <1>4, <2>1 DEF Top
  <2>6. sched_pid' \in [Terms -> 0 .. programMax] /\ parent_pid' \in [Pids -> 0 .. programMax]
    BY <1>6, <1>9, <2>1
  <2>7. pid_arr' \subseteq Pids /\ pcb_current' \in 0 .. programMax /\ page' \in 0 .. programMax
    BY <1>4, <1>6, <1>9, <2>1
  <2> QED
    BY <1>7, <1>8, <2>2, <2>3, <2>4, <2>5, <2>6, <2>7 DEF IInv, TypeOK
<1>11. ProgramCountExact'
  <2>1. Cardinality(pid_arr \cup {slot}) = Cardinality(pid_arr) + 1
    BY <1>5, PidsFinite, FS_AddElement DEF IInv
  <2> QED BY <1>6, <1>8, <2>1 DEF IInv, ProgramCountExact
<1>12. CurrentAgrees'
  BY <1>2, <1>4, <1>6, <1>7, <1>9 DEF CurrentAgrees
<1>13. NoProcessLost'
  <2>1. /\ \A t \in Terms : sched_pid[t] \in pid_arr \cup {0}
        /\ \A t, u \in Terms : sched_pid[t] = sched_pid[u] /\ sched_pid[t] # 0 => t = u
        /\ \A p \in pid_arr : Scheduled(p) <=> ~ \E c \in Pids : Waits(p, c)
        /\ \A p \in pid_arr : \A c, d \in Pids : Waits(p, c) /\ Waits(p, d) => c = d
        /\ \A p \in pid_arr : parent_pid[p] \in pid_arr
    BY DEF IInv, NoProcessLost
  <2>2. \A t \in Terms : sched_pid'[t] = IF t = curr_process THEN slot ELSE sched_pid[t]
    BY <1>6, <1>9
  <2>3. \A p \in Pids : parent_pid'[p] = IF p = slot THEN x ELSE parent_pid[p]
    BY <1>6, <1>9
  <2>4. slot # 0 /\ 0 \notin pid_arr
    BY <1>4, <1>9 DEF Pids
  <2>5. \A p \in pid_arr', c \in Pids : Waits(p, c)' <=> Waits(p, c) \/ (p = x /\ c = slot)
    BY <1>5, <1>6, <1>9, <2>1, <2>3 DEF Waits
  <2>6. \A p \in pid_arr : Scheduled(p)' <=> Scheduled(p) /\ p # x
    BY <1>2, <1>3, <1>5, <1>6, <2>1, <2>2, <2>4 DEF Scheduled
  <2>7. Scheduled(slot)' /\ \A c \in Pids : ~ Waits(slot, c)
    BY <1>2, <1>5, <1>9, <2>1, <2>2 DEF Scheduled, Waits
  <2>8. \A c \in Pids : ~ Waits(x, c)
    BY <1>2, <1>3, <2>1 DEF Scheduled
  <2>9. \A t \in Terms : sched_pid'[t] \in pid_arr' \cup {0}
    BY <1>6, <2>1, <2>2
  <2>10. \A t, u \in Terms : sched_pid'[t] = sched_pid'[u] /\ sched_pid'[t] # 0 => t = u
    BY <1>5, <2>1, <2>2, <2>4
  <2>11. \A p \in pid_arr' : Scheduled(p)' <=> ~ \E c \in Pids : Waits(p, c)'
    <3> TAKE p \in pid_arr'
    <3>1. CASE p = slot
      BY <1>5, <2>5, <2>7, <3>1
    <3>2. CASE p = x
      BY <1>3, <2>5, <2>6, <3>2
    <3>3. CASE p \in pid_arr /\ p # x
      BY <1>5, <2>1, <2>5, <2>6, <3>3
    <3> QED BY <1>6, <3>1, <3>2, <3>3
  <2>12. \A p \in pid_arr' : \A c, d \in Pids : Waits(p, c)' /\ Waits(p, d)' => c = d
    BY <1>5, <1>6, <2>1, <2>5, <2>7, <2>8
  <2>13. \A p \in pid_arr' : parent_pid'[p] \in pid_arr'
    BY <1>3, <1>5, <1>6, <1>9, <2>1, <2>3
  <2> QED
    BY <2>9, <2>10, <2>11, <2>12, <2>13 DEF NoProcessLost
<1>14. FreshDescriptors'
  BY <1>6, <1>7 DEF IInv, FreshDescriptors
<1>15. NotInHalt'
  BY <1>6, <1>7, EnteredFrames DEF IInv, NotInHalt, ChildContext
<1>16. BaseShells'
  <2>1. parent_pid'[slot] = x /\ ~ (slot <= NUM_TERM)
    BY <1>4, <1>5, <1>6, <1>9, ProcessesAssumption DEF Pids
  <2>2. \A p \in pid_arr : parent_pid'[p] = parent_pid[p]
    BY <1>5, <1>6, <1>9
  <2> QED BY <1>5, <1>6, <2>1, <2>2 DEF IInv, BaseShells
<1>17. Running'
  <2>1. slot # 0
    BY <1>4 DEF Pids
  <2> QED BY <1>1, <1>6, <1>7, <1>9, <2>1 DEF Running
<1> QED
  BY <1>10, <1>11, <1>12, <1>13, <1>14, <1>15, <1>16, <1>17 DEF IInv

\* halt gives the terminal of the dying process back to its parent.
LEMMA HaltStep ==
  ASSUME Ordinary, IInv, Halt
  PROVE  IInv'
<1> DEFINE x == pcb_current
           parent == parent_pid[x]
<1>1. Running
  BY DEF IInv, Booting, Starting, Halt
<1>2. cpu.mode = "user" /\ curr_process \in Terms /\ x > NUM_TERM
  BY DEF Halt, IInv, TypeOK
<1>3. x = sched_pid[curr_process] /\ x \in pid_arr /\ parent \in pid_arr
  BY <1>1, <1>2, RunningFacts
<1>4. /\ sched_pid \in [Terms -> 0 .. programMax]
      /\ pid_arr \subseteq Pids
      /\ ctx \in [Pids -> Frames]
      /\ fds \in [Pids -> SUBSET FDS]
  BY DEF IInv, TypeOK
<1>5. parent # x
  BY <1>2, <1>3, <1>4, ProcessesAssumption DEF IInv, BaseShells, Pids
<1>6. /\ pid_arr' = pid_arr \ {x}
      /\ sched_pid' = [sched_pid EXCEPT ![curr_process] = parent]
      /\ program_count' = (program_count - 1) % 256
      /\ page' = parent
      /\ esp0' = [stk |-> ctx[parent].stk, at |-> "mid"]
      /\ cpu' \in Resumed(Entered(ctx[parent]))
      /\ pcb_current' = parent
      /\ fds' = [fds EXCEPT ![x] = fds[x] \ FDS]
      /\ ctx' = EnteredAll
      /\ hlt' = HltEntered
      /\ UNCHANGED <<curr_process, curr_terminal, parent_pid>>
  BY DEF Halt, HaltBookkeeping, halt_slot, ProgramsLeft, HaltCloses, Return
<1>7. cpu' \in [mode : Modes, stk : Regions] /\ cpu'.mode \in {"user", "read", "fault"}
  <2>1. Entered(ctx[parent]) = EnteredAll[parent]
    BY <1>3, <1>4 DEF EnteredAll
  <2>2. EnteredAll[parent] \in Frames /\ EnteredAll[parent].mode # "halt"
    BY <1>3, <1>4, EnteredFrames DEF IInv, NotInHalt
  <2> QED BY <1>6, <2>1, <2>2, ResumedModes
<1>8. program_count' = program_count - 1 /\ program_count' \in 0 .. 255
  <2>1. IsFiniteSet(pid_arr) /\ Cardinality(pid_arr) # 0
    BY <1>3, PidsFinite, FS_EmptySet DEF IInv
  <2>2. program_count - 1 \in 0 .. 255
    BY <2>1 DEF IInv, TypeOK, ProgramCountExact
  <2> QED BY <1>6, <2>2, ByteNoWrap
<1>9. TypeOK'
  <2>1. parent \in 0 .. programMax
    <3>1. parent \in Pids
      BY <1>3, <1>4
    <3> QED BY <3>1, ProcessesAssumption DEF Pids
  <2>2. ctx' \in [Pids -> Frames] /\ hlt' \in [Regions -> [fd : {0} \cup FDS, target : Frames]]
    BY <1>6, EnteredFrames DEF IInv
  <2>3. esp0' \in [stk : Regions, at : {"top", "mid"}]
    BY <1>3, <1>4, <1>6 DEF Frames
  <2>4. fds' \in [Pids -> SUBSET FDS] /\ sched_pid' \in [Terms -> 0 .. programMax]
    BY <1>4, <1>6, <2>1
  <2>5. landed' \in BOOLEAN
    BY ReturnType DEF Halt
  <2> QED
    BY <1>4, <1>6, <1>7, <1>8, <2>1, <2>2, <2>3, <2>4, <2>5 DEF IInv, TypeOK
<1>10. ProgramCountExact'
  <2>1. Cardinality(pid_arr \ {x}) = Cardinality(pid_arr) - 1
    BY <1>3, PidsFinite, FS_RemoveElement DEF IInv
  <2> QED BY <1>6, <1>8, <2>1 DEF IInv, ProgramCountExact
<1>11. CurrentAgrees'
  BY <1>2, <1>4, <1>6 DEF CurrentAgrees
<1>12. NoProcessLost'
  <2>1. /\ \A t \in Terms : sched_pid[t] \in pid_arr \cup {0}
        /\ \A t, u \in Terms : sched_pid[t] = sched_pid[u] /\ sched_pid[t] # 0 => t = u
        /\ \A p \in pid_arr : Scheduled(p) <=> ~ \E c \in Pids : Waits(p, c)
        /\ \A p \in pid_arr : \A c, d \in Pids : Waits(p, c) /\ Waits(p, d) => c = d
        /\ \A p \in pid_arr : parent_pid[p] \in pid_arr
    BY DEF IInv, NoProcessLost
  <2>2. \A t \in Terms : sched_pid'[t] = IF t = curr_process THEN parent ELSE sched_pid[t]
    BY <1>4, <1>6
  <2>3. x # 0 /\ parent # 0
    BY <1>3, <1>4 DEF Pids
  <2>4. Waits(parent, x) /\ \A c \in Pids : ~ Waits(x, c)
    BY <1>2, <1>3, <1>5, <2>1 DEF Waits, Scheduled
  <2>5. \A p \in pid_arr', c \in Pids : Waits(p, c)' <=> Waits(p, c) /\ c # x
    BY <1>6 DEF Waits
  <2>6. ~ Scheduled(parent)
    BY <1>3, <1>4, <2>1, <2>4
  <2>7. \A p \in pid_arr' : Scheduled(p)' <=> Scheduled(p) \/ p = parent
    BY <1>2, <1>3, <1>6, <2>1, <2>2, <2>3 DEF Scheduled
  <2>8. \A t \in Terms : sched_pid'[t] \in pid_arr' \cup {0}
    BY <1>2, <1>3, <1>5, <1>6, <2>1, <2>2, <2>3
  <2>9. \A t, u \in Terms : sched_pid'[t] = sched_pid'[u] /\ sched_pid'[t] # 0 => t = u
    BY <2>1, <2>2, <2>6 DEF Scheduled
  <2>10. \A p \in pid_arr' : Scheduled(p)' <=> ~ \E c \in Pids : Waits(p, c)'
    <3> TAKE p \in pid_arr'
    <3>1. CASE p = parent
      BY <1>3, <1>4, <2>1, <2>4, <2>5, <2>7, <3>1
    <3>2. CASE p # parent
      <4>1. ~ Waits(p, x)
        BY <3>2 DEF Waits
      <4> QED BY <1>6, <2>1, <2>5, <2>7, <3>2, <4>1
    <3> QED BY <3>1, <3>2
  <2>11. \A p \in pid_arr' : \A c, d \in Pids : Waits(p, c)' /\ Waits(p, d)' => c = d
    BY <1>6, <2>1, <2>5
  <2>12. \A p \in pid_arr' : parent_pid'[p] \in pid_arr'
    BY <1>4, <1>6, <2>1, <2>4 DEF Waits
  <2> QED
    BY <2>8, <2>9, <2>10, <2>11, <2>12 DEF NoProcessLost
<1>13. FreshDescriptors'
  <2>1. fds'[x] = {}
    BY <1>3, <1>4, <1>6
  <2>2. \A p \in Pids \ {x} : fds'[p] = fds[p]
    BY <1>4, <1>6
  <2> QED BY <1>6, <2>1, <2>2 DEF IInv, FreshDescriptors
<1>14. NotInHalt'
  BY <1>6, <1>7, EnteredFrames DEF IInv, NotInHalt
<1>15. BaseShells'
  BY <1>6 DEF IInv, BaseShells
<1>16. Running'
  <2>1. x \notin 1 .. NUM_TERM /\ parent # 0
    BY <1>2, <1>3, <1>4, ProcessesAssumption DEF Pids
  <2> QED BY <1>1, <1>4, <1>6, <1>7, <2>1 DEF Running
<1> QED
  BY <1>9, <1>10, <1>11, <1>12, <1>13, <1>14, <1>15, <1>16 DEF IInv

\* A step that touches neither the process tables nor the current process, nor the
\* descriptors of a free slot, preserves the invariant.
LEMMA QuietStep ==
  ASSUME IInv,
         UNCHANGED <<sched_pid, curr_process, pid_arr, program_count, pcb_current, page, esp0,
                     parent_pid, landed>>,
         curr_terminal' \in Terms,
         cpu' = cpu \/ ( /\ cpu.mode \in {"user", "read"} /\ cpu'.mode \in {"user", "read"}
                        /\ cpu' \in [mode : Modes, stk : Regions] ),
         ctx' \in [Pids -> Frames], \A p \in Pids : ctx'[p].mode # "halt",
         hlt' \in [Regions -> [fd : {0} \cup FDS, target : Frames]],
         fds' \in [Pids -> SUBSET FDS], \A p \in Pids \ pid_arr : fds'[p] = fds[p]
  PROVE  IInv'
<1>1. TypeOK'
  BY DEF IInv, TypeOK
<1>2. ProgramCountExact' /\ BaseShells'
  BY DEF IInv, ProgramCountExact, BaseShells
<1>3. NoProcessLost'
  BY DEF IInv, NoProcessLost, Scheduled, Waits
<1>4. CurrentAgrees'
  BY DEF IInv, CurrentAgrees
<1>5. FreshDescriptors'
  BY DEF IInv, FreshDescriptors
<1>6. NotInHalt'
  BY DEF IInv, NotInHalt
<1>7. (Booting \/ Starting \/ Running)'
  <2>1. CASE Booting
    BY <2>1 DEF Booting
  <2>2. CASE Starting
    BY <2>2 DEF Starting
  <2>3. CASE Running
    BY <2>3 DEF Running
  <2> QED BY <2>1, <2>2, <2>3 DEF IInv
<1> QED
  BY <1>1, <1>2, <1>3, <1>4, <1>5, <1>6, <1>7 DEF IInv

\* The other system calls and interrupts are quiet steps.
LEMMA OtherSteps ==
  ASSUME IInv,
         KernelVisit \/ Open \/ Close \/ ReadBegin \/ ReadEnd \/ terminal_switch \/ Exception
  PROVE  IInv'
<1>1. /\ EnteredAll \in [Pids -> Frames] /\ \A p \in Pids : EnteredAll[p].mode # "halt"
      /\ HltEntered \in [Regions -> [fd : {0} \cup FDS, target : Frames]]
  BY EnteredFrames DEF IInv, NotInHalt
<1>2. /\ ctx \in [Pids -> Frames] /\ \A p \in Pids : ctx[p].mode # "halt"
      /\ hlt \in [Regions -> [fd : {0} \cup FDS, target : Frames]]
      /\ fds \in [Pids -> SUBSET FDS]
      /\ curr_terminal \in Terms
      /\ esp0.stk \in Regions
  BY DEF IInv, TypeOK, NotInHalt
<1>3. cpu.mode = "user" => pcb_current \in pid_arr
  <2>1. cpu.mode = "user" => Running
    BY DEF IInv, Booting, Starting
  <2> QED BY <2>1, RunningFacts
<1>4. CASE KernelVisit
  BY <1>1, <1>2, <1>4, QuietStep DEF KernelVisit
<1>5. CASE Open
  <2>1. /\ fds' \in [Pids -> SUBSET FDS]
        /\ \A p \in Pids \ pid_arr : fds'[p] = fds[p]
    BY <1>2, <1>3, <1>5 DEF Open
  <2> QED BY <1>1, <1>2, <1>5, <2>1, QuietStep DEF Open
<1>6. CASE Close
  <2>1. /\ fds' \in [Pids -> SUBSET FDS]
        /\ \A p \in Pids \ pid_arr : fds'[p] = fds[p]
    BY <1>2, <1>3, <1>6 DEF Close
  <2> QED BY <1>1, <1>2, <1>6, <2>1, QuietStep DEF Close
<1>7. CASE ReadBegin
  <2>1. /\ cpu.mode = "user" /\ cpu'.mode = "read"
        /\ cpu' \in [mode : Modes, stk : Regions]
    BY <1>2, <1>7 DEF ReadBegin, Modes
  <2> QED BY <1>1, <1>2, <1>7, <2>1, QuietStep DEF ReadBegin
<1>8. CASE ReadEnd
  <2>1. /\ cpu.mode = "read" /\ cpu'.mode = "user"
        /\ cpu' \in [mode : Modes, stk : Regions]
    BY <1>8, ProcessesAssumption DEF ReadEnd, User, Modes, Regions
  <2> QED BY <1>2, <1>8, <2>1, QuietStep DEF ReadEnd
<1>9. CASE terminal_switch
  <2>1. curr_terminal' \in Terms
    BY <1>9 DEF terminal_switch
  <2> QED BY <1>1, <1>2, <1>9, <2>1, QuietStep DEF terminal_switch
<1>10. CASE Exception
  BY <1>2, <1>10, QuietStep DEF Exception, vars
<1> QED
  BY <1>4, <1>5, <1>6, <1>7, <1>8, <1>9, <1>10

\* Every step preserves the invariant.
LEMMA NextIInv ==
  ASSUME Ordinary, IInv, [Next]_vars
  PROVE  IInv'
<1>1. CASE pit_interrupt_handler
  BY <1>1, TickBootStep, TickStartStep, TickSwitchStep DEF pit_interrupt_handler
<1>2. CASE Execute
  BY <1>2, ExecuteStep
<1>3. CASE Halt
  BY <1>3, HaltStep
<1>4. CASE KernelVisit \/ Open \/ Close \/ ReadBegin \/ ReadEnd \/ terminal_switch \/ Exception
  BY <1>4, OtherSteps
<1>5. CASE UNCHANGED vars
  <2>1. ctx' \in [Pids -> Frames] /\ \A p \in Pids : ctx'[p].mode # "halt"
    BY <1>5 DEF IInv, TypeOK, NotInHalt, vars
  <2>2. /\ hlt' \in [Regions -> [fd : {0} \cup FDS, target : Frames]]
        /\ fds' \in [Pids -> SUBSET FDS]
        /\ curr_terminal' \in Terms
    BY <1>5 DEF IInv, TypeOK, vars
  <2> QED BY <1>5, <2>1, <2>2, QuietStep DEF vars
<1> QED
  BY <1>1, <1>2, <1>3, <1>4, <1>5 DEF Next

\* The inductive invariant holds throughout every ordinary execution of the kernel.
THEOREM Invariance ==
  ASSUME Ordinary
  PROVE  Spec => []IInv
<1>1. Init => IInv
  BY InitIInv
<1>2. IInv /\ [Next]_vars => IInv'
  BY NextIInv
<1> QED
  BY <1>1, <1>2, PTL DEF Spec

\* No step indexes an array outside its bounds, whatever the number of terminals and slots.
THEOREM TypeCorrect ==
  ASSUME Ordinary
  PROVE  Spec => []TypeOK
<1>1. IInv => TypeOK
  BY DEF IInv
<1> QED
  BY <1>1, Invariance, PTL

\* program_count is the number of used entries of pid_arr.
THEOREM CountCorrect ==
  ASSUME Ordinary
  PROVE  Spec => []ProgramCountExact
<1>1. IInv => ProgramCountExact
  BY DEF IInv
<1> QED
  BY <1>1, Invariance, PTL

\* pcb_current, the mapped page and sched_pid[curr_process] name the same process.
THEOREM CurrentCorrect ==
  ASSUME Ordinary
  PROVE  Spec => []CurrentAgrees
<1>1. IInv => CurrentAgrees
  BY DEF IInv
<1> QED
  BY <1>1, Invariance, PTL

\* execute and halt neither lose a live process nor schedule one twice.
THEOREM ChainsCorrect ==
  ASSUME Ordinary
  PROVE  Spec => []NoProcessLost
<1>1. IInv => NoProcessLost
  BY DEF IInv
<1> QED
  BY <1>1, Invariance, PTL

\* A new process starts with no descriptor of an earlier process of its slot.
THEOREM DescriptorsCorrect ==
  ASSUME Ordinary
  PROVE  Spec => []FreshDescriptors
<1>1. IInv => FreshDescriptors
  BY DEF IInv
<1> QED
  BY <1>1, Invariance, PTL

-----------------------------------------------------------------------------
(***************************************************************************)
(* Saved contexts.  A shell starts on the region after its own, and its    *)
(* context stays there until its first quantum ends.  anc[p] are p and the *)
(* processes that wait for it, directly or not: the regions on which its   *)
(* contexts lie, and on which no other terminal's process runs.            *)
(***************************************************************************)

\* A context the scheduler can resume, on one of the regions S.
Intact(f, S) == f.ok /\ f.mode \in {"start", "user", "read"} /\ f.stk \in S

\* The region on which the scheduler starts shell p, and its context after that.
StartRegion(p) == IF p = 1 THEN 1 ELSE p + 1
StartFrame(p) == [mode |-> "start", stk |-> StartRegion(p), ok |-> TRUE]

\* In the contexts c, that of shell p still lies on the region after its own.
AwayIn(c, p) == p \in 2 .. NUM_TERM /\ c[p].ok /\ c[p].stk = p + 1
Away(p) == AwayIn(ctx, p)

\* anc gives each live process its chain; those of two terminals are disjoint.
Ancestry(anc) ==
  /\ anc \in [Pids -> SUBSET Pids]
  /\ \A p \in pid_arr : p \in anc[p] /\ anc[p] \subseteq pid_arr
  /\ \A p \in pid_arr : anc[p] = {p} \cup anc[parent_pid[p]]
  /\ \A p \in 1 .. NUM_TERM : anc[p] = {p}
  /\ \A p \in pid_arr : \A q \in anc[p] \ {p} : \E c \in anc[p] : Waits(q, c)
  /\ \A t, u \in Terms : t # u => anc[sched_pid[t]] \cap anc[sched_pid[u]] = {}
  /\ \A t \in Terms : t + 1 \in anc[sched_pid[t]]

\* The running process enters the kernel on its own chain, where all contexts lie but
\* those of shells that are away.
Homes(anc) ==
  /\ cpu.mode \in {"user", "read", "start"}
  /\ esp0.stk \in anc[pcb_current]
  /\ cpu.mode \in {"read", "start"} => cpu.stk \in anc[pcb_current]
  /\ \A p \in pid_arr : ctx[p].ok => ctx[p].stk \in anc[p] \/ Away(p)

Live(anc) == Running /\ Ancestry(anc) /\ Homes(anc)

\* Terminal t's process has an intact context on its chain.
Kept(anc, t) == Intact(ctx[sched_pid[t]], anc[sched_pid[t]])

\* The first rotation after start-up.  The terminals to come have just been started.  The
\* shell before the running one may be away only until the running one enters the kernel.
FirstRound(anc) ==
  /\ \A t \in Terms : t < curr_process => Kept(anc, t)
  /\ \A t \in Terms : t > curr_process => sched_pid[t] = t + 1 /\ ctx[t + 1] = StartFrame(t + 1)
  /\ cpu.mode \in {"user", "read"} => pcb_current = curr_process + 1
  /\ esp0 = Top(pcb_current)
  /\ \A q \in Pids : Away(q) => q >= curr_process /\ (q = curr_process => cpu.mode = "user")
  /\ \/ pid_arr \subseteq 1 .. NUM_TERM
     \/ \E u \in 0 .. curr_process :
          /\ sched_pid[u] = NUM_TERM + 1
          /\ u # curr_process => ctx[NUM_TERM + 1].mode = "start"
          /\ u = curr_process => cpu.mode = "start"

\* The other rotations.  Only the last shell may still be away, and then the process on
\* whose region its context lies has not entered the kernel yet.
LaterRound(anc) ==
  /\ \A t \in Terms \ {curr_process} : Kept(anc, t)
  /\ \A q \in Pids : Away(q) => q = NUM_TERM
  /\ Away(NUM_TERM) =>
       \E u \in curr_process .. NUM_TERM - 1 :
          /\ sched_pid[u] = NUM_TERM + 1
          /\ u # curr_process => ctx[NUM_TERM + 1].mode = "start"
          /\ u = curr_process => cpu.mode = "user" /\ esp0 = Top(NUM_TERM + 1)

\* The shells are being started, or all of them have been and no tick has come since.
Launching ==
  /\ cpu.mode = "start"
  /\ cpu.stk = StartRegion(program_count)
  /\ program_count \in 1 .. NUM_TERM
  /\ pid_arr = 1 .. program_count
  /\ curr_process = program_count - 1
  /\ \A t \in Terms : sched_pid[t] = IF t < program_count THEN t + 1 ELSE 0
  /\ \A p \in 1 .. program_count - 1 : ctx[p] = StartFrame(p)

Rotating(anc) == Live(anc) /\ (FirstRound(anc) \/ LaterRound(anc))

\* The inductive invariant for saved contexts, with IInv.
ContextInv ==
  \/ cpu.mode = "boot"
  \/ cpu.mode = "fault" /\ SuspendedResumable
  \/ Launching
  \/ \E anc \in [Pids -> SUBSET Pids] : Rotating(anc)

\* What a kernel entry does to a saved context.
LEMMA EntryEffect ==
  ASSUME IInv, NEW p \in Pids
  PROVE  /\ EnteredAll[p].mode = ctx[p].mode
         /\ EnteredAll[p].stk = ctx[p].stk
         /\ EnteredAll[p].ok => ctx[p].ok
         /\ ~ (cpu.mode = "user" /\ esp0.at = "top" /\ ctx[p].stk = esp0.stk) => EnteredAll[p] = ctx[p]
         /\ cpu.mode = "user" /\ esp0.at = "top" /\ ctx[p].stk = esp0.stk => ~ EnteredAll[p].ok
<1>1. ctx[p] \in Frames
  BY DEF IInv, TypeOK
<1>2. EnteredAll[p] = Entered(ctx[p])
  BY DEF EnteredAll
<1> QED
  BY <1>1, <1>2 DEF Entered, Clobbered, Frames

\* The current process and its chain.
LEMMA LiveFacts ==
  ASSUME IInv, NEW anc, Live(anc)
  PROVE  /\ curr_process \in Terms
         /\ pcb_current = sched_pid[curr_process]
         /\ \A t \in Terms : sched_pid[t] \in pid_arr /\ sched_pid[t] \in Pids
         /\ \A t, u \in Terms : sched_pid[t] = sched_pid[u] => t = u
         /\ EntryStack \in anc[pcb_current]
<1>1. Running /\ Homes(anc)
  BY DEF Live
<1>2. cpu.mode # "halt" /\ EntryStack \in anc[pcb_current]
  BY <1>1 DEF Homes, EntryStack
<1>3. curr_process \in Terms /\ pid_arr \subseteq Pids
  BY DEF IInv, TypeOK
<1>4. \A t \in Terms : sched_pid[t] \in pid_arr
  BY <1>1 DEF IInv, NoProcessLost, Running
<1>5. \A t, u \in Terms : sched_pid[t] = sched_pid[u] => t = u
  BY <1>1 DEF IInv, NoProcessLost, Running
<1> QED
  BY <1>1, <1>2, <1>3, <1>4, <1>5, RunningFacts

\* An entry spares the contexts of the other terminals that lie on their own chains.
LEMMA EntrySpares ==
  ASSUME IInv, NEW anc, Live(anc), NEW t \in Terms \ {curr_process}, Kept(anc, t)
  PROVE  EnteredAll[sched_pid[t]] = ctx[sched_pid[t]]
<1>1. anc[sched_pid[t]] \cap anc[pcb_current] = {}
  BY LiveFacts DEF Live, Ancestry
<1>2. ctx[sched_pid[t]].stk \in anc[sched_pid[t]] /\ esp0.stk \in anc[pcb_current]
  BY DEF Kept, Intact, Live, Homes
<1> QED
  BY <1>1, <1>2, LiveFacts, EntryEffect

\* In the first rotation an entry spares the contexts of the shells to come.
LEMMA EntrySparesStarted ==
  ASSUME IInv, NEW anc, Live(anc), FirstRound(anc), NEW t \in Terms, t > curr_process
  PROVE  /\ sched_pid[t] = t + 1
         /\ t + 1 \in Pids
         /\ EnteredAll[t + 1] = StartFrame(t + 1)
<1>1. sched_pid[t] = t + 1 /\ ctx[t + 1] = StartFrame(t + 1)
  BY DEF FirstRound
<1>2. curr_process \in Nat /\ t \in Nat /\ t + 1 \in Pids /\ t + 1 # 1
  BY LiveFacts, ProcessesAssumption DEF Terms, Pids
<1>3. ctx[t + 1].stk = t + 2
  BY <1>1, <1>2 DEF StartFrame, StartRegion
<1>4. cpu.mode = "user" => esp0.stk = curr_process + 1
  BY DEF FirstRound, Top
<1>5. ~ (cpu.mode = "user" /\ ctx[t + 1].stk = esp0.stk)
  BY <1>2, <1>3, <1>4
<1> QED BY <1>1, <1>2, <1>5, EntryEffect

\* The tick leaves an intact context for the running terminal too.
LEMMA SavedSpares ==
  ASSUME IInv, NEW anc, Live(anc), NEW t \in Terms, t = curr_process \/ Kept(anc, t)
  PROVE  Intact(Saved[sched_pid[t]], anc[sched_pid[t]])
<1>1. EnteredAll \in [Pids -> Frames]
  BY EnteredFrames DEF IInv
<1>2. CASE t = curr_process
  <2>1. Saved[sched_pid[t]] = SavedFrame
    BY <1>1, <1>2, LiveFacts DEF Saved
  <2>2. cpu.mode \in {"start", "user", "read"}
    BY DEF Live, Homes
  <2> QED BY <1>2, <2>1, <2>2, LiveFacts DEF SavedFrame, Intact
<1>3. CASE t # curr_process
  <2>1. sched_pid[t] # sched_pid[curr_process]
    BY <1>3, LiveFacts
  <2>2. Saved[sched_pid[t]] = EnteredAll[sched_pid[t]]
    BY <1>1, <2>1, LiveFacts DEF Saved
  <2> QED BY <1>3, <2>2, EntrySpares DEF Kept
<1> QED BY <1>2, <1>3

\* In the first rotation an entry leaves only shells away whose first quantum is to come or
\* running.
LEMMA FirstAway ==
  ASSUME IInv, NEW anc, Live(anc), FirstRound(anc), NEW q \in Pids, AwayIn(EnteredAll, q)
  PROVE  Away(q) /\ q > curr_process
<1>1. Away(q) /\ q \in 2 .. NUM_TERM
  BY EntryEffect DEF AwayIn, Away
<1>2. q >= curr_process /\ (q = curr_process => cpu.mode = "user")
  BY <1>1 DEF FirstRound
<1>3. curr_process \in Nat /\ q \in Nat
  BY <1>1, LiveFacts, ProcessesAssumption DEF Terms
<1>4. ASSUME q = curr_process PROVE FALSE
  <2>1. cpu.mode = "user" /\ esp0 = Top(curr_process + 1)
    BY <1>2, <1>4 DEF FirstRound
  <2>2. ctx[q].stk = q + 1 /\ EnteredAll[q].ok
    BY <1>1 DEF Away, AwayIn
  <2> QED BY <1>4, <2>1, <2>2, EntryEffect DEF Top
<1> QED BY <1>1, <1>2, <1>3, <1>4

\* The last shell is away and the process on whose region it is has not run yet.
LastAway == \E u \in curr_process + 1 .. NUM_TERM - 1 :
              sched_pid[u] = NUM_TERM + 1 /\ ctx[NUM_TERM + 1].mode = "start"

\* In the other rotations an entry leaves the last shell away only if the process on whose
\* region its context lies is still to come.
LEMMA LaterAway ==
  ASSUME IInv, NEW anc, Live(anc), LaterRound(anc), NEW q \in Pids, AwayIn(EnteredAll, q)
  PROVE  q = NUM_TERM /\ Away(q) /\ LastAway
<1>1. Away(q) /\ q \in 2 .. NUM_TERM
  BY EntryEffect DEF AwayIn, Away
<1>2. q = NUM_TERM
  BY <1>1 DEF LaterRound
<1>3. PICK u \in curr_process .. NUM_TERM - 1 :
          /\ sched_pid[u] = NUM_TERM + 1
          /\ u # curr_process => ctx[NUM_TERM + 1].mode = "start"
          /\ u = curr_process => cpu.mode = "user" /\ esp0 = Top(NUM_TERM + 1)
  BY <1>1, <1>2 DEF LaterRound
<1>4. ASSUME u = curr_process PROVE FALSE
  <2>1. cpu.mode = "user" /\ esp0 = Top(NUM_TERM + 1)
    BY <1>3, <1>4
  <2>2. ctx[q].stk = q + 1 /\ EnteredAll[q].ok
    BY <1>1 DEF Away, AwayIn
  <2> QED BY <1>2, <2>1, <2>2, EntryEffect DEF Top
<1>5. curr_process \in Int /\ NUM_TERM \in Int
  BY LiveFacts, ProcessesAssumption DEF Terms
<1>6. u \in curr_process + 1 .. NUM_TERM - 1
  BY <1>3, <1>4, <1>5
<1> QED BY <1>1, <1>2, <1>3, <1>4, <1>6 DEF LastAway

\* After an entry, too, contexts lie on their chains or are those of shells that are away.
LEMMA EntryHomes ==
  ASSUME IInv, NEW anc, Live(anc), NEW p \in pid_arr, EnteredAll[p].ok
  PROVE  EnteredAll[p].stk \in anc[p] \/ AwayIn(EnteredAll, p)
<1>1. p \in Pids
  BY DEF IInv, TypeOK
<1>2. ctx[p].stk \in anc[p] \/ Away(p)
  BY <1>1, EntryEffect DEF Live, Homes
<1> QED BY <1>1, <1>2, EntryEffect DEF Away, AwayIn

\* Chains only depend on the process tables.
LEMMA AncestryUnchanged ==
  ASSUME NEW anc, Ancestry(anc), UNCHANGED <<sched_pid, pid_arr, parent_pid>>
  PROVE  Ancestry(anc)'
BY DEF Ancestry, Waits

\* A step that enters the kernel and returns to the same process keeps the rotation.
LEMMA QuietRotating ==
  ASSUME IInv, NEW anc, Rotating(anc),
         cpu.mode \in {"user", "read"}, cpu'.mode \in {"user", "read"},
         cpu'.mode = "read" => cpu'.stk \in anc[pcb_current],
         ctx' = EnteredAll,
         UNCHANGED <<sched_pid, curr_process, pid_arr, pcb_current, esp0, parent_pid>>
  PROVE  Rotating(anc)'
<1>1. Live(anc)
  BY DEF Rotating
<1>2. Live(anc)'
  <2>1. Running'
    BY <1>1 DEF Live, Running
  <2>2. Ancestry(anc)'
    BY <1>1, AncestryUnchanged DEF Live
  <2>3. \A p \in pid_arr' : ctx'[p].ok => ctx'[p].stk \in anc[p] \/ AwayIn(ctx', p)
    BY <1>1, EntryHomes
  <2>4. Homes(anc)'
    BY <1>1, <2>3 DEF Homes, Live, Away
  <2> QED BY <2>1, <2>2, <2>4 DEF Live
<1>3. \A t \in Terms \ {curr_process} : Kept(anc, t) => Kept(anc, t)'
  BY <1>1, EntrySpares DEF Kept
<1>4. curr_process \in Nat /\ NUM_TERM \in Nat /\ NUM_TERM + 1 \in Pids
  BY <1>1, LiveFacts, ProcessesAssumption DEF Terms, Pids
<1>5. ctx'[NUM_TERM + 1].mode = ctx[NUM_TERM + 1].mode
  BY <1>4, EntryEffect
<1>6. CASE FirstRound(anc)
  <2>1. \A t \in Terms : t < curr_process => Kept(anc, t)'
    BY <1>3, <1>4, <1>6 DEF FirstRound, Terms
  <2>2. ASSUME NEW t \in Terms, t > curr_process
        PROVE  sched_pid'[t] = t + 1 /\ ctx'[t + 1] = StartFrame(t + 1)
    BY <1>1, <1>6, <2>2, EntrySparesStarted
  <2>3. /\ cpu'.mode \in {"user", "read"} => pcb_current' = curr_process' + 1
        /\ esp0' = Top(pcb_current')
    BY <1>6 DEF FirstRound
  <2>4. ASSUME NEW q \in Pids, Away(q)'
        PROVE  q >= curr_process' /\ (q = curr_process' => cpu'.mode = "user")
    <3>1. q > curr_process
      BY <1>1, <1>6, <2>4, FirstAway DEF Away
    <3> QED BY <1>4, <3>1 DEF Pids
  <2>5. \/ pid_arr' \subseteq 1 .. NUM_TERM
        \/ \E u \in 0 .. curr_process' :
             /\ sched_pid'[u] = NUM_TERM + 1
             /\ u # curr_process' => ctx'[NUM_TERM + 1].mode = "start"
             /\ u = curr_process' => cpu'.mode = "start"
    BY <1>5, <1>6 DEF FirstRound
  <2> QED BY <1>2, <2>1, <2>2, <2>3, <2>4, <2>5 DEF Rotating, FirstRound
<1>7. CASE LaterRound(anc)
  <2>1. \A t \in Terms \ {curr_process'} : Kept(anc, t)'
    BY <1>3, <1>7 DEF LaterRound
  <2>2. \A q \in Pids : Away(q)' => q = NUM_TERM /\ LastAway
    BY <1>1, <1>7, LaterAway DEF Away
  <2>3. Away(NUM_TERM)' =>
          \E u \in curr_process' .. NUM_TERM - 1 :
             /\ sched_pid'[u] = NUM_TERM + 1
             /\ u # curr_process' => ctx'[NUM_TERM + 1].mode = "start"
             /\ u = curr_process' => cpu'.mode = "user" /\ esp0' = Top(NUM_TERM + 1)
    <3>1. NUM_TERM \in Pids
      BY ProcessesAssumption DEF Pids
    <3>2. LastAway => \E u \in curr_process .. NUM_TERM - 1 :
             u # curr_process /\ sched_pid[u] = NUM_TERM + 1 /\ ctx[NUM_TERM + 1].mode = "start"
      BY <1>4 DEF LastAway
    <3> QED BY <1>5, <2>2, <3>1, <3>2
  <2> QED BY <1>2, <2>1, <2>2, <2>3 DEF Rotating, LaterRound
<1> QED BY <1>6, <1>7 DEF Rotating

\* execute adds a link to the chain of the running terminal.
LEMMA ExecuteRotating ==
  ASSUME Ordinary, IInv, NEW anc, Rotating(anc), Execute
  PROVE  \E new \in [Pids -> SUBSET Pids] : Rotating(new)'
<1>0. PICK x : x = pcb_current
  OBVIOUS
<1>1. Live(anc) /\ Running /\ Ancestry(anc) /\ Homes(anc)
  BY DEF Rotating, Live
<1>2. cpu.mode = "user" /\ curr_terminal = curr_process /\ curr_process \in Terms
  BY DEF Ordinary, Execute, IInv, TypeOK
<1>3. /\ program_count >= NUM_TERM
      /\ x = sched_pid[curr_process] /\ x \in pid_arr /\ pid_arr \subseteq Pids
  BY <1>0, <1>1, <1>2, RunningFacts DEF IInv, TypeOK
<1>4. PICK slot \in Pids :
        /\ FirstFree(slot)
        /\ ExecuteProgram(slot, sched_pid, EnteredAll, EntryStack)
        /\ esp0' = Top(slot)
  <2>1. ~ (program_count < NUM_TERM)
    BY <1>3, ProcessesAssumption DEF IInv, TypeOK
  <2> QED BY <2>1 DEF Execute, execute_handler
<1>5. slot \notin pid_arr /\ slot > NUM_TERM /\ slot # x
  BY <1>1, <1>3, <1>4, ProcessesAssumption DEF FirstFree, Running, Pids
<1>6. /\ parent_pid' = [parent_pid EXCEPT ![slot] = x]
      /\ ctx' = [EnteredAll EXCEPT ![slot] = ChildContext(EntryStack)]
      /\ pid_arr' = pid_arr \cup {slot}
      /\ sched_pid' = [sched_pid EXCEPT ![curr_process] = slot]
      /\ pcb_current' = slot
      /\ cpu' = [mode |-> "start", stk |-> EntryStack]
      /\ curr_process' = curr_process
  BY <1>0, <1>2, <1>4 DEF Execute, execute_handler, ExecuteProgram, execute_slot
<1>7. /\ sched_pid \in [Terms -> 0 .. programMax]
      /\ parent_pid \in [Pids -> 0 .. programMax]
      /\ EnteredAll \in [Pids -> Frames]
  BY EnteredFrames DEF IInv, TypeOK
<1>8. /\ \A t \in Terms : sched_pid'[t] = IF t = curr_process THEN slot ELSE sched_pid[t]
      /\ \A p \in Pids : parent_pid'[p] = IF p = slot THEN x ELSE parent_pid[p]
      /\ \A p \in Pids : ctx'[p] = IF p = slot THEN ChildContext(EntryStack) ELSE EnteredAll[p]
  BY <1>6, <1>7
<1>9. /\ \A t \in Terms : sched_pid[t] \in pid_arr
      /\ \A t \in Terms \ {curr_process} : sched_pid[t] # slot /\ sched_pid'[t] = sched_pid[t]
      /\ EntryStack \in anc[x]
  BY <1>0, <1>1, <1>5, <1>8, LiveFacts
<1>10. /\ anc \in [Pids -> SUBSET Pids]
       /\ \A p \in pid_arr : p \in anc[p] /\ anc[p] \subseteq pid_arr
       /\ \A p \in pid_arr : anc[p] = {p} \cup anc[parent_pid[p]]
       /\ \A p \in 1 .. NUM_TERM : anc[p] = {p}
       /\ \A p \in pid_arr : \A q \in anc[p] \ {p} : \E c \in anc[p] : Waits(q, c)
       /\ \A t, u \in Terms : t # u => anc[sched_pid[t]] \cap anc[sched_pid[u]] = {}
       /\ \A t \in Terms : t + 1 \in anc[sched_pid[t]]
  BY <1>1 DEF Ancestry
<1>11. PICK new \in [Pids -> SUBSET Pids] :
         /\ new[slot] = {slot} \cup anc[x]
         /\ \A p \in Pids : p # slot => new[p] = anc[p]
  <2> DEFINE added == [anc EXCEPT ![slot] = {slot} \cup anc[x]]
  <2>1. x \in Pids
    BY <1>3
  <2>2. /\ added \in [Pids -> SUBSET Pids]
        /\ added[slot] = {slot} \cup anc[x]
        /\ \A p \in Pids : p # slot => added[p] = anc[p]
    BY <1>4, <1>10, <2>1
  <2> QED BY <2>2
<1>12. Ancestry(new)'
  <2>1. \A p \in pid_arr' : p \in new[p] /\ new[p] \subseteq pid_arr'
    BY <1>3, <1>5, <1>6, <1>10, <1>11
  <2>2. \A p \in pid_arr : parent_pid[p] \in pid_arr
    BY DEF IInv, NoProcessLost
  <2>3. \A p \in pid_arr' : new[p] = {p} \cup new[parent_pid'[p]]
    BY <1>3, <1>5, <1>6, <1>8, <1>10, <1>11, <2>2
  <2>4. \A p \in 1 .. NUM_TERM : new[p] = {p}
    <3>1. \A p \in 1 .. NUM_TERM : p # slot /\ p \in Pids
      BY <1>5, ProcessesAssumption DEF Pids
    <3> QED BY <1>10, <1>11, <3>1
  <2>5. \A q, c \in Pids : Waits(q, c) => Waits(q, c)'
    BY <1>5, <1>6, <1>8 DEF Waits
  <2>6. Waits(x, slot)'
    BY <1>4, <1>5, <1>6, <1>8 DEF Waits
  <2>7. ASSUME NEW p \in pid_arr', NEW q \in new[p] \ {p}
        PROVE  \E c \in new[p] : Waits(q, c)'
    <3>1. CASE p = slot
      <4>1. CASE q = x
        BY <1>11, <2>6, <3>1, <4>1
      <4>2. CASE q # x
        <5>1. PICK c \in anc[x] : Waits(q, c)
          BY <1>3, <1>10, <1>11, <2>7, <3>1, <4>2
        <5>2. q \in Pids /\ c \in Pids
          BY <1>3, <1>10, <1>11, <2>7, <3>1, <5>1
        <5> QED BY <1>11, <2>5, <3>1, <5>1, <5>2
      <4> QED BY <4>1, <4>2
    <3>2. CASE p # slot
      <4>1. p \in pid_arr /\ p \in Pids /\ new[p] = anc[p]
        BY <1>3, <1>6, <1>11, <3>2
      <4>2. PICK c \in anc[p] : Waits(q, c)
        BY <1>10, <2>7, <4>1
      <4>3. q \in Pids /\ c \in Pids
        BY <1>10, <2>7, <4>1, <4>2
      <4> QED BY <2>5, <4>1, <4>2, <4>3
    <3> QED BY <3>1, <3>2
  <2>8. /\ new[sched_pid'[curr_process]] = {slot} \cup anc[sched_pid[curr_process]]
        /\ \A t \in Terms \ {curr_process} : new[sched_pid'[t]] = anc[sched_pid[t]]
    BY <1>2, <1>3, <1>8, <1>9, <1>11
  <2>9. \A t \in Terms : slot \notin anc[sched_pid[t]]
    BY <1>5, <1>9, <1>10
  <2>10. \A t, u \in Terms : t # u => new[sched_pid'[t]] \cap new[sched_pid'[u]] = {}
    BY <1>10, <2>8, <2>9
  <2>11. \A t \in Terms : t + 1 \in new[sched_pid'[t]]
    BY <1>2, <1>10, <2>8
  <2> QED BY <1>11, <2>1, <2>3, <2>4, <2>7, <2>10, <2>11 DEF Ancestry
<1>13. Running'
  <2>1. slot # 0
    BY <1>4 DEF Pids
  <2> QED BY <1>1, <1>6, <1>8, <2>1 DEF Running
<1>14. \A q \in Pids : AwayIn(ctx', q) <=> AwayIn(EnteredAll, q)
  <2>1. \A q \in 2 .. NUM_TERM : q # slot /\ q \in Pids
    BY <1>5, ProcessesAssumption DEF Pids
  <2> QED BY <1>8, <2>1 DEF AwayIn
<1>15. Homes(new)'
  <2>1. ASSUME NEW p \in pid_arr', ctx'[p].ok
        PROVE  ctx'[p].stk \in new[p] \/ AwayIn(ctx', p)
    <3>1. CASE p = slot
      BY <1>4, <1>8, <1>9, <1>11, <3>1 DEF ChildContext
    <3>2. CASE p # slot
      <4>1. p \in pid_arr /\ p \in Pids /\ new[p] = anc[p] /\ ctx'[p] = EnteredAll[p]
        BY <1>3, <1>6, <1>8, <1>11, <3>2
      <4> QED BY <1>1, <1>14, <2>1, <4>1, EntryHomes
    <3> QED BY <3>1, <3>2
  <2>2. cpu'.mode = "start" /\ cpu'.stk \in new[pcb_current'] /\ esp0'.stk \in new[pcb_current']
    BY <1>4, <1>6, <1>9, <1>11 DEF Top
  <2> QED BY <2>1, <2>2 DEF Homes, Away
<1>16. Live(new)'
  BY <1>12, <1>13, <1>15 DEF Live
<1>17. \A t \in Terms \ {curr_process} : Kept(anc, t) => Kept(new, t)'
  <2> TAKE t \in Terms \ {curr_process}
  <2> HAVE Kept(anc, t)
  <2>1. sched_pid[t] \in Pids
    BY <1>3, <1>9
  <2>2. new[sched_pid[t]] = anc[sched_pid[t]] /\ ctx'[sched_pid[t]] = EnteredAll[sched_pid[t]]
    BY <1>8, <1>9, <1>11, <2>1
  <2> QED BY <1>1, <1>9, <2>2, EntrySpares DEF Kept
<1>18. curr_process \in Nat /\ NUM_TERM \in Nat /\ NUM_TERM + 1 \in Pids
  BY <1>2, ProcessesAssumption DEF Terms, Pids
<1>19. NUM_TERM + 1 \in pid_arr => ctx'[NUM_TERM + 1].mode = ctx[NUM_TERM + 1].mode
  BY <1>5, <1>8, <1>18, EntryEffect
<1>20. CASE FirstRound(anc)
  <2>1. \A t \in Terms : t < curr_process => Kept(new, t)'
    BY <1>17, <1>18, <1>20 DEF FirstRound, Terms
  <2>2. ASSUME NEW t \in Terms, t > curr_process
        PROVE  sched_pid'[t] = t + 1 /\ ctx'[t + 1] = StartFrame(t + 1)
    <3>1. /\ sched_pid[t] = t + 1 /\ t + 1 \in Pids /\ t # curr_process
          /\ EnteredAll[t + 1] = StartFrame(t + 1)
      BY <1>1, <1>18, <1>20, <2>2, EntrySparesStarted DEF Terms
    <3> QED BY <1>8, <1>9, <3>1
  <2>3. ASSUME NEW q \in Pids, Away(q)'
        PROVE  q >= curr_process' /\ (q = curr_process' => cpu'.mode = "user")
    <3>1. q > curr_process
      BY <1>1, <1>14, <1>20, <2>3, FirstAway DEF Away
    <3> QED BY <1>6, <1>18, <3>1 DEF Pids
  <2>4. \E u \in 0 .. curr_process' :
             /\ sched_pid'[u] = NUM_TERM + 1
             /\ u # curr_process' => ctx'[NUM_TERM + 1].mode = "start"
             /\ u = curr_process' => cpu'.mode = "start"
    <3>1. CASE pid_arr \subseteq 1 .. NUM_TERM
      <4>1. slot = NUM_TERM + 1
        <5>1. slot \in Nat /\ (NUM_TERM + 1 \in 1 .. slot - 1 => NUM_TERM + 1 \in pid_arr)
          BY <1>4 DEF FirstFree, Pids
        <5> QED BY <1>5, <1>18, <3>1, <5>1
      <4> QED BY <1>2, <1>6, <1>8, <1>18, <4>1
    <3>2. CASE ~ (pid_arr \subseteq 1 .. NUM_TERM)
      <4>1. PICK u \in 0 .. curr_process :
               /\ sched_pid[u] = NUM_TERM + 1
               /\ u # curr_process => ctx[NUM_TERM + 1].mode = "start"
               /\ u = curr_process => cpu.mode = "start"
        BY <1>20, <3>2 DEF FirstRound
      <4>2. u # curr_process /\ u \in Terms
        BY <1>2, <1>18, <4>1 DEF Terms
      <4>3. sched_pid'[u] = NUM_TERM + 1 /\ NUM_TERM + 1 \in pid_arr
        BY <1>9, <4>1, <4>2
      <4> QED BY <1>6, <1>19, <4>1, <4>2, <4>3
    <3> QED BY <3>1, <3>2
  <2>5. FirstRound(new)'
    BY <1>4, <1>6, <2>1, <2>2, <2>3, <2>4 DEF FirstRound
  <2> QED BY <1>11, <1>16, <2>5 DEF Rotating
<1>21. CASE LaterRound(anc)
  <2>1. \A t \in Terms \ {curr_process'} : Kept(new, t)'
    BY <1>6, <1>17, <1>21 DEF LaterRound
  <2>2. \A q \in Pids : Away(q)' => q = NUM_TERM /\ LastAway
    BY <1>1, <1>14, <1>21, LaterAway DEF Away
  <2>3. ASSUME Away(NUM_TERM)'
        PROVE  \E u \in curr_process' .. NUM_TERM - 1 :
                 /\ sched_pid'[u] = NUM_TERM + 1
                 /\ u # curr_process' => ctx'[NUM_TERM + 1].mode = "start"
                 /\ u = curr_process' => cpu'.mode = "user" /\ esp0' = Top(NUM_TERM + 1)
    <3>1. NUM_TERM \in Pids
      BY ProcessesAssumption DEF Pids
    <3>2. PICK u \in curr_process + 1 .. NUM_TERM - 1 :
             sched_pid[u] = NUM_TERM + 1 /\ ctx[NUM_TERM + 1].mode = "start"
      BY <2>2, <2>3, <3>1 DEF LastAway
    <3>3. u \in Terms \ {curr_process} /\ u \in curr_process .. NUM_TERM - 1
      BY <1>18, <3>2 DEF Terms
    <3>4. NUM_TERM + 1 \in pid_arr /\ sched_pid'[u] = NUM_TERM + 1
      BY <1>9, <3>2, <3>3
    <3> QED BY <1>6, <1>19, <3>2, <3>3, <3>4
  <2>4. LaterRound(new)'
    BY <2>1, <2>2, <2>3 DEF LaterRound
  <2> QED BY <1>11, <1>16, <2>4 DEF Rotating
<1> QED BY <1>20, <1>21 DEF Rotating

\* What a return through an intact frame leads to.
LEMMA ResumedIntact ==
  ASSUME NEW f, f.mode # "halt", NEW c \in Resumed(f), f.ok
  PROVE  /\ f.mode = "read" => c.mode = "read" /\ c.stk = f.stk
         /\ f.mode # "read" => c = User
BY DEF Resumed

\* halt removes the last link of the running terminal's chain, or faults.
LEMMA HaltRotating ==
  ASSUME IInv, NEW anc, Rotating(anc), Halt, ~ landed'
  PROVE  (cpu' = Fault /\ SuspendedResumable') \/ Rotating(anc)'
<1>0. PICK x, parent : x = pcb_current /\ parent = parent_pid[x]
  OBVIOUS
<1>1. Live(anc) /\ Running /\ Ancestry(anc) /\ Homes(anc)
  BY DEF Rotating, Live
<1>2. cpu.mode = "user" /\ curr_process \in Terms /\ x > NUM_TERM
  BY <1>0 DEF Halt, IInv, TypeOK
<1>3. x = sched_pid[curr_process] /\ x \in pid_arr /\ parent \in pid_arr /\ pid_arr \subseteq Pids
  BY <1>0, <1>1, <1>2, RunningFacts DEF IInv, TypeOK
<1>4. /\ sched_pid \in [Terms -> 0 .. programMax]
      /\ EnteredAll \in [Pids -> Frames]
  BY EnteredFrames DEF IInv, TypeOK
<1>5. parent # x /\ x \in Nat /\ parent \in Nat
  BY <1>0, <1>2, <1>3, ProcessesAssumption DEF IInv, BaseShells, Pids
<1>6. /\ pid_arr' = pid_arr \ {x}
      /\ sched_pid' = [sched_pid EXCEPT ![curr_process] = parent]
      /\ esp0' = [stk |-> ctx[parent].stk, at |-> "mid"]
      /\ cpu' \in Resumed(EnteredAll[parent])
      /\ EnteredAll[parent].ok \/ cpu' = Fault
      /\ pcb_current' = parent
      /\ ctx' = EnteredAll
      /\ UNCHANGED <<curr_process, parent_pid>>
  BY <1>0, <1>3 DEF Halt, HaltBookkeeping, halt_slot, EnteredAll, Return
<1>7. /\ \A t \in Terms : sched_pid'[t] = IF t = curr_process THEN parent ELSE sched_pid[t]
      /\ \A t \in Terms : sched_pid[t] \in pid_arr
      /\ \A t \in Terms \ {curr_process} : sched_pid[t] # x
  BY <1>1, <1>2, <1>3, <1>4, <1>6, LiveFacts
<1>8. LaterRound(anc)
  <2>1. curr_process + 1 <= NUM_TERM
    BY <1>2, ProcessesAssumption DEF Terms
  <2>2. ~ FirstRound(anc)
    BY <1>0, <1>2, <2>1, ProcessesAssumption DEF FirstRound, Terms
  <2> QED BY <2>2 DEF Rotating
<1>9. \A t \in Terms \ {curr_process} : Kept(anc, t)'
  <2> TAKE t \in Terms \ {curr_process}
  <2>1. Kept(anc, t)
    BY <1>8 DEF LaterRound
  <2> QED BY <1>1, <1>6, <1>7, <2>1, EntrySpares DEF Kept
<1>10. SuspendedResumable'
  BY <1>6, <1>9 DEF SuspendedResumable, Kept, Intact
<1>11. /\ anc \in [Pids -> SUBSET Pids]
       /\ \A p \in pid_arr : p \in anc[p] /\ anc[p] \subseteq pid_arr
       /\ \A p \in pid_arr : anc[p] = {p} \cup anc[parent_pid[p]]
       /\ \A p \in 1 .. NUM_TERM : anc[p] = {p}
       /\ \A p \in pid_arr : \A q \in anc[p] \ {p} : \E c \in anc[p] : Waits(q, c)
       /\ \A t, u \in Terms : t # u => anc[sched_pid[t]] \cap anc[sched_pid[u]] = {}
       /\ \A t \in Terms : t + 1 \in anc[sched_pid[t]]
  BY <1>1 DEF Ancestry
<1>12. anc[x] = {x} \cup anc[parent]
  BY <1>0, <1>3, <1>11
<1>13. \A c \in Pids : ~ Waits(x, c)
  BY <1>2, <1>3 DEF IInv, NoProcessLost, Scheduled
<1>14. \A p \in pid_arr \ {x} : x \notin anc[p]
  <2> SUFFICES ASSUME NEW p \in pid_arr \ {x}, x \in anc[p] PROVE FALSE
    OBVIOUS
  <2>1. PICK c \in anc[p] : Waits(x, c)
    BY <1>11
  <2> QED BY <1>3, <1>11, <1>13, <2>1
<1>15. Ancestry(anc)'
  <2>1. \A p \in pid_arr' : p \in anc[p] /\ anc[p] \subseteq pid_arr'
    BY <1>6, <1>11, <1>14
  <2>2. \A p \in pid_arr' : anc[p] = {p} \cup anc[parent_pid'[p]]
    BY <1>6, <1>11
  <2>3. ASSUME NEW p \in pid_arr', NEW q \in anc[p] \ {p}
        PROVE  \E c \in anc[p] : Waits(q, c)'
    <3>1. PICK c \in anc[p] : Waits(q, c)
      BY <1>6, <1>11, <2>3
    <3>2. c # x
      BY <1>6, <1>14, <2>3, <3>1
    <3>3. Waits(q, c)'
      BY <1>6, <3>1, <3>2 DEF Waits
    <3> QED BY <3>3
  <2>4. \A t \in Terms : anc[sched_pid'[t]] \subseteq anc[sched_pid[t]]
    BY <1>3, <1>7, <1>12
  <2>5. \A t, u \in Terms : t # u => anc[sched_pid'[t]] \cap anc[sched_pid'[u]] = {}
    BY <1>11, <2>4
  <2>6. ASSUME NEW t \in Terms PROVE t + 1 \in anc[sched_pid'[t]]
    <3>1. CASE t = curr_process
      <4>1. t + 1 \in anc[x] /\ t + 1 # x
        BY <1>2, <1>3, <1>5, <1>11, <3>1, ProcessesAssumption DEF Terms
      <4> QED BY <1>7, <1>12, <3>1, <4>1
    <3>2. CASE t # curr_process
      BY <1>7, <1>11, <3>2
    <3> QED BY <3>1, <3>2
  <2> QED BY <1>11, <2>1, <2>2, <2>3, <2>5, <2>6 DEF Ancestry
<1>16. SUFFICES ASSUME cpu' # Fault PROVE Rotating(anc)'
  BY <1>10
<1>17. /\ EnteredAll[parent].ok
       /\ EnteredAll[parent].mode = "read" => cpu'.mode = "read" /\ cpu'.stk = EnteredAll[parent].stk
       /\ EnteredAll[parent].mode # "read" => cpu' = User
  <2>1. EnteredAll[parent].mode # "halt" /\ EnteredAll[parent].ok
    BY <1>3, <1>6, <1>16, EnteredFrames DEF IInv, NotInHalt
  <2> QED BY <1>6, <1>16, <2>1, ResumedIntact
<1>18. \A q \in Pids : AwayIn(EnteredAll, q) => q = NUM_TERM /\ LastAway
  BY <1>1, <1>8, LaterAway
<1>19. EnteredAll[parent].stk \in anc[parent] /\ EnteredAll[parent].stk = ctx[parent].stk
  <2>1. parent \in Pids
    BY <1>3
  <2>2. ASSUME AwayIn(EnteredAll, parent) PROVE FALSE
    <3>1. parent = NUM_TERM /\ LastAway
      BY <1>18, <2>1, <2>2
    <3>2. curr_process # NUM_TERM - 1 /\ NUM_TERM - 1 \in Terms
      BY <1>2, <3>1, ProcessesAssumption DEF LastAway, Terms
    <3>3. (NUM_TERM - 1) + 1 \in anc[sched_pid[NUM_TERM - 1]]
      BY <1>11, <3>2
    <3>4. parent \in anc[sched_pid[NUM_TERM - 1]] /\ parent \in anc[sched_pid[curr_process]]
      BY <1>3, <1>11, <1>12, <3>1, <3>3, ProcessesAssumption
    <3> QED BY <1>2, <1>11, <3>2, <3>4
  <2> QED BY <1>1, <1>3, <1>17, <2>1, <2>2, EntryHomes, EntryEffect
<1>20. Live(anc)'
  <2>1. Running'
    <3>1. parent # 0 /\ x \notin 1 .. NUM_TERM
      BY <1>2, <1>3, <1>5, ProcessesAssumption DEF Pids
    <3>2. cpu'.mode # "boot"
      BY <1>17 DEF User
    <3> QED BY <1>1, <1>6, <1>7, <3>1, <3>2 DEF Running
  <2>2. cpu'.mode \in {"user", "read", "start"} /\ (cpu'.mode \in {"read", "start"} => cpu'.stk \in anc[parent])
    BY <1>17, <1>19 DEF User
  <2>3. \A p \in pid_arr' : ctx'[p].ok => ctx'[p].stk \in anc[p] \/ AwayIn(ctx', p)
    BY <1>1, <1>6, EntryHomes
  <2>4. Homes(anc)'
    BY <1>6, <1>19, <2>2, <2>3 DEF Homes, Away
  <2> QED BY <1>15, <2>1, <2>4 DEF Live
<1>21. LaterRound(anc)'
  <2>1. \A q \in Pids : Away(q)' => q = NUM_TERM /\ LastAway
    BY <1>6, <1>18 DEF Away
  <2>2. ASSUME Away(NUM_TERM)'
        PROVE  \E u \in curr_process' .. NUM_TERM - 1 :
                 /\ sched_pid'[u] = NUM_TERM + 1
                 /\ u # curr_process' => ctx'[NUM_TERM + 1].mode = "start"
                 /\ u = curr_process' => cpu'.mode = "user" /\ esp0' = Top(NUM_TERM + 1)
    <3>1. NUM_TERM \in Pids /\ NUM_TERM + 1 \in Pids /\ curr_process \in Nat /\ NUM_TERM \in Nat
      BY <1>2, ProcessesAssumption DEF Pids, Terms
    <3>2. PICK u \in curr_process + 1 .. NUM_TERM - 1 :
             sched_pid[u] = NUM_TERM + 1 /\ ctx[NUM_TERM + 1].mode = "start"
      BY <2>1, <2>2, <3>1 DEF LastAway
    <3>3. u \in Terms \ {curr_process} /\ u \in curr_process .. NUM_TERM - 1
      BY <3>1, <3>2 DEF Terms
    <3>4. sched_pid'[u] = NUM_TERM + 1 /\ ctx'[NUM_TERM + 1].mode = "start"
      BY <1>6, <1>7, <3>1, <3>2, <3>3, EntryEffect
    <3> QED BY <1>6, <3>3, <3>4
  <2> QED BY <1>6, <1>9, <2>1, <2>2 DEF LaterRound
<1> QED BY <1>20, <1>21 DEF Rotating

\* The contexts after a tick: that of the running process is on its chain.
LEMMA SavedEffect ==
  ASSUME IInv, NEW anc, Live(anc)
  PROVE  /\ Saved[pcb_current] = SavedFrame
         /\ \A q \in Pids : q # pcb_current => Saved[q] = EnteredAll[q]
         /\ \A q \in Pids : AwayIn(Saved, q) => q # pcb_current /\ AwayIn(EnteredAll, q)
         /\ \A q \in pid_arr : Saved[q].ok => Saved[q].stk \in anc[q] \/ AwayIn(Saved, q)
<1>1. EnteredAll \in [Pids -> Frames] /\ pid_arr \subseteq Pids
  BY EnteredFrames DEF IInv, TypeOK
<1>2. /\ Saved[pcb_current] = SavedFrame
      /\ \A q \in Pids : q # pcb_current => Saved[q] = EnteredAll[q]
  BY <1>1, LiveFacts DEF Saved
<1>3. Saved[pcb_current].stk \in anc[pcb_current]
  BY <1>2, LiveFacts DEF SavedFrame
<1>4. ASSUME NEW q \in Pids, AwayIn(Saved, q) PROVE q # pcb_current /\ AwayIn(EnteredAll, q)
  <2>1. q \in 2 .. NUM_TERM /\ Saved[q].stk = q + 1
    BY <1>4 DEF AwayIn
  <2>2. anc[q] = {q} /\ q # q + 1
    BY <2>1, ProcessesAssumption DEF Live, Ancestry
  <2>3. q # pcb_current
    BY <1>3, <2>1, <2>2
  <2> QED BY <1>2, <1>4, <2>3 DEF AwayIn
<1>5. ASSUME NEW q \in pid_arr, Saved[q].ok PROVE Saved[q].stk \in anc[q] \/ AwayIn(Saved, q)
  <2>1. CASE q = pcb_current
    BY <1>3, <2>1
  <2>2. CASE q # pcb_current
    <3>1. Saved[q] = EnteredAll[q]
      BY <1>1, <1>2, <2>2
    <3> QED BY <1>5, <3>1, EntryHomes DEF AwayIn
  <2> QED BY <2>1, <2>2
<1> QED BY <1>2, <1>4, <1>5

\* A tick passes the processor to the next terminal and begins a later rotation after the
\* last one.
LEMMA TickRotating ==
  ASSUME IInv, NEW anc, Rotating(anc), TickSwitch
  PROVE  Rotating(anc)'
<1>0. PICK next, p : next = next_process /\ p = sched_pid[next]
  OBVIOUS
<1>1. Live(anc) /\ Running /\ Ancestry(anc) /\ Homes(anc)
  BY DEF Rotating, Live
<1>2. /\ next \in Terms /\ curr_process \in Terms
      /\ curr_process < NUM_TERM - 1 => next = curr_process + 1
      /\ curr_process = NUM_TERM - 1 => next = 0
  BY <1>0, NextTerminal DEF IInv, TypeOK
<1>3. /\ ctx' = Saved /\ cpu' \in Resumed(Saved[p]) /\ pcb_current' = p
      /\ esp0' = Top(p) /\ curr_process' = next
      /\ UNCHANGED <<sched_pid, pid_arr, parent_pid>>
  BY <1>0 DEF TickSwitch, SwitchStack, Return
<1>4. p \in pid_arr /\ p \in Pids /\ p \in anc[p] /\ (p \in 1 .. NUM_TERM => anc[p] = {p})
  BY <1>0, <1>1, <1>2, LiveFacts DEF Ancestry
<1>5. NUM_TERM \in Nat /\ NUM_TERM > 0 /\ NUM_TERM \in Pids /\ NUM_TERM + 1 \in Pids
  BY ProcessesAssumption DEF Pids
<1>6. curr_process \in Nat /\ curr_process <= NUM_TERM - 1 /\ next \in Nat
  BY <1>2, <1>5 DEF Terms
<1>7. Saved[p].mode # "halt" /\ Saved \in [Pids -> Frames]
  BY <1>4, SavedFrames
<1>8. ASSUME Saved[p].ok, Saved[p].mode \in {"start", "user", "read"},
             Saved[p].mode = "read" => Saved[p].stk \in anc[p]
      PROVE  Live(anc)'
  <2>1. /\ cpu'.mode \in {"user", "read"}
        /\ cpu'.mode = "read" => cpu'.stk \in anc[p]
    BY <1>3, <1>8 DEF Resumed, User
  <2>2. Running' /\ Ancestry(anc)'
    BY <1>1, <1>3, <2>1, AncestryUnchanged DEF Running
  <2>3. \A q \in pid_arr' : ctx'[q].ok => ctx'[q].stk \in anc[q] \/ AwayIn(ctx', q)
    BY <1>1, <1>3, SavedEffect
  <2>4. Homes(anc)'
    BY <1>3, <1>4, <2>1, <2>3 DEF Homes, Away, Top
  <2> QED BY <2>2, <2>4 DEF Live
<1>9. Saved[p].ok /\ Saved[p].mode = "start" => cpu' = User
  BY <1>3 DEF Resumed
<1>10. \A t \in Terms : t = curr_process \/ Kept(anc, t) => Kept(anc, t)'
  BY <1>1, <1>3, SavedSpares DEF Kept
<1>11. pcb_current = sched_pid[curr_process]
  BY <1>1, LiveFacts
<1>12. ctx[NUM_TERM + 1].mode = "start" /\ NUM_TERM + 1 # pcb_current
         => Saved[NUM_TERM + 1].mode = "start"
  BY <1>1, <1>5, SavedEffect, EntryEffect
<1>13. NUM_TERM + 1 = pcb_current /\ cpu.mode = "start" => Saved[NUM_TERM + 1].mode = "start"
  BY <1>1, SavedEffect DEF SavedFrame
<1>14. ASSUME FirstRound(anc), curr_process < NUM_TERM - 1
       PROVE  Rotating(anc)'
  <2>1. next = curr_process + 1 /\ next > curr_process
    BY <1>2, <1>6, <1>14
  <2>2. p = curr_process + 2 /\ EnteredAll[p] = StartFrame(p)
    BY <1>0, <1>1, <1>2, <1>6, <1>14, <2>1, EntrySparesStarted
  <2>3. p # pcb_current
    BY <1>0, <1>1, <1>2, <1>6, <1>11, <2>1, LiveFacts
  <2>4. Saved[p] = StartFrame(p)
    BY <1>1, <1>4, <2>2, <2>3, SavedEffect
  <2>5. cpu' = User /\ Live(anc)'
    BY <1>8, <1>9, <2>4 DEF StartFrame
  <2>6. ASSUME NEW t \in Terms, t < curr_process' PROVE Kept(anc, t)'
    <3>1. t = curr_process \/ t < curr_process
      BY <1>3, <1>6, <2>1, <2>6 DEF Terms
    <3> QED BY <1>10, <1>14, <3>1 DEF FirstRound
  <2>7. ASSUME NEW t \in Terms, t > curr_process'
        PROVE  sched_pid'[t] = t + 1 /\ ctx'[t + 1] = StartFrame(t + 1)
    <3>1. t > curr_process
      BY <1>3, <1>6, <2>1, <2>7 DEF Terms
    <3>2. sched_pid[t] = t + 1 /\ t + 1 \in Pids /\ EnteredAll[t + 1] = StartFrame(t + 1)
      BY <1>1, <1>14, <3>1, EntrySparesStarted
    <3>3. t + 1 # pcb_current
      BY <1>1, <1>2, <1>6, <1>11, <3>1, <3>2, LiveFacts
    <3> QED BY <1>1, <1>3, <3>2, <3>3, SavedEffect
  <2>8. pcb_current' = curr_process' + 1
    BY <1>3, <1>6, <2>1, <2>2
  <2>9. ASSUME NEW q \in Pids, Away(q)'
        PROVE  q >= curr_process' /\ (q = curr_process' => cpu'.mode = "user")
    <3>1. q > curr_process
      BY <1>1, <1>3, <1>14, <2>9, SavedEffect, FirstAway DEF Away
    <3> QED BY <1>3, <1>6, <2>1, <2>5, <3>1 DEF Pids, User
  <2>10. \/ pid_arr' \subseteq 1 .. NUM_TERM
         \/ \E u \in 0 .. curr_process' :
              /\ sched_pid'[u] = NUM_TERM + 1
              /\ u # curr_process' => ctx'[NUM_TERM + 1].mode = "start"
              /\ u = curr_process' => cpu'.mode = "start"
    <3>1. CASE ~ (pid_arr \subseteq 1 .. NUM_TERM)
      <4>1. PICK u \in 0 .. curr_process :
               /\ sched_pid[u] = NUM_TERM + 1
               /\ u # curr_process => ctx[NUM_TERM + 1].mode = "start"
               /\ u = curr_process => cpu.mode = "start"
        BY <1>14, <3>1 DEF FirstRound
      <4>2. u \in Terms /\ u # next /\ u \in 0 .. next
        BY <1>5, <1>6, <2>1, <4>1 DEF Terms
      <4>3. Saved[NUM_TERM + 1].mode = "start"
        BY <1>1, <1>2, <1>11, <1>12, <1>13, <4>1, <4>2, LiveFacts
      <4> QED BY <1>3, <4>1, <4>2, <4>3
    <3> QED BY <1>3, <3>1
  <2>11. FirstRound(anc)'
    BY <1>3, <2>6, <2>7, <2>8, <2>9, <2>10 DEF FirstRound
  <2> QED BY <2>5, <2>11 DEF Rotating
<1>15. ASSUME \A t \in Terms \ {curr_process} : Kept(anc, t),
              \A q \in Pids : AwayIn(Saved, q) =>
                /\ q = NUM_TERM
                /\ \E u \in next .. NUM_TERM - 1 :
                     sched_pid[u] = NUM_TERM + 1 /\ Saved[NUM_TERM + 1].mode = "start"
       PROVE  Rotating(anc)'
  <2>1. \A t \in Terms : Kept(anc, t)'
    BY <1>10, <1>15
  <2>2. Intact(Saved[p], anc[p])
    BY <1>0, <1>2, <1>3, <2>1 DEF Kept
  <2>3. Live(anc)'
    BY <1>8, <2>2 DEF Intact
  <2>4. ASSUME Away(NUM_TERM)'
        PROVE  \E u \in curr_process' .. NUM_TERM - 1 :
                 /\ sched_pid'[u] = NUM_TERM + 1
                 /\ u # curr_process' => ctx'[NUM_TERM + 1].mode = "start"
                 /\ u = curr_process' => cpu'.mode = "user" /\ esp0' = Top(NUM_TERM + 1)
    <3>1. PICK u \in next .. NUM_TERM - 1 :
             sched_pid[u] = NUM_TERM + 1 /\ Saved[NUM_TERM + 1].mode = "start"
      BY <1>3, <1>5, <1>15, <2>4 DEF Away
    <3>2. u = next => cpu' = User /\ esp0' = Top(NUM_TERM + 1)
      BY <1>0, <1>3, <1>9, <2>2, <3>1 DEF Intact
    <3> QED BY <1>3, <3>1, <3>2 DEF User
  <2>5. \A q \in Pids : Away(q)' => q = NUM_TERM
    BY <1>3, <1>15 DEF Away
  <2>6. LaterRound(anc)'
    BY <1>3, <2>1, <2>4, <2>5 DEF LaterRound
  <2> QED BY <2>3, <2>6 DEF Rotating
<1>16. ASSUME FirstRound(anc), curr_process = NUM_TERM - 1
       PROVE  Rotating(anc)'
  <2>1. next = 0
    BY <1>2, <1>16
  <2>2. \A t \in Terms \ {curr_process} : t < curr_process
    BY <1>5, <1>16 DEF Terms
  <2>3. \A t \in Terms \ {curr_process} : Kept(anc, t)
    BY <1>16, <2>2 DEF FirstRound
  <2>4. ASSUME NEW q \in Pids, AwayIn(Saved, q)
        PROVE  /\ q = NUM_TERM
               /\ \E u \in next .. NUM_TERM - 1 :
                    sched_pid[u] = NUM_TERM + 1 /\ Saved[NUM_TERM + 1].mode = "start"
    <3>1. AwayIn(EnteredAll, q) /\ q # pcb_current
      BY <1>1, <2>4, SavedEffect
    <3>2. q > curr_process /\ q \in 2 .. NUM_TERM
      BY <1>1, <1>16, <3>1, FirstAway DEF AwayIn
    <3>3. q = NUM_TERM
      BY <1>5, <1>16, <3>2
    <3>4. pcb_current \notin 1 .. NUM_TERM
      <4>1. curr_process + 1 \in anc[pcb_current] /\ curr_process + 1 = q
        BY <1>1, <1>2, <1>5, <1>11, <1>16, <3>3 DEF Ancestry
      <4> QED BY <1>1, <3>1, <4>1 DEF Ancestry
    <3>5. ~ (pid_arr \subseteq 1 .. NUM_TERM)
      BY <1>1, <1>2, <1>11, <3>4, LiveFacts
    <3>6. PICK u \in 0 .. curr_process :
             /\ sched_pid[u] = NUM_TERM + 1
             /\ u # curr_process => ctx[NUM_TERM + 1].mode = "start"
             /\ u = curr_process => cpu.mode = "start"
      BY <1>16, <3>5 DEF FirstRound
    <3>7. u \in Terms /\ u \in next .. NUM_TERM - 1
      BY <1>5, <1>16, <2>1, <3>6 DEF Terms
    <3>8. Saved[NUM_TERM + 1].mode = "start"
      BY <1>1, <1>2, <1>11, <1>12, <1>13, <3>6, <3>7, LiveFacts
    <3> QED BY <3>3, <3>6, <3>7, <3>8
  <2> QED BY <1>15, <2>3, <2>4
<1>17. ASSUME LaterRound(anc) PROVE Rotating(anc)'
  <2>1. \A t \in Terms \ {curr_process} : Kept(anc, t)
    BY <1>17 DEF LaterRound
  <2>2. ASSUME NEW q \in Pids, AwayIn(Saved, q)
        PROVE  /\ q = NUM_TERM
               /\ \E u \in next .. NUM_TERM - 1 :
                    sched_pid[u] = NUM_TERM + 1 /\ Saved[NUM_TERM + 1].mode = "start"
    <3>1. q = NUM_TERM /\ LastAway
      BY <1>1, <1>17, <2>2, SavedEffect, LaterAway
    <3>2. PICK u \in curr_process + 1 .. NUM_TERM - 1 :
             sched_pid[u] = NUM_TERM + 1 /\ ctx[NUM_TERM + 1].mode = "start"
      BY <3>1 DEF LastAway
    <3>3. u \in Terms /\ u # curr_process /\ u \in next .. NUM_TERM - 1
      BY <1>2, <1>5, <1>6, <3>2 DEF Terms
    <3>4. NUM_TERM + 1 # pcb_current
      BY <1>1, <1>2, <1>11, <3>2, <3>3, LiveFacts
    <3> QED BY <1>12, <3>1, <3>2, <3>3, <3>4
  <2> QED BY <1>15, <2>1, <2>2
<1> QED BY <1>5, <1>6, <1>14, <1>16, <1>17 DEF Rotating

\* The tick after the start of the last shell begins the first rotation.
LEMMA LaunchedRotating ==
  ASSUME IInv, Launching, TickSwitch
  PROVE  \E anc \in [Pids -> SUBSET Pids] : Rotating(anc)'
<1>1. NUM_TERM \in Nat /\ NUM_TERM > 0 /\ programMax \in Nat /\ NUM_TERM < programMax
  BY ProcessesAssumption
<1>2. curr_process \in Terms /\ next_process \in Terms
  BY NextTerminal DEF IInv, TypeOK
<1>3. program_count = NUM_TERM /\ curr_process = NUM_TERM - 1 /\ next_process = 0
  <2>1. program_count \in 1 .. NUM_TERM /\ curr_process = program_count - 1
    BY DEF Launching
  <2>2. ASSUME program_count < NUM_TERM PROVE FALSE
    <3>1. next_process = program_count
      BY <1>1, <2>1, <2>2, NextTerminal DEF IInv
    <3>2. sched_pid[next_process] = 0
      BY <1>2, <2>1, <3>1 DEF Launching
    <3> QED BY <3>2 DEF TickSwitch
  <2> QED BY <1>1, <2>1, <2>2, NextTerminal DEF IInv
<1>4. /\ pid_arr = 1 .. NUM_TERM
      /\ \A t \in Terms : sched_pid[t] = t + 1
      /\ \A q \in 1 .. NUM_TERM - 1 : ctx[q] = StartFrame(q)
      /\ cpu.mode = "start" /\ cpu.stk = StartRegion(NUM_TERM)
  BY <1>1, <1>3 DEF Launching, Terms
<1>5. sched_pid[curr_process] = NUM_TERM /\ sched_pid[next_process] = 1 /\ 1 .. NUM_TERM \subseteq Pids
  BY <1>1, <1>2, <1>3, <1>4 DEF Pids
<1>6. /\ EnteredAll \in [Pids -> Frames]
      /\ \A q \in Pids : EnteredAll[q] = ctx[q]
  BY <1>4, EnteredFrames, EntryEffect DEF IInv
<1>7. SavedFrame = StartFrame(NUM_TERM)
  BY <1>4 DEF SavedFrame, StartFrame, EntryStack
<1>8. /\ NUM_TERM \in Pids
      /\ Saved[NUM_TERM] = StartFrame(NUM_TERM)
      /\ \A q \in 1 .. NUM_TERM - 1 : Saved[q] = ctx[q]
  BY <1>1, <1>5, <1>6, <1>7 DEF Saved, Pids
<1>9. \A q \in 1 .. NUM_TERM : Saved[q] = StartFrame(q)
  BY <1>1, <1>4, <1>8
<1>10. /\ ctx' = Saved /\ cpu' \in Resumed(Saved[1]) /\ pcb_current' = 1
       /\ esp0' = Top(1) /\ curr_process' = 0
       /\ UNCHANGED <<sched_pid, pid_arr, parent_pid>>
  BY <1>3, <1>5 DEF TickSwitch, SwitchStack, Return
<1>11. cpu' = User
  <2>1. 1 \in 1 .. NUM_TERM
    BY <1>1
  <2>2. Saved[1] = StartFrame(1)
    BY <1>9, <2>1
  <2>3. Saved[1].ok /\ Saved[1].mode = "start"
    BY <2>2 DEF StartFrame
  <2> QED BY <1>10, <2>3 DEF Resumed
<1>12. PICK anc \in [Pids -> SUBSET Pids] : \A p \in Pids : anc[p] = {p}
  <2> DEFINE own == [p \in Pids |-> {p}]
  <2>1. own \in [Pids -> SUBSET Pids] /\ \A p \in Pids : own[p] = {p}
    OBVIOUS
  <2> QED BY <2>1
<1>13. \A q \in 1 .. NUM_TERM : q \in Pids /\ parent_pid[q] = q /\ anc[q] = {q}
  BY <1>4, <1>5, <1>12 DEF IInv, BaseShells
<1>14. \A t \in Terms : t + 1 \in 1 .. NUM_TERM /\ sched_pid'[t] = t + 1
  BY <1>1, <1>4, <1>10 DEF Terms
<1>15. Ancestry(anc)'
  <2>1. \A p \in pid_arr' : p \in anc[p] /\ anc[p] \subseteq pid_arr'
    BY <1>4, <1>10, <1>13
  <2>2. \A p \in pid_arr' : anc[p] = {p} \cup anc[parent_pid'[p]]
    BY <1>4, <1>10, <1>13
  <2>3. \A p \in pid_arr' : \A q \in anc[p] \ {p} : \E c \in anc[p] : Waits(q, c)'
    BY <1>4, <1>10, <1>13
  <2>4. \A t, u \in Terms : t # u => anc[sched_pid'[t]] \cap anc[sched_pid'[u]] = {}
    <3> TAKE t, u \in Terms
    <3> HAVE t # u
    <3>1. anc[sched_pid'[t]] = {t + 1} /\ anc[sched_pid'[u]] = {u + 1}
      BY <1>13, <1>14
    <3>2. t + 1 # u + 1
      BY DEF Terms
    <3> QED BY <3>1, <3>2
  <2>5. \A t \in Terms : t + 1 \in anc[sched_pid'[t]]
    BY <1>13, <1>14
  <2> QED BY <1>12, <1>13, <2>1, <2>2, <2>3, <2>4, <2>5 DEF Ancestry
<1>16. Running'
  BY <1>1, <1>4, <1>10, <1>11, <1>14 DEF Running, User
<1>17. 1 \in 1 .. NUM_TERM
  BY <1>1
<1>18. Homes(anc)'
  <2>1. ASSUME NEW p \in pid_arr' PROVE ctx'[p].stk \in anc[p] \/ AwayIn(ctx', p)
    <3>1. p \in 1 .. NUM_TERM /\ ctx'[p] = StartFrame(p) /\ anc[p] = {p}
      BY <1>4, <1>9, <1>10, <1>13
    <3> QED BY <1>1, <3>1 DEF StartFrame, StartRegion, AwayIn
  <2> QED BY <1>10, <1>11, <1>13, <1>17, <2>1 DEF Homes, User, Top, Away
<1>19. FirstRound(anc)'
  <2>1. \A t \in Terms : ~ (t < 0)
    BY DEF Terms
  <2>2. \A t \in Terms : sched_pid'[t] = t + 1 /\ ctx'[t + 1] = StartFrame(t + 1)
    BY <1>9, <1>10, <1>14
  <2>3. \A q \in Pids : q >= 0 /\ q # 0
    BY DEF Pids
  <2> QED BY <1>4, <1>10, <1>11, <2>1, <2>2, <2>3 DEF FirstRound
<1> QED BY <1>12, <1>15, <1>16, <1>18, <1>19 DEF Rotating, Live

\* A tick that starts a shell leaves the shells before it where they were started.
LEMMA TickStartLaunching ==
  ASSUME IInv, Launching, TickStart
  PROVE  Launching'
<1>0. PICK n : n = program_count
  OBVIOUS
<1>1. NUM_TERM \in Nat /\ NUM_TERM > 0 /\ programMax \in Nat /\ NUM_TERM < programMax /\ programMax < 256
  BY ProcessesAssumption
<1>2. /\ n \in 1 .. NUM_TERM /\ curr_process = n - 1 /\ pid_arr = 1 .. n
      /\ cpu.mode = "start" /\ cpu.stk = StartRegion(n)
      /\ \A t \in Terms : sched_pid[t] = IF t < n THEN t + 1 ELSE 0
      /\ \A p \in 1 .. n - 1 : ctx[p] = StartFrame(p)
      /\ curr_process \in Terms
  BY <1>0 DEF Launching, IInv, TypeOK
<1>3. next_process \in Terms /\ sched_pid[next_process] = 0
  BY NextTerminal DEF IInv, TickStart
<1>4. n < NUM_TERM /\ next_process = n
  <2>1. ASSUME n = NUM_TERM PROVE FALSE
    <3>1. sched_pid[next_process] = next_process + 1
      BY <1>2, <1>3, <2>1 DEF Terms
    <3> QED BY <1>3, <3>1 DEF Terms
  <2> QED BY <1>1, <1>2, <2>1, NextTerminal DEF IInv
<1>5. sched_pid[curr_process] = n
  BY <1>2
<1>6. PICK c, sched :
        /\ c = [q \in Pids |-> Clobbered(Saved[q], n + 2)]
        /\ sched = [sched_pid EXCEPT ![n] = n + 1]
        /\ execute_handler(sched, c, n + 2)
        /\ curr_process' = n
  <2>1. sched_pid[curr_process] + 1 = n + 1 /\ StartStack(n + 1) = n + 2
    BY <1>2, <1>5 DEF StartStack
  <2> QED BY <1>4, <2>1 DEF TickStart
<1>7. n + 1 \in Pids /\ n \in Pids /\ n \in Terms
  BY <1>1, <1>2, <1>4 DEF Pids, Terms
<1>8. /\ ctx' = [c EXCEPT ![n + 1] = ChildContext(n + 2)]
      /\ pid_arr' = pid_arr \cup {n + 1}
      /\ sched_pid' = [sched EXCEPT ![n] = n + 1]
      /\ cpu' = [mode |-> "start", stk |-> n + 2]
      /\ program_count' = (n + 1) % 256
  BY <1>0, <1>4, <1>6 DEF execute_handler, ExecuteBase
<1>9. program_count' = n + 1
  <2>1. n + 1 \in 0 .. 255
    BY <1>1, <1>2, <1>4
  <2> QED BY <1>8, <2>1, ByteNoWrap
<1>10. EnteredAll \in [Pids -> Frames] /\ \A q \in Pids : EnteredAll[q] = ctx[q]
  BY <1>2, EnteredFrames, EntryEffect DEF IInv
<1>11. SavedFrame = StartFrame(n)
  BY <1>2 DEF SavedFrame, StartFrame, EntryStack
<1>12. \A p \in 1 .. n : p \in Pids /\ Saved[p] = StartFrame(p)
  <2>1. \A p \in 1 .. n : p \in Pids /\ (p = n \/ p \in 1 .. n - 1)
    BY <1>1, <1>2, <1>7 DEF Pids
  <2> QED BY <1>2, <1>5, <1>10, <1>11, <2>1 DEF Saved
<1>13. \A p \in 1 .. n : ctx'[p] = StartFrame(p)
  <2> TAKE p \in 1 .. n
  <2>1. StartFrame(p).stk # n + 2
    BY <1>2 DEF StartFrame, StartRegion
  <2>2. c[p] = StartFrame(p)
    BY <1>6, <1>12, <2>1 DEF Clobbered
  <2>3. p # n + 1
    BY <1>2
  <2> QED BY <1>6, <1>8, <1>12, <2>2, <2>3
<1>14. ASSUME NEW t \in Terms PROVE sched_pid'[t] = IF t < n + 1 THEN t + 1 ELSE 0
  <2>1. sched_pid \in [Terms -> 0 .. programMax]
    BY DEF IInv, TypeOK
  <2>2. CASE t = n
    BY <1>2, <1>6, <1>7, <1>8, <2>1, <2>2
  <2>3. CASE t # n
    <3>1. sched_pid'[t] = sched_pid[t]
      BY <1>6, <1>8, <2>1, <2>3
    <3> QED BY <1>2, <2>3, <3>1 DEF Terms
  <2> QED BY <2>2, <2>3
<1>15. pid_arr' = 1 .. n + 1 /\ n + 1 \in 1 .. NUM_TERM /\ StartRegion(n + 1) = n + 2
  BY <1>1, <1>2, <1>4, <1>8 DEF StartRegion
<1>16. (n + 1) - 1 = n
  BY <1>2
<1>17. cpu'.mode = "start" /\ cpu'.stk = n + 2
  BY <1>8
<1> QED
  BY <1>6, <1>9, <1>13, <1>14, <1>15, <1>16, <1>17 DEF Launching

\* The first tick starts the first shell on its own region.
LEMMA TickBootLaunching ==
  ASSUME IInv, TickBoot
  PROVE  Launching'
<1>1. NUM_TERM \in Nat /\ NUM_TERM > 0 /\ 0 \in Terms
  BY ProcessesAssumption DEF Terms
<1>2. program_count = 0 /\ pid_arr = {} /\ curr_process = 0 /\ \A t \in Terms : sched_pid[t] = 0
  BY DEF IInv, Booting, Starting, Running, TickBoot
<1>3. execute_handler([sched_pid EXCEPT ![0] = 1], ctx, 1) /\ curr_process' = 0
  BY <1>2 DEF TickBoot
<1>4. /\ pid_arr' = {1}
      /\ sched_pid' = [[sched_pid EXCEPT ![0] = 1] EXCEPT ![0] = 1]
      /\ cpu' = [mode |-> "start", stk |-> 1]
      /\ program_count' = 1
  BY <1>1, <1>2, <1>3 DEF execute_handler, ExecuteBase
<1>5. \A t \in Terms : sched_pid'[t] = IF t < 1 THEN t + 1 ELSE 0
  BY <1>1, <1>2, <1>4 DEF IInv, TypeOK, Terms
<1>6. StartRegion(1) = 1 /\ 1 \in 1 .. NUM_TERM /\ {1} = 1 .. 1 /\ 1 - 1 = 0 /\ 1 .. 0 = {}
  BY <1>1 DEF StartRegion
<1>7. cpu'.mode = "start" /\ cpu'.stk = 1
  BY <1>4
<1> QED
  BY <1>3, <1>4, <1>5, <1>6, <1>7 DEF Launching

\* Every step preserves the invariant of the contexts.
LEMMA NextContextInv ==
  ASSUME Ordinary, IInv, ContextInv, [Next]_vars, ~ landed'
  PROVE  ContextInv'
<1>1. "background" \notin Env
  BY DEF Ordinary
<1>2. CASE cpu.mode = "boot"
  <2>1. UNCHANGED cpu \/ TickBoot
    BY <1>2 DEF Next, pit_interrupt_handler, TickStart, TickSwitch, Execute, Halt,
                KernelVisit, Open, Close, ReadBegin, ReadEnd,
                terminal_switch, Exception, vars
  <2> QED BY <1>2, <2>1, TickBootLaunching DEF ContextInv
<1>3. CASE cpu.mode = "fault" /\ SuspendedResumable
  <2>1. UNCHANGED vars
    BY <1>3 DEF Next, pit_interrupt_handler, TickBoot, TickStart, TickSwitch, Execute, Halt,
                KernelVisit, Open, Close, ReadBegin, ReadEnd,
                terminal_switch, Interruptible, Exception
  <2> QED BY <1>3, <2>1 DEF ContextInv, SuspendedResumable, vars
<1>4. CASE Launching
  <2>1. cpu.mode = "start"
    BY <1>4 DEF Launching
  <2>2. UNCHANGED vars \/ TickStart \/ TickSwitch
    BY <2>1 DEF Next, pit_interrupt_handler, TickBoot, Execute, Halt,
                KernelVisit, Open, Close, ReadBegin, ReadEnd,
                terminal_switch, Interruptible, Exception
  <2>3. UNCHANGED vars => Launching'
    BY <1>4 DEF Launching, vars
  <2> QED BY <1>4, <2>2, <2>3, TickStartLaunching, LaunchedRotating DEF ContextInv
<1>5. CASE \E anc \in [Pids -> SUBSET Pids] : Rotating(anc)
  <2>1. PICK anc \in [Pids -> SUBSET Pids] : Rotating(anc)
    BY <1>5
  <2>2. Live(anc) /\ cpu.mode \in {"user", "read", "start"} /\ esp0.stk \in anc[pcb_current]
        /\ (cpu.mode = "read" => cpu.stk \in anc[pcb_current])
    BY <2>1 DEF Rotating, Live, Homes
  <2>3. SUFFICES \/ cpu' = Fault /\ SuspendedResumable'
                 \/ Rotating(anc)'
                 \/ \E new \in [Pids -> SUBSET Pids] : Rotating(new)'
    BY DEF ContextInv, Fault
  <2>4. cpu.mode # "user" => EnteredAll = ctx
    <3>1. ctx \in [Pids -> Frames] /\ EnteredAll \in [Pids -> Frames]
      BY EnteredFrames DEF IInv, TypeOK
    <3> QED BY <3>1, EntryEffect
  <2>5. CASE pit_interrupt_handler
    <3>1. ~ TickBoot
      BY <2>2 DEF TickBoot
    <3>2. ~ TickStart
      BY <2>2, NextTerminal DEF TickStart, Live, Running, IInv
    <3> QED BY <2>1, <2>5, <3>1, <3>2, TickRotating DEF pit_interrupt_handler
  <2>6. CASE Execute
    BY <1>1, <2>1, <2>6, ExecuteRotating
  <2>7. CASE Halt
    BY <2>1, <2>7, HaltRotating
  <2>8. CASE KernelVisit \/ Open \/ Close
    BY <2>1, <2>2, <2>8, QuietRotating DEF KernelVisit, Open, Close
  <2>9. CASE ReadBegin
    BY <2>1, <2>2, <2>9, QuietRotating DEF ReadBegin
  <2>10. CASE ReadEnd
    BY <2>1, <2>2, <2>4, <2>10, QuietRotating DEF ReadEnd, User
  <2>11. CASE terminal_switch
    <3>1. cpu.mode \in {"user", "read"}
      BY <2>2, <2>11 DEF terminal_switch, Interruptible
    <3> QED BY <2>1, <2>2, <2>11, <3>1, QuietRotating DEF terminal_switch
  <2>12. CASE UNCHANGED vars \/ Exception
    <3>1. UNCHANGED vars
      BY <2>12 DEF Exception
    <3>2. Running' /\ Ancestry(anc)'
      BY <2>2, <3>1, AncestryUnchanged DEF vars, Live, Running
    <3>3. Homes(anc)'
      BY <2>2, <3>1 DEF vars, Live, Homes, Away, AwayIn
    <3>4. FirstRound(anc) => FirstRound(anc)'
      BY <3>1 DEF vars, FirstRound, Kept, Away, AwayIn
    <3>5. LaterRound(anc) => LaterRound(anc)'
      BY <3>1 DEF vars, LaterRound, Kept, Away, AwayIn
    <3> QED BY <2>1, <3>2, <3>3, <3>4, <3>5 DEF Rotating, Live
  <2> QED
    BY <2>5, <2>6, <2>7, <2>8, <2>9, <2>10, <2>11, <2>12 DEF Next
<1> QED
  BY <1>2, <1>3, <1>4, <1>5 DEF ContextInv

\* The invariant of the contexts gives what the scheduler needs.
LEMMA ContextsResumable ==
  ASSUME IInv, ContextInv
  PROVE  SuspendedResumable
<1>1. CASE cpu.mode = "boot"
  BY <1>1 DEF IInv, Booting, Starting, Running, SuspendedResumable
<1>2. CASE Launching
  <2> SUFFICES ASSUME NEW t \in Terms \ {curr_process}, sched_pid[t] # 0
               PROVE  ctx[sched_pid[t]].ok /\ ctx[sched_pid[t]].mode = "start"
    BY DEF SuspendedResumable
  <2>1. /\ curr_process = program_count - 1 /\ program_count \in 1 .. NUM_TERM
        /\ sched_pid[t] = IF t < program_count THEN t + 1 ELSE 0
    BY <1>2 DEF Launching
  <2>2. sched_pid[t] = t + 1 /\ t + 1 \in 1 .. program_count - 1
    BY <2>1, ProcessesAssumption DEF Terms
  <2>3. ctx[sched_pid[t]] = StartFrame(t + 1)
    BY <1>2, <2>2 DEF Launching
  <2> QED BY <2>3 DEF StartFrame
<1>3. CASE \E anc \in [Pids -> SUBSET Pids] : Rotating(anc)
  <2>1. PICK anc \in [Pids -> SUBSET Pids] : Rotating(anc)
    BY <1>3
  <2> SUFFICES ASSUME NEW t \in Terms \ {curr_process}
               PROVE  /\ ctx[sched_pid[t]].ok
                      /\ ctx[sched_pid[t]].mode \in {"start", "user", "read"}
    BY DEF SuspendedResumable
  <2>2. curr_process \in Nat /\ t \in Nat
    BY ProcessesAssumption DEF IInv, TypeOK, Terms
  <2>3. CASE LaterRound(anc)
    BY <2>3 DEF LaterRound, Kept, Intact
  <2>4. CASE FirstRound(anc) /\ t < curr_process
    BY <2>4 DEF FirstRound, Kept, Intact
  <2>5. CASE FirstRound(anc) /\ t > curr_process
    <3>1. ctx[sched_pid[t]] = StartFrame(t + 1)
      BY <2>5 DEF FirstRound
    <3> QED BY <3>1 DEF StartFrame
  <2> QED BY <2>1, <2>2, <2>3, <2>4, <2>5 DEF Rotating
<1> QED BY <1>1, <1>2, <1>3 DEF ContextInv

\* Once a return has landed, it has.
LEMMA LandedStays ==
  ASSUME [Next]_vars, landed
  PROVE  landed'
BY DEF Next, pit_interrupt_handler, TickBoot, TickStart, TickSwitch, Execute, Halt, Return,
       KernelVisit, Open, Close, ReadBegin, ReadEnd, terminal_switch, Exception, vars

\* Until a return through an overwritten frame has landed somewhere, the scheduler only ever
\* resumes contexts that are intact, although the shells are started on regions that other
\* processes use.
THEOREM ContextsCorrect ==
  ASSUME Ordinary
  PROVE  Spec => []SuspendedResumable
<1> DEFINE Inv == landed \/ ContextInv
<1>1. Spec => []IInv
  BY Invariance
<1>2. Init => Inv
  BY DEF Init, ContextInv
<1>3. IInv /\ Inv /\ [Next]_vars => Inv'
  <2> SUFFICES ASSUME IInv, Inv, [Next]_vars PROVE landed' \/ ContextInv'
    OBVIOUS
  <2>1. CASE landed
    BY <2>1, LandedStays
  <2>2. CASE ContextInv
    BY <2>2, NextContextInv
  <2> QED
    BY <2>1, <2>2
<1>4. IInv /\ Inv => SuspendedResumable
  BY ContextsResumable DEF SuspendedResumable
<1> QED
  BY <1>1, <1>2, <1>3, <1>4, PTL DEF Spec
=============================================================================
