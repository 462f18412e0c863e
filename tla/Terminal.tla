------------------------------- MODULE Terminal -------------------------------
(***************************************************************************)
(* The line buffer of the mp3 kernel (terminal.c, keyboard.c and the       *)
(* switching part of scheduler.c): one buffer and one index, filled by the *)
(* keyboard interrupt for the visible terminal, saved and restored when    *)
(* the visible terminal changes, and emptied by the process whose read     *)
(* spins with interrupts on until a line is complete.                      *)
(*                                                                         *)
(* Each terminal has one process, which writes and reads in any order.     *)
(* The characters on the screen, the cursor and the modifier keys are left *)
(* out; a key is the character the keys_map gives it.                      *)
(***************************************************************************)
EXTENDS Integers, Sequences, SequencesExt, FiniteSets

CONSTANTS
  NUM_TERM,        \* terminals (3)
  keyBufferSize,   \* one more than the length of keyBuffer (128)
  WRAP,            \* a line break is stored every so many characters (73)
  Keys,            \* the printable characters
  Behind,          \* how many bytes behind the array a read may take for characters
  Env              \* what users and programs may do beyond the ordinary, see below

(***************************************************************************)
(* Ordinarily a user presses Enter when the program of the visible         *)
(* terminal reads, then waits for it, and switches terminals between       *)
(* lines, which are no longer than WRAP, and a program writes before it    *)
(* reads.  Members of Env:                                                 *)
(*  "switch"   the visible terminal may change in the middle of a line;    *)
(*  "ahead"    Enter may be pressed, and keys after it, at any time;       *)
(*  "long"     a line may be longer than WRAP;                             *)
(*  "reread"   a program may read twice without writing in between;        *)
(*  "split"    a switch may fall between the loads of a read's spin loop,  *)
(*             or between the loop and its cli.                            *)
(* The programs ask for 1023 bytes, of an array of 127: what lies behind   *)
(* it is up to the linker, and Behind is what a read may find there.       *)
(***************************************************************************)
ASSUME TerminalAssumption ==
  /\ NUM_TERM \in Nat \ {0}
  /\ keyBufferSize \in Nat /\ keyBufferSize > 3
  /\ WRAP \in Nat \ {0}
  /\ Behind \subseteq Nat
  /\ Env \subseteq {"switch", "ahead", "long", "reread", "split"}
  /\ {"nul", "newLine"} \cap Keys = {}

VARIABLES
  keyBuffer,       \* the array, and at the last index the byte behind it
  keyBufferIndex,
  keyBuf,          \* term_arr[t].keyBuf
  enterFlag,       \* term_arr[t].enterFlag
  visible,         \* term_arr[t].visible
  curr_terminal,
  curr_process,
  proc,            \* what the process of each terminal does
  typed,           \* history: the keys of each terminal's unfinished line, as edited
  entered,         \* history: Enter was pressed on the terminal since its last read
  filled           \* history: the last write filled a row of the screen it was seen on

vars == <<keyBuffer, keyBufferIndex, keyBuf, enterFlag, visible, curr_terminal,
          curr_process, proc, typed, entered, filled>>
screenVars == <<keyBuf, visible, curr_terminal>>

Terms == 0 .. NUM_TERM - 1
maxInputLength == keyBufferSize - 1
Line == 0 .. maxInputLength - 1
Bytes == Keys \cup {"nul", "newLine"}

(***************************************************************************)
(* run, wrote: in user code, after a read and after a write; flag, char,   *)
(* seen: about to load the enterFlag, keyBuffer[0] and the visible flag in *)
(* the spin loop of terminal_read; copy: past the loop, before the cli.    *)
(***************************************************************************)
Steps == {"run", "wrote", "flag", "char", "seen", "copy"}
Reading(t) == proc[t] \in {"flag", "char", "seen", "copy"}

Init ==
  /\ keyBuffer = [i \in 0 .. maxInputLength |-> "nul"]
  /\ keyBufferIndex = 0
  /\ keyBuf = [t \in Terms |-> [i \in Line |-> "nul"]]
  /\ enterFlag = [t \in Terms |-> FALSE]
  /\ visible = [t \in Terms |-> t = 0]
  /\ curr_terminal = 0
  /\ curr_process = 0
  /\ proc = [t \in Terms |-> "run"]
  /\ typed = [t \in Terms |-> <<>>]
  /\ entered = [t \in Terms |-> FALSE]
  /\ filled = [t \in Terms |-> FALSE]

-----------------------------------------------------------------------------
(***************************************************************************)
(* keyboard_inter_handler.                                                 *)
(***************************************************************************)

\* The user may press a key that changes the line.
MayType == "ahead" \in Env \/ ~ entered[curr_terminal]

\* Faulty variant: one character too many is accepted.
KeyLimit_long == keyBufferSize - 1
\* key_press stores nothing from this index on.
KeyLimit == keyBufferSize - 2

\* The end of key_press, reached with buffer b and index i.
Padded(b, i) == IF i = maxInputLength THEN [b EXCEPT ![i] = "newLine"] ELSE b

\* What key_press does for a key without a character: below the limit it returns.
Unprinted(b, i) == IF i < KeyLimit THEN b ELSE Padded(b, i)

\* A printable key.  A full line does not take it.
key_press ==
  \E k \in Keys :
    LET wraps == keyBufferIndex # 0 /\ keyBufferIndex % WRAP = 0
        at    == IF wraps THEN keyBufferIndex + 1 ELSE keyBufferIndex
        broken == IF wraps THEN [keyBuffer EXCEPT ![keyBufferIndex] = "newLine"] ELSE keyBuffer
    IN  /\ MayType
        /\ "long" \in Env \/ ~ wraps
        /\ IF keyBufferIndex < KeyLimit
             THEN /\ keyBufferIndex' = at + 1
                  /\ keyBuffer' = Padded([broken EXCEPT ![at] = k], at + 1)
                  /\ typed' = [typed EXCEPT ![curr_terminal] = Append(@, k)]
             ELSE /\ keyBuffer' = Padded(keyBuffer, keyBufferIndex)
                  /\ UNCHANGED <<keyBufferIndex, typed>>
        /\ UNCHANGED <<enterFlag, entered, filled, proc, curr_process, screenVars>>

\* Ctrl+L: the loop over keyBufferSize entries also clears the byte behind the array.
ClearLine ==
  /\ MayType
  /\ keyBufferIndex < KeyLimit
  /\ keyBuffer' = [i \in 0 .. maxInputLength |-> "nul"]
  /\ keyBufferIndex' = 0
  /\ typed' = [typed EXCEPT ![curr_terminal] = <<>>]
  /\ UNCHANGED <<enterFlag, entered, filled, proc, curr_process, screenVars>>

\* Backspace empties the entry behind the last character and steps back, twice over a
\* line break.
Backspace ==
  /\ MayType
  /\ keyBufferIndex > 0
  /\ LET broken == keyBuffer[keyBufferIndex] = "newLine"
         at  == IF broken THEN keyBufferIndex - 1 ELSE keyBufferIndex
         buf == IF broken THEN [keyBuffer EXCEPT ![keyBufferIndex] = "nul"] ELSE keyBuffer
     IN  /\ at > 0   \* bound: an index of -1 is outside the model
         /\ keyBufferIndex' = at - 1
         /\ keyBuffer' = Unprinted([buf EXCEPT ![at] = "nul"], at - 1)
  /\ typed' = [typed EXCEPT ![curr_terminal] = IF @ = <<>> THEN @ ELSE Front(@)]
  /\ UNCHANGED <<enterFlag, entered, filled, proc, curr_process, screenVars>>

\* Faulty variant: enter instead of enter_user, the terminal of the running process.
EnterTerminal_running == curr_process
\* The terminal whose enterFlag enter_user sets.
EnterTerminal == curr_terminal

\* Enter stores without looking at the index; what lies behind the array and its padding
\* byte is outside the model, which bounds the index here.
Enter ==
  /\ MayType
  /\ "ahead" \in Env \/ Reading(curr_terminal)
  /\ keyBufferIndex < keyBufferSize
  /\ enterFlag' = [enterFlag EXCEPT ![EnterTerminal] = TRUE]
  /\ keyBufferIndex' = keyBufferIndex + 1
  /\ keyBuffer' = Unprinted([keyBuffer EXCEPT ![keyBufferIndex] = "newLine"], keyBufferIndex + 1)
  /\ entered' = [entered EXCEPT ![curr_terminal] = TRUE]
  /\ UNCHANGED <<typed, filled, proc, curr_process, screenVars>>

\* Alt+F1..F3: the buffer is exchanged, the index is not.
terminal_switch ==
  /\ "switch" \in Env \/ keyBufferIndex = 0
  /\ "split" \in Env \/ \A t \in Terms : proc[t] \notin {"char", "seen", "copy"}
  /\ \E idx \in Terms \ {curr_terminal} :
       /\ keyBuf' = [keyBuf EXCEPT ![curr_terminal] = [i \in Line |-> keyBuffer[i]]]
       /\ keyBuffer' = [i \in 0 .. maxInputLength |->
                          IF i \in Line THEN keyBuf[idx][i] ELSE keyBuffer[i]]
       /\ visible' = [visible EXCEPT ![curr_terminal] = FALSE, ![idx] = TRUE]
       /\ curr_terminal' = idx
  /\ UNCHANGED <<keyBufferIndex, enterFlag, entered, typed, filled, proc, curr_process>>

-----------------------------------------------------------------------------
(***************************************************************************)
(* Processes and the PIT.                                                  *)
(***************************************************************************)
Tick ==
  /\ curr_process' = (curr_process + 1) % NUM_TERM
  /\ UNCHANGED <<keyBuffer, keyBufferIndex, enterFlag, entered, typed, filled, proc, screenVars>>

Step(t, from, to) == proc[t] = from /\ proc' = [proc EXCEPT ![t] = to]

\* terminal_write clears the enterFlag of the running process's terminal.  NUM_COLS
\* characters without a line break fill a row: on a visible terminal enter_user, which is
\* also what the Enter key calls, then sets the flag again, on another one enter does not.
terminal_write ==
  /\ ~ Reading(curr_process)
  /\ proc' = [proc EXCEPT ![curr_process] = "wrote"]
  /\ \E row \in BOOLEAN :
       LET user == row /\ visible[curr_process]
       IN  /\ enterFlag' = [enterFlag EXCEPT ![curr_process] = user]
           /\ filled' = [filled EXCEPT ![curr_process] = user]
  /\ UNCHANGED <<keyBuffer, keyBufferIndex, entered, typed, curr_process, screenVars>>

\* terminal_read is called, by a program that has written unless "reread".
ReadBegin ==
  /\ \/ Step(curr_process, "wrote", "flag")
     \/ "reread" \in Env /\ Step(curr_process, "run", "flag")
  /\ UNCHANGED <<keyBuffer, keyBufferIndex, enterFlag, entered, typed, filled, curr_process,
                 screenVars>>

\* Faulty variant: the reader does not ask whether its terminal is visible.
ReaderVisible_any == TRUE
\* The last test of the spin loop.
ReaderVisible == visible[curr_process]

\* The three loads of the spin loop, in the order of the && operators: the flag of the
\* visible terminal, the first byte, and whether the running process's terminal is visible.
ReadSpin ==
  /\ \/ enterFlag[curr_terminal] /\ Step(curr_process, "flag", "char")
     \/ Step(curr_process, "char", IF keyBuffer[0] # "nul" THEN "seen" ELSE "flag")
     \/ Step(curr_process, "seen", IF ReaderVisible THEN "copy" ELSE "flag")
  /\ UNCHANGED <<keyBuffer, keyBufferIndex, enterFlag, entered, typed, filled, curr_process,
                 screenVars>>

\* The bytes copied keep their positions; line breaks are skipped.
Copied == {i \in Line : keyBuffer[i] \notin {"nul", "newLine"}}
int8_t(n) == ((n + 128) % 256) - 128
\* What the caller finds in its buffer, as far as the array goes, and the count it is given.
\* The loop runs to the larger of nbytes and maxInputLength, and counts what it meets.
ReadResults ==
  {[buf |-> [i \in Copied |-> keyBuffer[i]], count |-> int8_t(Cardinality(Copied) + e)]
    : e \in Behind}

\* The part of terminal_read after its cli.
ReadCopy ==
  /\ Step(curr_process, "copy", "run")
  /\ keyBuffer' = [i \in 0 .. maxInputLength |-> IF i \in Line THEN "nul" ELSE keyBuffer[i]]
  /\ keyBufferIndex' = 0
  /\ typed' = [typed EXCEPT ![curr_process] = <<>>]
  /\ entered' = [entered EXCEPT ![curr_process] = FALSE]
  /\ UNCHANGED <<enterFlag, filled, curr_process, screenVars>>

terminal_read(t) == curr_process = t /\ (ReadSpin \/ ReadCopy)

Next ==
  \/ key_press \/ ClearLine \/ Backspace \/ Enter
  \/ terminal_switch
  \/ Tick
  \/ terminal_write \/ ReadBegin
  \/ \E t \in Terms : terminal_read(t)

Spec == Init /\ [][Next]_vars

\* The PIT ticks for ever, and a quantum is long enough for a step of the spin loop.
FairSpec == Spec /\ WF_vars(Tick) /\ \A t \in Terms : SF_vars(terminal_read(t))

-----------------------------------------------------------------------------
(***************************************************************************)
(* Properties.                                                             *)
(***************************************************************************)

\* The index never leaves the array by more than its padding byte, and exactly the visible
\* terminal is marked visible.
TypeOK ==
  /\ keyBuffer \in [0 .. maxInputLength -> Bytes]
  /\ keyBufferIndex \in 0 .. maxInputLength
  /\ keyBuf \in [Terms -> [Line -> Bytes]]
  /\ enterFlag \in [Terms -> BOOLEAN]
  /\ visible = [t \in Terms |-> t = curr_terminal]
  /\ curr_terminal \in Terms
  /\ curr_process \in Terms
  /\ proc \in [Terms -> Steps]
  /\ typed \in [Terms -> Seq(Keys)]
  /\ entered \in [Terms -> BOOLEAN]
  /\ filled \in [Terms -> BOOLEAN]

\* A read that is about to copy finds the line of its own terminal, as edited so far,
\* character by character from the first on.  Once Enter has been pressed there it finds
\* nothing else in the array, and the count is the length of the line and of what it meets
\* behind the array.  Without Enter no read gets here, unless the program's last write has
\* filled a row of the screen.
ReadDelivers ==
  proc[curr_process] = "copy" =>
    LET line == typed[curr_process]
    IN  /\ entered[curr_process] \/ filled[curr_process]
        /\ \A r \in ReadResults :
             /\ \A k \in DOMAIN line : k - 1 \in DOMAIN r.buf /\ r.buf[k - 1] = line[k]
             /\ entered[curr_process] =>
                  /\ DOMAIN r.buf = 0 .. Len(line) - 1
                  /\ \E e \in Behind : r.count = int8_t(Len(line) + e)

\* Once Enter is pressed on the terminal of a reading process, the read returns, unless the
\* user turns to another terminal.
EnteredLineRead ==
  \A t \in Terms : (entered[t] /\ Reading(t)) ~> (~ entered[t] \/ curr_terminal # t)
=============================================================================
