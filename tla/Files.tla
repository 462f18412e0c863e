-------------------------------- MODULE Files --------------------------------
(***************************************************************************)
(* Descriptors, the read-only file system and the real-time clock of the   *)
(* mp3 kernel: open, read, write and close (syscall.c) on regular files    *)
(* and the directory (filesystem.c) and on the clock (rtc.c), by processes *)
(* that the PIT preempts.                                                  *)
(*                                                                         *)
(* A byte of a file is named by the data block it lies in and its place    *)
(* there, a byte of the directory by entry and place.  open and close run  *)
(* with interrupts disabled, and a read of a file touches nothing that     *)
(* another process changes, so each is one step; a read of the clock waits *)
(* in a loop and can be preempted between its test and its assignment.     *)
(* Descriptors 0 and 1 are the terminal's, see Terminal; a name that open  *)
(* takes for a prefix of "stdin" or "stdout" is not in the directory.      *)
(***************************************************************************)
EXTENDS Integers, Sequences, SequencesExt, FiniteSets

CONSTANTS
  Proc,           \* the processes
  fdMax,          \* 7: the last descriptor
  Inodes,         \* the inodes by number, each [length, data_block_num]
  direntries,     \* the directory: a sequence of [filename, filetype, inode_num]
  BLOCK_SIZE,     \* 4096
  FILENAME_LEN,   \* 32
  Names,          \* bound: names that are opened
  Lengths,        \* bound: lengths that are read
  Freqs,          \* bound: frequencies that are written
  MaxOpens        \* bound: how often open succeeds

ASSUME FilesAssumption ==
  /\ fdMax \in Nat /\ fdMax >= 2
  /\ BLOCK_SIZE \in Nat \ {0} /\ FILENAME_LEN \in Nat \ {0}
  /\ Lengths \subseteq Nat
  /\ Len(direntries) \in Nat /\ DOMAIN direntries = 1 .. Len(direntries)
  /\ \A i \in DOMAIN direntries :
       /\ direntries[i].filetype \in {"file", "dir", "rtc"}
       /\ direntries[i].filetype = "file" => direntries[i].inode_num \in DOMAIN Inodes
  /\ \A k \in DOMAIN Inodes : Inodes[k].length \in Nat

VARIABLES
  pcb_arr,      \* the descriptors of each process from 2 on
  got,          \* what has been read from each of them since it was opened
  short,        \* whether a read of it has returned less than was asked for
  reader,       \* rtc_read of each process: not called, in its loop, or past it
  rtc_status,
  rate,         \* the rate in register A of the clock
  asked,        \* the last frequency anybody has asked for and could have
  opens         \* bound: successful calls of open so far

vars == <<pcb_arr, got, short, reader, rtc_status, rate, asked, opens>>

Fds == 2 .. fdMax
dir_count == Len(direntries)
Closed == [flags |-> 0, operations |-> "none", inode |-> 0, file_position |-> 0]

-----------------------------------------------------------------------------
(***************************************************************************)
(* The file system.                                                        *)
(***************************************************************************)

\* The first entry of that name.
read_dentry_by_name(fname) ==
  LET i == SelectInSeq(direntries, LAMBDA d : d.filename = fname)
  IN  IF i = 0 THEN [filetype |-> "none"] ELSE direntries[i]

\* The byte at a position of a file; behind the last block there is no telling.
Byte(inode, pos) ==
  LET blocks == Inodes[inode].data_block_num
      idx == pos \div BLOCK_SIZE
  IN  IF idx < Len(blocks) THEN <<blocks[idx + 1], pos % BLOCK_SIZE>> ELSE <<"past", pos>>

\* Copies while the file is at least as long as the position, so that one byte behind its
\* end belongs to it.
read_data(inode, offset, length) ==
  LET n == Cardinality({i \in 0 .. length - 1 : Inodes[inode].length >= offset + i})
  IN  [i \in 1 .. n |-> Byte(inode, offset + i - 1)]

file_read(f, length) == read_data(f.inode, f.file_position, length)

Letter(pos) == <<pos \div FILENAME_LEN, pos % FILENAME_LEN>>

\* Copies names, one behind the other.  The loop tests the entry of the byte before, so
\* that it too may go one byte too far.
directory_read(offset, length) ==
  LET n == Cardinality({i \in 0 .. length - 1 :
             (IF i = 0 THEN offset ELSE offset + i - 1) \div FILENAME_LEN < dir_count})
  IN  [i \in 1 .. n |-> Letter(offset + i - 1)]

-----------------------------------------------------------------------------
(***************************************************************************)
(* The clock.                                                              *)
(***************************************************************************)

\* Faulty variant: the rate is counted before the comparison.
set_frequency_late(freq) ==
  LET i == {k \in 0 .. 9 : 1024 \div 2^k = freq}
  IN  IF i = {} THEN rate ELSE 7 + CHOOSE k \in i : TRUE
\* The rate of a power of two from 1024 down to 2, and the old rate for any other value.
set_frequency(freq) ==
  LET i == {k \in 0 .. 9 : 1024 \div 2^k = freq}
  IN  IF i = {} THEN rate ELSE 6 + CHOOSE k \in i : TRUE

\* Reference: the frequency the hardware runs at.
Frequency(r) == 2^(16 - r)

\* Opening the clock resets it for everyone.
rtc_open ==
  /\ rtc_status' = 0
  /\ rate' = set_frequency(2) /\ asked' = 2

rtc_write(freq) ==
  /\ rate' = set_frequency(freq)
  /\ asked' = IF freq \in {2^k : k \in 1 .. 10} THEN freq ELSE asked
  /\ UNCHANGED rtc_status

\* Faulty variant: the flag is not set.
rtc_interrupt_handler_silent ==
  UNCHANGED vars
\* A tick: the flag stays set until some reader clears it.
rtc_interrupt_handler ==
  /\ rtc_status' = 1
  /\ UNCHANGED <<pcb_arr, got, short, reader, rate, asked, opens>>

\* The test of the loop succeeds.
SeeTick(p) ==
  /\ reader[p] = "loop" /\ rtc_status = 1
  /\ reader' = [reader EXCEPT ![p] = "past"]
  /\ UNCHANGED <<pcb_arr, got, short, rtc_status, rate, asked, opens>>

\* The assignment behind it, and the return.
ClearTick(p) ==
  /\ reader[p] = "past"
  /\ reader' = [reader EXCEPT ![p] = "none"]
  /\ rtc_status' = 0
  /\ UNCHANGED <<pcb_arr, got, short, rate, asked, opens>>

-----------------------------------------------------------------------------
(***************************************************************************)
(* System calls.                                                           *)
(***************************************************************************)

Free(p) == {fd \in Fds : pcb_arr[p][fd].flags = 0}

\* Faulty variant: the descriptor keeps the position of the file it had before.
Opened_stale(p, fd, d) ==
  [flags |-> 1, operations |-> d.filetype, file_position |-> pcb_arr[p][fd].file_position,
   inode |-> IF d.filetype = "file" THEN d.inode_num ELSE 0]
Opened(p, fd, d) ==
  [flags |-> 1, operations |-> d.filetype, file_position |-> 0,
   inode |-> IF d.filetype = "file" THEN d.inode_num ELSE 0]

\* Takes the first free descriptor; the open functions of files do nothing.
open_handler(p, filename) ==
  LET d == read_dentry_by_name(filename)
      fd == CHOOSE f \in Free(p) : \A g \in Free(p) : f <= g
  IN  /\ opens < MaxOpens   \* bound
      /\ reader[p] = "none"
      /\ d.filetype # "none" /\ Free(p) # {}
      /\ pcb_arr' = [pcb_arr EXCEPT ![p][fd] = Opened(p, fd, d)]
      /\ got' = [got EXCEPT ![p][fd] = <<>>]
      /\ short' = [short EXCEPT ![p][fd] = FALSE]
      /\ IF d.filetype = "rtc" THEN rtc_open ELSE UNCHANGED <<rtc_status, rate, asked>>
      /\ opens' = opens + 1
      /\ UNCHANGED reader

\* Reads a file or the directory from the descriptor's position on, and advances it.
read_handler(p, fd, nbytes) ==
  LET f == pcb_arr[p][fd]
      buf == IF f.operations = "file" THEN file_read(f, nbytes)
                                      ELSE directory_read(f.file_position, nbytes)
  IN  /\ reader[p] = "none"
      /\ f.flags = 1 /\ f.operations \in {"file", "dir"}
      /\ pcb_arr' = [pcb_arr EXCEPT ![p][fd].file_position = @ + Len(buf)]
      /\ got' = [got EXCEPT ![p][fd] = @ \o buf]
      /\ short' = [short EXCEPT ![p][fd] = @ \/ Len(buf) < nbytes]
      /\ UNCHANGED <<reader, rtc_status, rate, asked, opens>>

\* Reads the clock: enters the loop of rtc_read.
rtc_read(p, fd) ==
  /\ reader[p] = "none"
  /\ pcb_arr[p][fd].flags = 1 /\ pcb_arr[p][fd].operations = "rtc"
  /\ reader' = [reader EXCEPT ![p] = "loop"]
  /\ UNCHANGED <<pcb_arr, got, short, rtc_status, rate, asked, opens>>

\* Only the clock can be written to: file_write and directory_write do nothing.
write_handler(p, fd, freq) ==
  /\ reader[p] = "none"
  /\ pcb_arr[p][fd].flags = 1 /\ pcb_arr[p][fd].operations = "rtc"
  /\ rtc_write(freq)
  /\ UNCHANGED <<pcb_arr, got, short, reader, opens>>

\* The descriptor is marked free; the rest of it stays.
close_handler(p, fd) ==
  /\ reader[p] = "none"
  /\ pcb_arr[p][fd].flags = 1
  /\ pcb_arr' = [pcb_arr EXCEPT ![p][fd].flags = 0]
  /\ UNCHANGED <<got, short, reader, rtc_status, rate, asked, opens>>

-----------------------------------------------------------------------------
Init ==
  /\ pcb_arr = [p \in Proc |-> [fd \in Fds |-> Closed]]
  /\ got = [p \in Proc |-> [fd \in Fds |-> <<>>]]
  /\ short = [p \in Proc |-> [fd \in Fds |-> FALSE]]
  /\ reader = [p \in Proc |-> "none"]
  /\ rtc_status = 0
  /\ rate = 6 /\ asked = 1024
  /\ opens = 0

Next ==
  \/ rtc_interrupt_handler
  \/ \E p \in Proc :
       \/ \E n \in Names : open_handler(p, n)
       \/ \E fd \in Fds :
            \/ \E n \in Lengths : read_handler(p, fd, n)
            \/ \E f \in Freqs : write_handler(p, fd, f)
            \/ rtc_read(p, fd)
            \/ close_handler(p, fd)
       \/ SeeTick(p) \/ ClearTick(p)

Spec == Init /\ [][Next]_vars

\* The clock ticks, and the scheduler lets every process run.
FairSpec ==
  /\ Spec /\ WF_vars(rtc_interrupt_handler)
  /\ \A p \in Proc : WF_vars(SeeTick(p)) /\ WF_vars(ClearTick(p))

-----------------------------------------------------------------------------
(***************************************************************************)
(* Properties.                                                             *)
(***************************************************************************)

\* What an open descriptor reads, byte by byte, and how many bytes of it are its own.
Stream(f, pos) == IF f.operations = "file" THEN Byte(f.inode, pos) ELSE Letter(pos)
Size(f) == IF f.operations = "file" THEN Inodes[f.inode].length ELSE dir_count * FILENAME_LEN

\* Whatever lengths it is read in, across the ends of blocks and entries, and whatever else
\* is opened, closed and read meanwhile: what the reads of an open descriptor deliver is its
\* file from the first byte on, without gap or repetition, and a read comes short only when
\* all of it has been delivered.  That it ends there is WithinFile.
ReadsExact ==
  \A p \in Proc : \A fd \in Fds :
    LET f == pcb_arr[p][fd]
        n == Len(got[p][fd])
    IN  f.flags = 1 =>
          /\ got[p][fd] = [i \in 1 .. n |-> Stream(f, i - 1)]
          /\ short[p][fd] => n >= Size(f)

\* read_data copies a byte only if the length of the file is greater than its position, and
\* directory_read stays within the directory count, as the comments of their loops say: no
\* more is delivered than the file has.  (Violated: read_data admits a position equal to the
\* length, and directory_read tests the entry of the byte before.)
WithinFile ==
  \A p \in Proc : \A fd \in Fds :
    pcb_arr[p][fd].flags = 1 /\ pcb_arr[p][fd].operations # "rtc" =>
      Len(got[p][fd]) <= Size(pcb_arr[p][fd])

\* The clock runs at the last frequency that was asked for and is one of its own: a value
\* that is refused changes nothing, and opening means asking for two ticks a second.
RateAsAsked == Frequency(rate) = asked

\* The ticks reach the processes that wait for them: while there are any, one leaves its
\* loop, even when the clock is opened and its flag reset between a tick and the test.
TickSeen == (\E p \in Proc : reader[p] = "loop") ~> (\E p \in Proc : reader[p] = "past")
=============================================================================
