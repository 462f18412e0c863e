------------------------------- MODULE TuxLdisc -------------------------------
(***************************************************************************)
(* The Tux controller's line discipline (mp2/module/tuxctl-ld.c): a        *)
(* receive ring and a packet assembler fed by the serial interrupt, and a  *)
(* transmit ring emptied by write_wakeup, which runs both in the process   *)
(* that called put and in the serial driver's interrupt.                   *)
(*                                                                         *)
(* A received byte is the pair of its framing bit (bit 7) and its position *)
(* in the stream, a transmitted byte is its position, so that lost,        *)
(* duplicated and reordered bytes can be told apart.                       *)
(***************************************************************************)
EXTENDS Integers, Sequences, SequencesExt

CONSTANTS
  TUXCTL_BUFSIZE,   \* size of both rings (64)
  PACKET,           \* size of data_callback's packet array (12)
  ROOM,             \* capacity of the serial driver's transmit queue
  MaxChunk,         \* bound: bytes handed over by one receive interrupt or one put
  Loads             \* bounds: pairs of the bytes received and the bytes put in all

ASSUME TuxAssumption ==
  /\ TUXCTL_BUFSIZE \in Nat /\ TUXCTL_BUFSIZE > 1
  /\ PACKET \in Nat /\ PACKET > 2
  /\ {ROOM, MaxChunk} \subseteq Nat
  /\ Loads \subseteq Nat \X Nat

VARIABLES
  rx_buf, rx_start, rx_end,
  saved,           \* data_callback's static saved[0 .. n_saved - 1]
  tx_buf, tx_start, tx_end,
  wakeup,          \* the activation of write_wakeup in each context
  fifo,            \* the serial driver's transmit queue
  owed,            \* the driver has sent a byte since it last called write_wakeup
  received,        \* history: the bytes stored in the receive ring
  packets,         \* history: the packets given to tuxctl_handle_packet
  accepted,        \* history: the bytes stored in the transmit ring
  taken,           \* history: the bytes taken out of it again
  sent,            \* history: the bytes the driver has sent
  load             \* the bounds of this session, a member of Loads

rxVars == <<rx_buf, rx_start, rx_end, saved, received, packets>>
txVars == <<tx_buf, tx_start, tx_end, wakeup, fifo, owed, accepted, taken, sent>>
vars   == <<rxVars, txVars, load>>

Slots == 0 .. TUXCTL_BUFSIZE - 1

\* The contexts write_wakeup runs in: a process after put, and the driver's interrupt.
Contexts == {"put", "interrupt"}

-----------------------------------------------------------------------------
(***************************************************************************)
(* The ring buffer macros.                                                 *)
(***************************************************************************)
buf_used(start, end) == IF start <= end THEN end - start ELSE TUXCTL_BUFSIZE + end - start

\* Faulty variant: the slot that tells a full ring from an empty one is used too.
buf_room_all(start, end) == TUXCTL_BUFSIZE - buf_used(start, end)
buf_room(start, end) == TUXCTL_BUFSIZE - buf_used(start, end) - 1

\* idx after n applications of buf_incidx.
buf_incidx(idx, n) == (idx + n) % TUXCTL_BUFSIZE

\* The bytes a ring holds, oldest first.
Content(buf, start, end) == [k \in 1 .. buf_used(start, end) |-> buf[buf_incidx(start, k - 1)]]

\* The ring after the bytes of s have been stored from index end on.
Stored(buf, end, s) ==
  [i \in Slots |-> LET k == (i - end) % TUXCTL_BUFSIZE
                   IN  IF k < Len(s) THEN s[k + 1] ELSE buf[i]]

AtMost(a, b) == IF a <= b THEN a ELSE b

-----------------------------------------------------------------------------
(***************************************************************************)
(* Packet assembly.                                                        *)
(***************************************************************************)
Framed(byte) == byte.frame

\* Faulty variant: only two of the three framing bits are tested.
IsPacket_lax(p, i) == ~ Framed(p[i]) /\ Framed(p[i + 1])
\* A packet begins at index i of p: no framing bit, then two bytes with it.
IsPacket(p, i) == ~ Framed(p[i]) /\ Framed(p[i + 1]) /\ Framed(p[i + 2])

\* Faulty variant: the loop also stops one byte too early.
ScanEnd_early(n) == n - 3
\* The last index (from 1) at which the loop of data_callback looks for a packet.
ScanEnd(n) == n - 2

\* The loop of data_callback over the packet array p: the packets found from index i on,
\* and the index the loop ends at.
Scan(p) ==
  LET n == Len(p)
      scan[i \in 1 .. n + 1] ==
        IF i > ScanEnd(n)
          THEN [found |-> <<>>, stop |-> i]
          ELSE IF IsPacket(p, i)
                 THEN [found |-> <<SubSeq(p, i, i + 2)>> \o scan[i + 3].found,
                       stop  |-> scan[i + 3].stop]
                 ELSE scan[i + 1]
  IN scan[1]

\* tuxctl_ldisc_get of n bytes from the ring content s, and what stays.
Got(s, n)  == SubSeq(s, 1, AtMost(n, Len(s)))
Left(s, n) == SubSeq(s, AtMost(n, Len(s)) + 1, Len(s))

-----------------------------------------------------------------------------
Init ==
  /\ rx_buf \in [Slots -> {[frame |-> FALSE, pos |-> 0]}]
  /\ tx_buf \in [Slots -> {0}]
  /\ rx_start = 0 /\ rx_end = 0
  /\ tx_start = 0 /\ tx_end = 0
  /\ saved = <<>>
  /\ wakeup = [c \in Contexts |-> [at |-> "idle", room |-> 0, buf |-> <<>>]]
  /\ fifo = <<>> /\ owed = FALSE
  /\ received = <<>> /\ packets = <<>>
  /\ load \in Loads
  /\ accepted = <<>> /\ taken = <<>> /\ sent = <<>>

\* The receive interrupt: the bytes that fit are stored, the others dropped, and
\* data_callback reads at most PACKET - n_saved of them back.
tuxctl_ldisc_rcv_buf ==
  \E count \in 1 .. MaxChunk : \E frames \in [1 .. count -> BOOLEAN] :
    LET c     == AtMost(count, buf_room(rx_start, rx_end))
        bytes == [k \in 1 .. c |-> [frame |-> frames[k], pos |-> Len(received) + k]]
        ring  == Content(Stored(rx_buf, rx_end, bytes), rx_start, buf_incidx(rx_end, c))
        got   == Got(ring, PACKET - Len(saved))
        p     == saved \o got
        scan  == Scan(p)
    IN  /\ Len(received) + count <= load[1]
        /\ rx_buf' = Stored(rx_buf, rx_end, bytes)
        /\ rx_end' = buf_incidx(rx_end, c)
        /\ rx_start' = buf_incidx(rx_start, Len(got))
        /\ received' = received \o bytes
        /\ packets' = packets \o scan.found
        /\ saved' = SubSeq(p, scan.stop, Len(p))
        /\ UNCHANGED <<txVars, load>>

\* Faulty variant: put leaves the bytes for the next transmit interrupt.
PutContinues_idle == "idle"
\* Where put goes on after the unlock: to write_wakeup, whatever was stored.
PutContinues == "room"

\* The locked part of put, and its call of write_wakeup.
tuxctl_ldisc_put ==
  \E n \in 1 .. MaxChunk :
    LET c     == AtMost(n, buf_room(tx_start, tx_end))
        bytes == [k \in 1 .. c |-> Len(accepted) + k]
    IN  /\ wakeup["put"].at = "idle"
        /\ Len(accepted) + n <= load[2]
        /\ tx_buf' = Stored(tx_buf, tx_end, bytes)
        /\ tx_end' = buf_incidx(tx_end, c)
        /\ accepted' = accepted \o bytes
        /\ wakeup' = [wakeup EXCEPT !["put"].at = PutContinues]
        /\ UNCHANGED <<tx_start, fifo, owed, taken, sent, rxVars, load>>

\* The driver's transmit interrupt calls write_wakeup after it has sent something.
TransmitInterrupt ==
  /\ owed
  /\ wakeup["interrupt"].at = "idle"
  /\ owed' = FALSE
  /\ wakeup' = [wakeup EXCEPT !["interrupt"].at = "room"]
  /\ UNCHANGED <<tx_buf, tx_start, tx_end, fifo, accepted, taken, sent, rxVars, load>>

\* write_wakeup asks the driver for its room, without the lock.
WakeupRoom(c) ==
  /\ wakeup[c].at = "room"
  /\ wakeup' = [wakeup EXCEPT ![c].at = "take", ![c].room = ROOM - Len(fifo)]
  /\ UNCHANGED <<tx_buf, tx_start, tx_end, fifo, owed, accepted, taken, sent, rxVars, load>>

\* The bytes the loop "while (n <= room && ...)" takes for a given room.
WakeupWants(room) == room + 1

\* write_wakeup moves bytes from the ring to its own buffer, with the lock.
WakeupTake(c) ==
  LET ring == Content(tx_buf, tx_start, tx_end)
      got  == Got(ring, WakeupWants(wakeup[c].room))
  IN  /\ wakeup[c].at = "take"
      /\ wakeup' = [wakeup EXCEPT ![c].at = "write", ![c].buf = got]
      /\ tx_start' = buf_incidx(tx_start, Len(got))
      /\ taken' = taken \o got
      /\ UNCHANGED <<tx_buf, tx_end, fifo, owed, accepted, sent, rxVars, load>>

\* driver->write takes what it has room for; the rest of the buffer is lost.
WakeupWrite(c) ==
  /\ wakeup[c].at = "write"
  /\ fifo' = fifo \o Got(wakeup[c].buf, ROOM - Len(fifo))
  /\ wakeup' = [wakeup EXCEPT ![c] = [at |-> "idle", room |-> 0, buf |-> <<>>]]
  /\ UNCHANGED <<tx_buf, tx_start, tx_end, owed, accepted, taken, sent, rxVars, load>>

\* The serial driver sends a byte of its queue.
DriverSends ==
  /\ fifo # <<>>
  /\ sent' = Append(sent, Head(fifo))
  /\ fifo' = Tail(fifo)
  /\ owed' = TRUE
  /\ UNCHANGED <<tx_buf, tx_start, tx_end, wakeup, accepted, taken, rxVars, load>>

\* The discipline is closed and opened again while nobody uses it.  Both rings are emptied;
\* the static saved bytes are not.
Reopen ==
  /\ \A c \in Contexts : wakeup[c].at = "idle"
  /\ rx_start' = 0 /\ rx_end' = 0
  /\ tx_start' = 0 /\ tx_end' = 0
  /\ received' = SubSeq(received, 1, Len(received) - buf_used(rx_start, rx_end))
  /\ accepted' = SubSeq(accepted, 1, Len(accepted) - buf_used(tx_start, tx_end))
  /\ UNCHANGED <<rx_buf, tx_buf, saved, packets, wakeup, fifo, owed, taken, sent, load>>

write_wakeup(c) == WakeupRoom(c) \/ WakeupTake(c) \/ WakeupWrite(c)

Next ==
  \/ tuxctl_ldisc_rcv_buf
  \/ tuxctl_ldisc_put
  \/ TransmitInterrupt
  \/ \E c \in Contexts : write_wakeup(c)
  \/ DriverSends
  \/ Reopen

Spec == Init /\ [][Next]_vars

\* write_wakeup runs to its end; the driver sends what it holds and interrupts after it.
FairSpec ==
  /\ Spec
  /\ \A c \in Contexts : WF_vars(write_wakeup(c))
  /\ WF_vars(DriverSends)
  /\ WF_vars(TransmitInterrupt)

-----------------------------------------------------------------------------
(***************************************************************************)
(* Properties.                                                             *)
(***************************************************************************)

\* Ring indices stay in range and the static array of two saved bytes never overflows.
TypeOK ==
  /\ {rx_start, rx_end, tx_start, tx_end} \subseteq Slots
  /\ Len(saved) <= 2
  /\ \A c \in Contexts : /\ wakeup[c].at \in {"idle", "room", "take", "write"}
                         /\ wakeup[c].room \in 0 .. ROOM
                         /\ Len(wakeup[c].buf) <= TUXCTL_BUFSIZE
  /\ Len(fifo) <= ROOM /\ owed \in BOOLEAN

rxRing == Content(rx_buf, rx_start, rx_end)
txRing == Content(tx_buf, tx_start, tx_end)

\* The receive ring and the saved bytes are exactly the last bytes received.
ReceivedInOrder == IsSuffix(saved \o rxRing, received)

\* Where the packets of a stream begin: a byte without the framing bit, then two with it.
PacketStarts(s) ==
  {i \in 1 .. Len(s) - 2 : ~ s[i].frame /\ s[i + 1].frame /\ s[i + 2].frame}

\* However the stream is cut into interrupts, data_callback delivers every packet that has
\* left the ring, once and in order, and nothing else.
PacketsExact ==
  LET gone  == SubSeq(received, 1, Len(received) - Len(rxRing))
      at(k) == packets[k][1].pos
  IN  /\ {at(k) : k \in DOMAIN packets} = PacketStarts(gone)
      /\ \A k \in DOMAIN packets : packets[k] = SubSeq(gone, at(k), at(k) + 2)
      /\ \A k, l \in DOMAIN packets : k < l => at(k) < at(l)

\* The transmit ring is first in, first out for any number of concurrent wake-ups.
TransmitRingFifo == taken \o txRing = accepted

\* put reports how many bytes were not written: the others reach the line in order.
PutReachesLine == IsPrefix(sent \o fifo, accepted)

\* Nothing is stranded: once nothing more is put, put's own wake-up and the ones that follow
\* the driver's sends empty the transmit ring, though each may act on a stale room.
TransmitDrains == <>[](tx_start = tx_end)
=============================================================================
