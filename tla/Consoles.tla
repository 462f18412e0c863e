------------------------------ MODULE Consoles -------------------------------
(***************************************************************************)
(* What the mp3 kernel promises of its terminals: each is a display and a  *)
(* cursor of its own.  A program changes its own terminal only, the        *)
(* keyboard changes the terminal in front only, and neither bringing       *)
(* another terminal to the front nor a context switch changes any.         *)
(***************************************************************************)
EXTENDS Naturals

CONSTANT NUM_TERM

VARIABLES
  display,   \* display[t]: the characters and the cursor of terminal t
  active,    \* the terminal whose program runs
  focus      \* the terminal in front

Terms == 0 .. NUM_TERM - 1

Init ==
  /\ DOMAIN display = Terms
  /\ active = 0
  /\ focus = 0

\* Terminal t, and no other, may change.
Only(t) ==
  /\ \A u \in Terms \ {t} : display'[u] = display[u]
  /\ UNCHANGED <<active, focus>>

Output == Only(active)

Typed == Only(focus)

Front ==
  /\ focus' \in Terms
  /\ UNCHANGED <<display, active>>

Schedule ==
  /\ active' = (active + 1) % NUM_TERM
  /\ UNCHANGED <<display, focus>>

Next == Output \/ Typed \/ Front \/ Schedule

Spec == Init /\ [][Next]_<<display, active, focus>>
=============================================================================
