-------------------------------- MODULE Plot ---------------------------------
(***************************************************************************)
(* What the adventure game promises of its story, whatever way the player  *)
(* takes through the rooms: the milestones are reached one at a time, each *)
(* after those it needs, and none is ever undone.                          *)
(***************************************************************************)
VARIABLE done   \* the milestones reached

\* What has to be done before: the clean room lets nobody in without a suit, the robot
\* opens the door to the magnet that charges the battery, and so on.
needs ==
  [Suit        |-> {},
   Gps         |-> {"Suit"},
   Robot       |-> {},
   Eaten       |-> {},
   CarOpen     |-> {},
   BatteryOut  |-> {"CarOpen"},
   Charged     |-> {"BatteryOut", "Robot"},
   CarFixed    |-> {"Charged"},
   Transmitter |-> {"CarFixed", "Gps"},
   Tux         |-> {"Transmitter"},
   Won         |-> {"Tux", "Eaten"}]

Milestones == DOMAIN needs

Init == done = {}

Accomplish(m) ==
  /\ m \notin done
  /\ needs[m] \subseteq done
  /\ done' = done \cup {m}

Next == \E m \in Milestones : Accomplish(m)

Spec == Init /\ [][Next]_done
=============================================================================
