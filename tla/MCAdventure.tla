----------------------------- MODULE MCAdventure -----------------------------
(***************************************************************************)
(* Four sessions: the player scrolls and moves objects about; scrolls and  *)
(* changes between rooms of different sizes; types, with key sequences cut *)
(* anywhere, and gets answers; the program fails to start or is hit by     *)
(* signals.                                                                *)
(***************************************************************************)
EXTENDS Adventure

Coin == [name |-> "coin", x |-> 1, y |-> 1, width |-> 3, height |-> 2, clear |-> {<<0, 0>>}]
Flag == [name |-> "flag", x |-> 3, y |-> 0, width |-> 9, height |-> 3, clear |-> {<<1, 1>>}]

Hall == [photo |-> "hall", width |-> 12, height |-> 5, contents |-> <<Coin, Flag>>]
Swept == [photo |-> "hall", width |-> 12, height |-> 5, contents |-> <<Flag>>]
Cell == [photo |-> "cell", width |-> 8, height |-> 4, contents |-> <<>>]
Attic == [photo |-> "attic", width |-> 11, height |-> 5, contents |-> <<Coin>>]

Key(k) == <<"ESC", "[", k>>

Player ==
  [start |-> Hall, scenes |-> {Hall, Swept}, speeds |-> {2, 6},
   bytes |-> {Key(k) : k \in {"A", "B", "C", "D"}} \cup {<<"x", "CR">>},
   messages |-> 0, signals |-> {}, fails |-> FALSE]
Walker ==
  [start |-> Attic, scenes |-> {Attic, Cell}, speeds |-> {2, 6},
   bytes |-> {Key(k) : k \in {"A", "B", "C", "D"}} \cup {<<"x", "CR">>},
   messages |-> 0, signals |-> {}, fails |-> FALSE]
Typist ==
  [start |-> Cell, scenes |-> {Cell}, speeds |-> {2},
   bytes |-> {<<>>, <<"ESC">>, <<"[">>, <<"1">>, <<"A", "CR">>, <<"BS">>, <<" ">>,
              <<"QUIT", "A">>},
   messages |-> 2, signals |-> {}, fails |-> FALSE]
Victim ==
  [start |-> Cell, scenes |-> {Cell}, speeds |-> {2},
   bytes |-> {<<>>, <<"QUIT">>}, messages |-> 0,
   signals |-> {"INT", "QUIT", "TERM"}, fails |-> TRUE]

MCLoads == {Player, Walker, Typist, Victim}
=============================================================================
