------------------------------- MODULE MCWorld -------------------------------
(***************************************************************************)
(* One complete game, with the objects of the plot taken in one order.     *)
(***************************************************************************)
EXTENDS World

MCQuest == <<"ICARD", "BUNNYSUIT", "GPS_BAD", "ROBOT_DEAD", "GPS_SPEC", "CAR_KEY",
             "FISH", "MIMO_CARD", "TUX", "MP2", "BOOK_C", "BOARD", "JETPACK", "MTN_DEW">>
=============================================================================
