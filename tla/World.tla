-------------------------------- MODULE World --------------------------------
(***************************************************************************)
(* The world of the mp2 adventure game (world.c) under the commands of the *)
(* game loop (adventure.c): rooms, the objects in the contents lists of    *)
(* the rooms, the accomplishments of the player, the photographs that are  *)
(* exchanged, and the picture in the build buffer, which has to be drawn   *)
(* again whenever what it shows has changed.                               *)
(*                                                                         *)
(* A room and an object go by their enumeration names without R_ and O_.   *)
(* A contents list is the sequence its links spell out.  Left out: where   *)
(* in a photograph an object lies, and the wording of the messages.  A     *)
(* command that is refused shows a message and changes nothing here, so    *)
(* that each action below is the accepted form of its command.             *)
(***************************************************************************)
EXTENDS Integers, Sequences, SequencesExt, FiniteSets

CONSTANTS
  Quest,      \* bound: objects the player looks for, in this order
  Others,     \* bound: further objects the player may get at any time
  Drops,      \* bound: objects the player may drop
  DropAt,     \* bound: rooms in which the player may drop them
  LookAt      \* bound: rooms in which the player may look at the inventory

NONE == "NONE"            \* R_NONE and the null pointers
MOTION_SPEED == 2

\* Room, and the rooms to its left, through its door and to its right.
room_data == {
    <<"INVENTORY", NONE,        NONE,        NONE>>,
    <<"IN_391LAB", NONE,        "BY_391LAB", NONE>>,
    <<"BY_391LAB", "BY_ZAS",    "IN_391LAB", "BY_IEEE">>,
    <<"IN_IEEE",   NONE,        "BY_IEEE",   NONE>>,
    <<"BY_IEEE",   "BY_391LAB", "IN_IEEE",   "BY_395LAB">>,
    <<"IN_395LAB", NONE,        "BY_395LAB", NONE>>,
    <<"BY_395LAB", "BY_IEEE",   NONE,        "EVT_STAIR">>,
    <<"EVT_STAIR", "BY_395LAB", "EAST_EVRT", "BY_CLEANR">>,
    <<"IN_CLEANR", NONE,        "BY_CLEANR", NONE>>,
    <<"BY_CLEANR", "EVT_STAIR", NONE,        "EVRT_VEND">>,
    <<"EVRT_VEND", "BY_CLEANR", "EVRT_BSMT", NONE>>,
    <<"ALMAMATER", "EAST_EVRT", "EAST_EVRT", "BY_COCOMR">>,
    <<"IN_COCOMR", NONE,        "BY_COCOMR", NONE>>,
    <<"BY_COCOMR", "ALMAMATER", "IN_COCOMR", "BY_ZAS">>,
    <<"BY_ZAS",    "BY_COCOMR", NONE,        NONE>>,
    <<"EAST_EVRT", "ALMAMATER", "EVT_STAIR", "EVRT_BSMT">>,
    <<"EVRT_BSMT", "EAST_EVRT", "EVRT_VEND", "CIRCLE_SW">>,
    <<"WEST_BONE", "CIRCLE_SW", NONE,        "CIRCLE_N">>,
    <<"CIRCLE_N",  "WEST_BONE", "TALBOT_NW", "EAST_BONE">>,
    <<"CIRCLE_SW", "EAST_BONE", "EVRT_BSMT", "CIRCLE_N">>,
    <<"EAST_BONE", "CIRCLE_N",  NONE,        "CIRCLE_SW">>,
    <<"BARDEEN",   "LIB_BACK",  "EAST_BONE", "TALBOT_SW">>,
    <<"LIB_BACK",  "DCL",       "RESERVE",   "BARDEEN">>,
    <<"RESERVE",   NONE,        "LIB_BACK",  "LIB_FRONT">>,
    <<"TALBOT_NW", "CIRCLE_SW", "TALBOT",    "TALBOT_SW">>,
    <<"TALBOT_SW", "TALBOT_NW", "TALBOT",    "SPRINGFLD">>,
    <<"TALBOT",    NONE,        "TALBOT_NW", NONE>>,
    <<"SPRINGFLD", "TALBOT_SW", "CARIBOU",   "KENNEY">>,
    <<"CARIBOU",   NONE,        "SPRINGFLD", NONE>>,
    <<"KENNEY",    "SPRINGFLD", NONE,        "DCL">>,
    <<"DCL",       "KENNEY",    "KENNEY_E",  "LIB_FRONT">>,
    <<"LIB_FRONT", "DCL",       "RESERVE",   "TALBOT_SW">>,
    <<"KENNEY_E",  "DCL",       "DCL",       "NEWMARK">>,
    <<"NEWMARK",   "MNTL_NW",   NONE,        "KENNEY_E">>,
    <<"MNTL_NW",   "NEWMARK",   "MNTLLOBBY", "CSL_VIEW">>,
    <<"MNTL_SW",   "MNTL_NW",   "MNTLLOBBY", "BECKMAN">>,
    <<"MNTLLOBBY", "MNTL_LAB1", "MNTL_SW",   "MNTL_LAB2">>,
    <<"MNTL_LAB1", NONE,        NONE,        "MNTLLOBBY">>,
    <<"MNTL_LAB2", "MNTLLOBBY", "MNTL_LAB3", NONE>>,
    <<"MNTL_LAB3", NONE,        "MNTL_LAB2", NONE>>,
    <<"CSL_VIEW",  "BECK_LOT",  "CSL_DOOR",  "MNTL_NW">>,
    <<"CSL_DOOR",  "BECK_LOT",  NONE,        "MNTL_NW">>,
    <<"CSL_LOBBY", "CSL_UPPER", "CSL_DOOR",  NONE>>,
    <<"CSL_UPPER", NONE,        "CSLLOUNGE", "CSL_LOBBY">>,
    <<"CSLLOUNGE", NONE,        "CSL_UPPER", NONE>>,
    <<"BECK_LOT",  "BECKMAN",   "GARAGE",    "CSL_VIEW">>,
    <<"BECKMAN",   "MNTL_SW",   "BECK_DOOR", "BECK_LOT">>,
    <<"BECK_DOOR", "MNTL_SW",   NONE,        "BECK_LOT">>,
    <<"BECKLOBBY", NONE,        "BECK_MRI",  "BECK_DOOR">>,
    <<"BECK_MRI",  NONE,        "BECKLOBBY", NONE>>,
    <<"GARAGE",    "BECK_LOT",  "CAR_SITE",  NONE>>,
    <<"CAR_SITE",  NONE,        "GARAGE",    NONE>>,
    <<"ALLERTON",  "FU_DOGS",   NONE,        "SUNSINGER">>,
    <<"FU_DOGS",   NONE,        "STATUE",    "ALLERTON">>,
    <<"STATUE",    NONE,        "FU_DOGS",   NONE>>,
    <<"SUNSINGER", "ALLERTON",  NONE,        NONE>>,
    <<"WILLARD",   NONE,        "WILL_SIDE", NONE>>,
    <<"WILL_SIDE", "REM_PLANE", NONE,        "WILLARD">>,
    <<"REM_PLANE", "COCKPIT",   NONE,        "WILL_SIDE">>,
    <<"COCKPIT",   NONE,        NONE,        "REM_PLANE">>,
    <<"OVER_WILL", NONE,        "COCKPIT",   "AIR_RIO">>,
    <<"AIR_RIO",   "OVER_WILL", NONE,        "REM_ICE">>,
    <<"REM_ICE",   "AIR_RIO",   "REM_LAB",   NONE>>,
    <<"REM_LAB",   NONE,        "REM_ICE",   NONE>> }

\* Object, the name the player types for it, and the room it starts in.  The order is
\* that of the array, in which build_world inserts the objects.
obj_data == <<
    <<"BOARD",      "board",     "IN_IEEE">>,
    <<"JETPACK",    "jetpack",   "TALBOT">>,
    <<"TUX",        "tux",       "REM_LAB">>,
    <<"MP2",        "mp2",       "CSLLOUNGE">>,
    <<"BOOK_C",     "book",      NONE>>,
    <<"BOOK_WODE",  "book",      NONE>>,
    <<"GPS_BAD",    "gps",       "TALBOT">>,
    <<"GPS_GOOD",   "gps",       NONE>>,
    <<"GPS_SPEC",   "spec",      "CSL_UPPER">>,
    <<"BUNNYSUIT",  "bunnysuit", "ALMAMATER">>,
    <<"BATT_EMPTY", "battery",   NONE>>,
    <<"BATT_FULL",  "battery",   NONE>>,
    <<"BATT_CAR",   "battery",   NONE>>,
    <<"MTN_DEW",    "dew",       NONE>>,
    <<"FISH",       "fish",      "EAST_BONE">>,
    <<"ICARD",      "Icard",     "BARDEEN">>,
    <<"CAR_KEY",    "key",       "CARIBOU">>,
    <<"ROBOT_DEAD", "robot",     "MNTL_LAB3">>,
    <<"ROBOT_LIVE", "robot",     NONE>>,
    <<"MIMO_CARD",  "mimo",      "STATUE">> >>

Rooms == {d[1] : d \in room_data}
Objects == {d[1] : d \in Range(obj_data)}
Flags == {"HAS_EATEN", "WEARING_SUIT", "CAR_OPEN", "CAR_FIXED", "LURED_TUX"}

ASSUME WorldAssumption ==
  /\ Range(Quest) \cup Others \cup Drops \subseteq Objects
  /\ DropAt \cup LookAt \subseteq Rooms \ {"INVENTORY"}

VARIABLES
  where,      \* game_info.where: the room shown, NONE once the game is won
  enter,      \* room[r].enter of the two rooms whose door changes
  objs,       \* loc: object[o].loc; contents: the lists of the rooms
  flags,      \* player_flags, as the set of the flags that are set
  photo,      \* view: room[r].view of the two rooms that have a second photo; swap: the other
  speed,      \* game_info.x_speed and y_speed
  drawn       \* the room picture in the build buffer

vars == <<where, enter, objs, flags, photo, speed, drawn>>

-----------------------------------------------------------------------------
(***************************************************************************)
(* Rooms and objects.                                                      *)
(***************************************************************************)

Row == [r \in Rooms |-> CHOOSE d \in room_data : d[1] = r]
Start == [o \in Objects |-> (CHOOSE d \in Range(obj_data) : d[1] = o)[3]]
Name == [o \in Objects |-> (CHOOSE d \in Range(obj_data) : d[1] = o)[2]]

Enter(r) == IF r \in DOMAIN enter THEN enter[r] ELSE Row[r][3]
View(p, r) == IF r \in DOMAIN p.view THEN p.view[r] ELSE r

Held(o) == objs.loc[o] = "INVENTORY"
AtHand(o) == Held(o) \/ objs.loc[o] = where

\* Faulty variant: the object is put in limbo but stays linked.
remove_object_linked(w, o) == [w EXCEPT !.loc[o] = NONE]
\* Unlinks an object that is in some room, and leaves it in limbo.
remove_object(w, o) ==
  IF w.loc[o] = NONE THEN w
  ELSE [loc |-> [w.loc EXCEPT ![o] = NONE],
        contents |-> [w.contents EXCEPT ![w.loc[o]] = RemoveFirst(@, o)]]

\* Takes an object out of its room and makes it the first of another.
insert_object(w, o, r) ==
  LET out == remove_object(w, o)
  IN  [loc |-> [out.loc EXCEPT ![o] = r],
       contents |-> [out.contents EXCEPT ![r] = <<o>> \o @]]

move_object_to_inventory(w, o) == insert_object(w, o, "INVENTORY")

\* The first object of that name in the list of a room.
find_in_room(r, n) ==
  LET i == SelectInSeq(objs.contents[r], LAMBDA o : Name[o] = n)
  IN  IF i = 0 THEN NONE ELSE objs.contents[r][i]

do_photo_swap(p, r, which) ==
  [view |-> [p.view EXCEPT ![r] = p.swap[which]],
   swap |-> [p.swap EXCEPT ![which] = p.view[r]]]

Picture(r, p, w) == [room |-> r, photo |-> View(p, r), contents |-> w.contents[r]]

\* What the game loop does with the result of a command: a changed room is drawn at the
\* start of the next turn, and a changed picture at once.
Handle(result) ==
  drawn' = IF result \in {"CHANGE_ROOM", "REDRAW_ROOM"} /\ where' # NONE
           THEN Picture(where', photo', objs') ELSE drawn

-----------------------------------------------------------------------------
\* The loop of build_world over the objects: the world after the first i of them.
Built[i \in 0 .. Len(obj_data)] ==
  IF i = 0 THEN [loc |-> [o \in Objects |-> NONE], contents |-> [r \in Rooms |-> <<>>]]
  ELSE IF obj_data[i][3] = NONE THEN Built[i - 1]
  ELSE insert_object(Built[i - 1], obj_data[i][1], obj_data[i][3])

\* build_world and init_game, with the first drawing of the first room.
Init ==
  /\ where = "EAST_EVRT"
  /\ enter = [r \in {"INVENTORY", "COCKPIT"} |-> Row[r][3]]
  /\ objs = Built[Len(obj_data)]
  /\ flags = {}
  /\ photo = [view |-> [r \in {"CIRCLE_N", "CAR_SITE"} |->
                          IF r = "CIRCLE_N" THEN "circlen1" ELSE "carclosed"],
              swap |-> [s \in {"CIRCLE", "CAR"} |->
                          IF s = "CIRCLE" THEN "circlen2" ELSE "caropen"]]
  /\ speed = [x |-> MOTION_SPEED, y |-> MOTION_SPEED]
  /\ drawn = Picture("EAST_EVRT", photo, objs)

-----------------------------------------------------------------------------
(***************************************************************************)
(* Moving.                                                                 *)
(***************************************************************************)

\* Into room r; the photograph of the bridge is chosen at random on the way.
GoTo(r) ==
  /\ where' = r
  /\ photo' \in {photo} \cup
       IF r = "CIRCLE_N" THEN {do_photo_swap(photo, r, "CIRCLE")} ELSE {}
  /\ UNCHANGED <<enter, objs, flags, speed>>
  /\ Handle("CHANGE_ROOM")

try_to_move_left == Row[where][2] # NONE /\ GoTo(Row[where][2])
try_to_move_right == Row[where][4] # NONE /\ GoTo(Row[where][4])

\* Faulty variant: the door to the magnet opens to everyone.
Opened_anyone ==
  CASE where = "BY_CLEANR" /\ "WEARING_SUIT" \in flags -> "IN_CLEANR"
    [] where = "BY_395LAB" /\ Held("ICARD")            -> "IN_395LAB"
    [] where = "CSL_DOOR"  /\ Held("ICARD")            -> "CSL_LOBBY"
    [] where = "BECK_DOOR"                             -> "BECKLOBBY"
    [] OTHER -> NONE
\* The rooms behind a door that opens to some.
Opened ==
  CASE where = "BY_CLEANR" /\ "WEARING_SUIT" \in flags -> "IN_CLEANR"
    [] where = "BY_395LAB" /\ Held("ICARD")            -> "IN_395LAB"
    [] where = "CSL_DOOR"  /\ Held("ICARD")            -> "CSL_LOBBY"
    [] where = "BECK_DOOR" /\ Held("ROBOT_LIVE")       -> "BECKLOBBY"
    [] OTHER -> NONE

try_to_enter ==
  LET to == IF Enter(where) # NONE THEN Enter(where) ELSE Opened
  IN  to # NONE /\ GoTo(to)

\* By car: to Allerton with a working GPS, to the airport without, and back to campus.
typed_cmd_go(to) ==
  /\ \/ /\ to = "ALLERTON" /\ where \in {"WILLARD", "CAR_SITE"}
        /\ "CAR_FIXED" \in flags /\ Held("GPS_GOOD")
     \/ /\ to = "WILLARD" /\ where \in {"ALLERTON", "CAR_SITE"}
        /\ "CAR_FIXED" \in flags
     \/ to = "CAR_SITE" /\ where \in {"ALLERTON", "WILLARD"}
  /\ where' = to
  /\ UNCHANGED <<enter, objs, flags, photo, speed>>
  /\ Handle("CHANGE_ROOM")

\* Faulty variant: typed in the inventory it goes there once more.
typed_cmd_inventory_again ==
  /\ where \in LookAt \cup {"INVENTORY"}
  /\ where' = "INVENTORY"
  /\ enter' = [enter EXCEPT !["INVENTORY"] = where]
  /\ UNCHANGED <<objs, flags, photo, speed>>
  /\ Handle("CHANGE_ROOM")
\* To the inventory, whose door then leads back, and back.
typed_cmd_inventory ==
  /\ where \in LookAt \cup {"INVENTORY"}
  /\ IF where = "INVENTORY"
       THEN where' = enter[where] /\ UNCHANGED enter
       ELSE where' = "INVENTORY" /\ enter' = [enter EXCEPT !["INVENTORY"] = where]
  /\ UNCHANGED <<objs, flags, photo, speed>>
  /\ Handle("CHANGE_ROOM")

-----------------------------------------------------------------------------
(***************************************************************************)
(* Carrying.                                                               *)
(***************************************************************************)

\* Bound: the player takes the objects of the quest in their order.
Taken(o) == objs.loc[o] # Start[o]
MayGet(o) ==
  \/ o \in Others
  \/ \E i \in DOMAIN Quest : Quest[i] = o /\ \A j \in 1 .. i - 1 : Taken(Quest[j])

\* In the inventory view a command works on the room in which the player stands.
Standing == IF where = "INVENTORY" THEN enter[where] ELSE where

\* What get finds before it searches the room: a book at the reserve desk, which book
\* depends on an appetite stilled, and the battery out of the car, whatever was asked for.
obj_special_get(r, n) ==
  LET book == IF "HAS_EATEN" \in flags THEN "BOOK_C" ELSE "BOOK_WODE"
  IN  CASE r = "RESERVE" /\ n = "book" /\ objs.loc[book] = NONE -> book
        [] r = "CAR_SITE" /\ objs.loc["BATT_CAR"] = r -> "BATT_EMPTY"
        [] OTHER -> NONE

\* Faulty variant: the battery in the car is not taken out of it.
TakenOut_not(o) == objs
TakenOut(o) == IF o = "BATT_EMPTY" THEN remove_object(objs, "BATT_CAR") ELSE objs

typed_cmd_get(n) ==
  LET special == obj_special_get(Standing, n)
      o == IF special # NONE THEN special ELSE find_in_room(Standing, n)
  IN  /\ o # NONE
      /\ MayGet(o)
      /\ o = "TUX" => "LURED_TUX" \in flags
      /\ objs' = move_object_to_inventory(IF special # NONE THEN TakenOut(o) ELSE objs, o)
      /\ speed' = [x |-> IF objs'.loc["BOARD"] = "INVENTORY" THEN 3 * MOTION_SPEED ELSE speed.x,
                   y |-> IF objs'.loc["JETPACK"] = "INVENTORY" THEN 3 * MOTION_SPEED ELSE speed.y]
      /\ UNCHANGED <<where, enter, flags, photo>>
      /\ Handle("REDRAW_ROOM")

\* Faulty variant: the player stays fast.
typed_cmd_drop_fast(n) ==
  LET o == find_in_room("INVENTORY", n)
  IN  /\ o \in Drops /\ Standing \in DropAt
      /\ objs' = insert_object(objs, o, Standing)
      /\ UNCHANGED <<where, enter, flags, photo, speed>>
      /\ Handle("REDRAW_ROOM")
typed_cmd_drop(n) ==
  LET o == find_in_room("INVENTORY", n)
  IN  /\ o \in Drops /\ Standing \in DropAt   \* bound
      /\ objs' = insert_object(objs, o, Standing)
      /\ speed' = [x |-> IF objs'.loc["BOARD"] = "INVENTORY" THEN speed.x ELSE MOTION_SPEED,
                   y |-> IF objs'.loc["JETPACK"] = "INVENTORY" THEN speed.y ELSE MOTION_SPEED]
      /\ UNCHANGED <<where, enter, flags, photo>>
      /\ Handle("REDRAW_ROOM")

-----------------------------------------------------------------------------
(***************************************************************************)
(* Doing things.                                                           *)
(***************************************************************************)

buy_dew ==
  /\ MayGet("MTN_DEW")   \* bound
  /\ where = "EVRT_VEND" /\ ~ AtHand("MTN_DEW")
  /\ objs' = move_object_to_inventory(objs, "MTN_DEW")
  /\ UNCHANGED <<where, enter, flags, photo, speed>>
  /\ Handle("REDRAW_ROOM")

\* The appetite is stilled.
Eat ==
  /\ MayGet("BOOK_C")    \* bound
  /\ flags' = flags \cup {"HAS_EATEN"}
  /\ UNCHANGED <<where, enter, objs, photo, speed>>
  /\ Handle("DISCARD_TEXT")

buy_yogurt == where = "IN_COCOMR" /\ Eat

\* Only a sigh at the ruins changes anything.
typed_cmd_sigh == where = "BY_ZAS" /\ Eat

typed_cmd_drink ==
  /\ AtHand("MTN_DEW")
  /\ objs' = remove_object(objs, "MTN_DEW")
  /\ UNCHANGED <<where, enter, flags, photo, speed>>
  /\ Handle("REDRAW_ROOM")

\* Faulty variant: the room is not drawn again.
typed_cmd_wear_undrawn ==
  /\ AtHand("BUNNYSUIT")
  /\ objs' = remove_object(objs, "BUNNYSUIT")
  /\ flags' = flags \cup {"WEARING_SUIT"}
  /\ UNCHANGED <<where, enter, photo, speed>>
  /\ Handle("DISCARD_TEXT")
typed_cmd_wear ==
  /\ AtHand("BUNNYSUIT")
  /\ objs' = remove_object(objs, "BUNNYSUIT")
  /\ flags' = flags \cup {"WEARING_SUIT"}
  /\ UNCHANGED <<where, enter, photo, speed>>
  /\ Handle("REDRAW_ROOM")

typed_cmd_fix ==
  /\ where = "IN_CLEANR" /\ ~ AtHand("GPS_GOOD")
  /\ AtHand("GPS_BAD") /\ AtHand("GPS_SPEC")
  /\ objs' = move_object_to_inventory(
               remove_object(remove_object(objs, "GPS_BAD"), "GPS_SPEC"), "GPS_GOOD")
  /\ UNCHANGED <<where, enter, flags, photo, speed>>
  /\ Handle("CHANGE_ROOM")

typed_cmd_flash ==
  /\ where = "IN_395LAB" /\ AtHand("ROBOT_DEAD") /\ ~ AtHand("ROBOT_LIVE")
  /\ objs' = move_object_to_inventory(remove_object(objs, "ROBOT_DEAD"), "ROBOT_LIVE")
  /\ UNCHANGED <<where, enter, flags, photo, speed>>
  /\ Handle("REDRAW_ROOM")

\* Opens the car; the key stays in it.
use_car ==
  /\ where = "CAR_SITE" /\ flags \cap {"CAR_FIXED", "CAR_OPEN"} = {} /\ Held("CAR_KEY")
  /\ photo' = do_photo_swap(photo, where, "CAR")
  /\ objs' = insert_object(remove_object(objs, "CAR_KEY"), "BATT_CAR", where)
  /\ flags' = flags \cup {"CAR_OPEN"}
  /\ UNCHANGED <<where, enter, speed>>
  /\ Handle("CHANGE_ROOM")

\* Either battery at hand lets the command past its first test.
typed_cmd_charge ==
  /\ AtHand("BATT_EMPTY") \/ AtHand("BATT_FULL")
  /\ where = "BECK_MRI" /\ ~ AtHand("BATT_FULL")
  /\ objs' = move_object_to_inventory(remove_object(objs, "BATT_EMPTY"), "BATT_FULL")
  /\ UNCHANGED <<where, enter, flags, photo, speed>>
  /\ Handle("REDRAW_ROOM")

\* Faulty variant: the hood is left open.
install_battery_open ==
  /\ AtHand("BATT_EMPTY") \/ AtHand("BATT_FULL")
  /\ where = "CAR_SITE" /\ ~ AtHand("BATT_EMPTY")
  /\ objs' = remove_object(objs, "BATT_FULL")
  /\ flags' = flags \cup {"CAR_FIXED"}
  /\ UNCHANGED <<where, enter, photo, speed>>
  /\ Handle("CHANGE_ROOM")
install_battery ==
  /\ AtHand("BATT_EMPTY") \/ AtHand("BATT_FULL")
  /\ where = "CAR_SITE" /\ ~ AtHand("BATT_EMPTY")
  /\ objs' = remove_object(objs, "BATT_FULL")
  /\ flags' = flags \cup {"CAR_FIXED"}
  /\ photo' = do_photo_swap(photo, where, "CAR")
  /\ UNCHANGED <<where, enter, speed>>
  /\ Handle("CHANGE_ROOM")

\* Opens the way out of the cockpit.
install_mimo ==
  /\ where = "COCKPIT" /\ AtHand("MIMO_CARD")
  /\ objs' = remove_object(objs, "MIMO_CARD")
  /\ enter' = [enter EXCEPT !["COCKPIT"] = "OVER_WILL"]
  /\ UNCHANGED <<where, flags, photo, speed>>
  /\ Handle("REDRAW_ROOM")

use_fish ==
  /\ where = "REM_LAB" /\ AtHand("FISH")
  /\ objs' = move_object_to_inventory(remove_object(objs, "FISH"), "TUX")
  /\ flags' = flags \cup {"LURED_TUX"}
  /\ UNCHANGED <<where, enter, photo, speed>>
  /\ Handle("REDRAW_ROOM")

\* Doing the MP2 wins the game.
typed_cmd_do ==
  /\ where = "IN_391LAB" /\ Held("BOOK_C") /\ Held("MP2") /\ objs.loc["TUX"] = where
  /\ where' = NONE
  /\ UNCHANGED <<enter, objs, flags, photo, speed>>
  /\ Handle("CHANGE_ROOM")

Next ==
  /\ where # NONE
  /\ \/ try_to_move_left \/ try_to_enter \/ try_to_move_right
     \/ \E to \in {"ALLERTON", "WILLARD", "CAR_SITE"} : typed_cmd_go(to)
     \/ typed_cmd_inventory
     \/ \E n \in Range(Name) : typed_cmd_get(n)
     \/ \E n \in Range(Name) : typed_cmd_drop(n)
     \/ buy_dew \/ buy_yogurt \/ typed_cmd_sigh \/ typed_cmd_drink \/ typed_cmd_wear
     \/ typed_cmd_fix \/ typed_cmd_flash
     \/ use_car \/ typed_cmd_charge \/ install_battery \/ install_mimo \/ use_fish
     \/ typed_cmd_do

Spec == Init /\ [][Next]_vars

-----------------------------------------------------------------------------
(***************************************************************************)
(* Properties.                                                             *)
(***************************************************************************)

\* The player is in a room, or views the inventory with a room to return to: drop, get
\* and the way back follow the inventory's door without testing it.
TypeOK ==
  /\ where \in Rooms \cup {NONE}
  /\ where = "INVENTORY" => enter["INVENTORY"] \in Rooms \ {"INVENTORY"}
  /\ flags \subseteq Flags
  /\ objs.loc \in [Objects -> Rooms \cup {NONE}]

\* The list of every room holds, once each, exactly the objects that say they are there,
\* whatever insert_object and remove_object have done to the lists.
ListsMatchLoc ==
  \A r \in Rooms : /\ IsInjective(objs.contents[r])
                   /\ Range(objs.contents[r]) = {o \in Objects : objs.loc[o] = r}

\* The objects that stand for one thing are never lost or doubled: the battery exists once
\* from the opening of the car to its repair, the robot and the GPS always, and what is
\* used up is gone exactly when its flag says so.
Conserved ==
  LET Exist(S) == {o \in S : objs.loc[o] # NONE}
      batteries == Cardinality(Exist({"BATT_CAR", "BATT_EMPTY", "BATT_FULL"}))
  IN  /\ batteries = IF "CAR_OPEN" \in flags /\ "CAR_FIXED" \notin flags THEN 1 ELSE 0
      /\ Cardinality(Exist({"ROBOT_DEAD", "ROBOT_LIVE"})) = 1
      /\ Cardinality(Exist({"GPS_BAD", "GPS_GOOD"})) = 1
      /\ Exist({"CAR_KEY"}) = {} <=> "CAR_OPEN" \in flags
      /\ Exist({"BUNNYSUIT"}) = {} <=> "WEARING_SUIT" \in flags
      /\ Exist({"FISH"}) = {} <=> "LURED_TUX" \in flags
      /\ Exist({"MIMO_CARD"}) = {} <=> enter["COCKPIT"] # NONE

\* Each photograph is in one place, and the open hood is shown while the car is open.
PhotosMatch ==
  /\ {photo.view["CIRCLE_N"], photo.swap["CIRCLE"]} = {"circlen1", "circlen2"}
  /\ {photo.view["CAR_SITE"], photo.swap["CAR"]} = {"carclosed", "caropen"}
  /\ photo.view["CAR_SITE"] = "caropen" <=> "CAR_OPEN" \in flags /\ "CAR_FIXED" \notin flags

\* The picture in the build buffer is that of the room shown, with its photograph and the
\* objects now in it: no command changes them and reports that nothing is to be drawn.
DrawnCurrent == where # NONE => drawn = Picture(where, photo, objs)

\* The player is fast exactly while carrying the board, respectively the jetpack.
SpeedMatches ==
  /\ speed.x = IF Held("BOARD") THEN 3 * MOTION_SPEED ELSE MOTION_SPEED
  /\ speed.y = IF Held("JETPACK") THEN 3 * MOTION_SPEED ELSE MOTION_SPEED

\* What the player has accomplished, read off the flags, the objects and the doors.
Accomplished ==
  {m \in {"Suit"} : "WEARING_SUIT" \in flags} \cup
  {m \in {"Gps"} : objs.loc["GPS_GOOD"] # NONE} \cup
  {m \in {"Robot"} : objs.loc["ROBOT_LIVE"] # NONE} \cup
  {m \in {"Eaten"} : "HAS_EATEN" \in flags} \cup
  {m \in {"CarOpen"} : "CAR_OPEN" \in flags} \cup
  {m \in {"BatteryOut"} : "CAR_OPEN" \in flags /\ objs.loc["BATT_CAR"] = NONE} \cup
  {m \in {"Charged"} : objs.loc["BATT_FULL"] # NONE \/ "CAR_FIXED" \in flags} \cup
  {m \in {"CarFixed"} : "CAR_FIXED" \in flags} \cup
  {m \in {"Transmitter"} : enter["COCKPIT"] # NONE} \cup
  {m \in {"Tux"} : "LURED_TUX" \in flags} \cup
  {m \in {"Won"} : where = NONE}

\* The world implements the plot: no way through the doors and no sequence of commands
\* reaches a milestone before those it needs, reaches two at once or undoes one.
Story == INSTANCE Plot WITH done <- Accomplished
FollowsPlot == Story!Spec
=============================================================================
