-------------------------------- MODULE Photo --------------------------------
(***************************************************************************)
(* Lines of a room picture (photo.c): the photograph of the room with the  *)
(* objects that lie in it drawn over it, in the order of the contents      *)
(* list.  A scene is the record [photo, width, height, contents], an       *)
(* object the record [name, x, y, width, height, clear] with the set of    *)
(* its transparent pixels.  A pixel is named by the image it belongs to    *)
(* and its place in that image; colours are left out.                      *)
(***************************************************************************)
EXTENDS Integers, Sequences, SequencesExt

CONSTANTS
  SCROLL_X_DIM,   \* 320: width of the scrolling region in pixels
  SCROLL_Y_DIM    \* 182: its height

ASSUME DimAssumption ==
  /\ SCROLL_X_DIM \in Nat \ {0} /\ SCROLL_X_DIM % 4 = 0
  /\ SCROLL_Y_DIM \in Nat \ {0}

Black == <<"black", 0, 0>>
Pixel == (STRING \X Int \X Int) \cup {Black}
Object == [name : STRING, x : Int, y : Int, width : Nat, height : Nat,
           clear : SUBSET (Int \X Int)]
IsScene(s) ==
  /\ s.photo \in STRING /\ s.contents \in Seq(Object)
  /\ s.width \in Nat /\ s.width >= SCROLL_X_DIM
  /\ s.height \in Nat /\ s.height >= SCROLL_Y_DIM

\* The line of pixels that begins at (x, y) and runs to the right: the photograph, and one
\* object drawn over a line.
horiz_photo(s, x, y) ==
  [i \in 0 .. SCROLL_X_DIM - 1 |->
     IF 0 <= x + i /\ s.width > x + i THEN <<s.photo, x + i, y>> ELSE Black]
horiz_object(line, o, x, y) ==
  LET first == IF x <= o.x THEN o.x - x ELSE 0
      imgx(i) == (IF x <= o.x THEN 0 ELSE x - o.x) + i - first
  IN  IF \/ y < o.y \/ y >= o.y + o.height
         \/ x + SCROLL_X_DIM <= o.x \/ x >= o.x + o.width
        THEN line
        ELSE [i \in 0 .. SCROLL_X_DIM - 1 |->
                IF i >= first /\ o.width > imgx(i) /\ <<imgx(i), y - o.y>> \notin o.clear
                  THEN <<o.name, imgx(i), y - o.y>> ELSE line[i]]

\* The loop over the objects: the line after the first k of them.
fill_horiz_buffer(s, x, y) ==
  LET buf[k \in 0 .. Len(s.contents)] ==
        IF k = 0 THEN horiz_photo(s, x, y)
        ELSE horiz_object(buf[k - 1], s.contents[k], x, y)
  IN  buf[Len(s.contents)]

\* The same for the line of pixels that begins at (x, y) and runs downward.
vert_photo(s, x, y) ==
  [i \in 0 .. SCROLL_Y_DIM - 1 |->
     IF 0 <= y + i /\ s.height > y + i THEN <<s.photo, x, y + i>> ELSE Black]
vert_object(line, o, x, y) ==
  LET first == IF y <= o.y THEN o.y - y ELSE 0
      imgy(i) == (IF y <= o.y THEN 0 ELSE y - o.y) + i - first
  IN  IF \/ x < o.x \/ x >= o.x + o.width
         \/ y + SCROLL_Y_DIM <= o.y \/ y >= o.y + o.height
        THEN line
        ELSE [i \in 0 .. SCROLL_Y_DIM - 1 |->
                IF i >= first /\ o.height > imgy(i) /\ <<x - o.x, imgy(i)>> \notin o.clear
                  THEN <<o.name, x - o.x, imgy(i)>> ELSE line[i]]

fill_vert_buffer(s, x, y) ==
  LET buf[k \in 0 .. Len(s.contents)] ==
        IF k = 0 THEN vert_photo(s, x, y)
        ELSE vert_object(buf[k - 1], s.contents[k], x, y)
  IN  buf[Len(s.contents)]

\* Reference: what is to be seen at a point of a scene, namely the last object of the list
\* that is not transparent there, and the photograph where there is none.
Covers(o, x, y) ==
  /\ x - o.x \in 0 .. o.width - 1 /\ y - o.y \in 0 .. o.height - 1
  /\ <<x - o.x, y - o.y>> \notin o.clear
Look(s, x, y) ==
  LET there == {k \in DOMAIN s.contents : Covers(s.contents[k], x, y)}
      top == s.contents[Max(there)]
  IN  IF there = {} THEN <<s.photo, x, y>> ELSE <<top.name, x - top.x, y - top.y>>
=============================================================================
