-------------------------------- MODULE ModeX --------------------------------
(***************************************************************************)
(* Drawing in mode X (modex.c).  The picture is put together in a build    *)
(* buffer in which the four planes of the display lie one behind the other,*)
(* plane 3 first.  The logical view window moves inside that buffer; the   *)
(* part of the picture that stays visible is not drawn again, and only     *)
(* when the window would leave the buffer is it copied back to the middle. *)
(*                                                                         *)
(* A view is the record [x, y, off, build] of show_x, show_y, img3_off and *)
(* the buffer with its two memory fences: index 0 is the first byte behind *)
(* the lower fence.  Left out: the VGA registers and the palette.          *)
(***************************************************************************)
EXTENDS Photo, FiniteSetsExt

CONSTANTS
  EXTRA,             \* 20000: bytes of the build buffer beyond one screen
  MEM_FENCE_WIDTH    \* 256

ASSUME BufferAssumption == EXTRA \in Nat /\ MEM_FENCE_WIDTH \in Nat

SCROLL_X_WIDTH == SCROLL_X_DIM \div 4
SCROLL_SIZE == SCROLL_X_WIDTH * SCROLL_Y_DIM
SCREEN_SIZE == SCROLL_SIZE * 4 + 1
BUILD_BUF_SIZE == SCREEN_SIZE + EXTRA
BUILD_BASE_INIT == (BUILD_BUF_SIZE - SCREEN_SIZE) \div 2

MEM_FENCE_MAGIC == <<"magic", 0, 0>>
Buffer == 0 .. BUILD_BUF_SIZE - 1
Fenced == -MEM_FENCE_WIDTH .. BUILD_BUF_SIZE + MEM_FENCE_WIDTH - 1

\* Where the pixel (x, y) of the logical space lies in the build buffer.
Address(v, x, y) ==
  v.off + (x \div 4) + y * SCROLL_X_WIDTH + (3 - (x % 4)) * SCROLL_SIZE

Upto(n) == [i \in 1 .. n |-> i - 1]

\* The part of set_mode_X that is not about the VGA.
set_mode_X ==
  [x |-> 0, y |-> 0, off |-> BUILD_BASE_INIT,
   build |-> [a \in Fenced |-> IF a \in Buffer THEN Black ELSE MEM_FENCE_MAGIC]]

\* What clear_mode_X reports when the program ends.
FencesStand(v) == \A a \in Fenced \ Buffer : v.build[a] = MEM_FENCE_MAGIC

\* The copy loop, byte by byte in the order of the indices: the buffer after k bytes.
CopyByte(b, from, to) == [b EXCEPT ![to] = b[from]]
Copy(b, from, to, indices) ==
  LET copied[k \in 0 .. Len(indices)] ==
        IF k = 0 THEN b ELSE CopyByte(copied[k - 1], from + indices[k], to + indices[k])
  IN  copied[Len(indices)]

\* Faulty variant: a window that reaches one byte past the buffer is taken to fit.
Fits_wide(v, x, y) ==
  /\ v.off + (x \div 4) + y * SCROLL_X_WIDTH >= 0
  /\ v.off + 3 * SCROLL_SIZE + ((x + SCROLL_X_DIM - 1) \div 4)
       + (y + SCROLL_Y_DIM - 1) * SCROLL_X_WIDTH <= BUILD_BUF_SIZE
Fits(v, x, y) ==
  /\ v.off + (x \div 4) + y * SCROLL_X_WIDTH >= 0
  /\ v.off + 3 * SCROLL_SIZE + ((x + SCROLL_X_DIM - 1) \div 4)
       + (y + SCROLL_Y_DIM - 1) * SCROLL_X_WIDTH < BUILD_BUF_SIZE

Disjoint(v, x, y) ==
  \/ x <= v.x - SCROLL_X_DIM \/ x >= v.x + SCROLL_X_DIM
  \/ y <= v.y - SCROLL_Y_DIM \/ y >= v.y + SCROLL_Y_DIM

\* Faulty variant: the copy always runs forward.
Order_forward(from, to, length) == Upto(length)
\* The areas may overlap: a copy to a higher address begins at the end.
Order(from, to, length) == IF from < to THEN Reverse(Upto(length)) ELSE Upto(length)

set_view_window(v, x, y) ==
  LET start == (Max({x, v.x}) \div 4) + Max({y, v.y}) * SCROLL_X_WIDTH
      length == ((Min({x, v.x}) + SCROLL_X_DIM - 1) \div 4)
                  + (Min({y, v.y}) + SCROLL_Y_DIM - 1) * SCROLL_X_WIDTH
                  + 1 - start + 3 * SCROLL_SIZE
      off == BUILD_BASE_INIT - (x \div 4) - y * SCROLL_X_WIDTH
      moved == [v EXCEPT !.x = x, !.y = y]
  IN  IF Fits(v, x, y) THEN moved
      ELSE IF Disjoint(v, x, y) THEN [moved EXCEPT !.off = off]
      ELSE [moved EXCEPT !.off = off,
              !.build = Copy(v.build, v.off + start, off + start,
                             Order(v.off + start, off + start, length))]

\* The address of the pixel p of the window.
PixelAt(v, p) == Address(v, v.x + p[1], v.y + p[2])

\* The pixels of the window that the function pixels gives, stored at their addresses,
\* which are all different.
Draw(v, pixels) ==
  [v EXCEPT !.build = [a \in Fenced |->
     IF \E p \in DOMAIN pixels : PixelAt(v, p) = a
       THEN pixels[CHOOSE p \in DOMAIN pixels : PixelAt(v, p) = a] ELSE v.build[a]]]

\* draw_horiz_line for the lines ys of the window, from scene s, into the build buffer.
draw_horiz_line(v, s, ys) ==
  LET rows == ys \cap (0 .. SCROLL_Y_DIM - 1)
  IN  Draw(v, [p \in (0 .. SCROLL_X_DIM - 1) \X rows |->
                 fill_horiz_buffer(s, v.x, v.y + p[2])[p[1]]])

\* draw_vert_line for the columns xs.
draw_vert_line(v, s, xs) ==
  LET columns == xs \cap (0 .. SCROLL_X_DIM - 1)
  IN  Draw(v, [p \in columns \X (0 .. SCROLL_Y_DIM - 1) |->
                 fill_vert_buffer(s, v.x + p[1], v.y)[p[2]]])

\* The four planes of the window, copied to video memory; the display takes the pixels of
\* a line from the planes in turn.
show_screen(v) ==
  LET p_off == 3 - (v.x % 4)
      Plane(i) == v.off + (v.x \div 4) + v.y * SCROLL_X_WIDTH
                    + ((p_off - i + 4) % 4) * SCROLL_SIZE + (IF p_off < i THEN 1 ELSE 0)
  IN  [p \in (0 .. SCROLL_X_DIM - 1) \X (0 .. SCROLL_Y_DIM - 1) |->
         v.build[Plane(p[1] % 4) + (p[1] \div 4) + p[2] * SCROLL_X_WIDTH]]
=============================================================================
