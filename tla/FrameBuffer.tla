---------------------------- MODULE FrameBuffer ----------------------------
(***************************************************************************)
(* The drawing of framebuf on the memory of mono_vlsb: a byte holds eight  *)
(* pixels of a column, lowest bit on top, and rows of bytes follow each    *)
(* other.  A buffer is [width, height, offset, lit], lit the set of its    *)
(* bits <<index, bit>> that are 1; an index past the buffer is memory of   *)
(* somebody else's.  A character is the set of its pixels <<column, row>>. *)
(***************************************************************************)
EXTENDS Integers, Sequences, SequencesExt

U16(n) == n % 65536

Blank(width, height, offset) == [width |-> width, height |-> height, offset |-> offset, lit |-> {}]

\* The bytes of the buffer, the control byte before them included.
BufferSize(fb) == fb.width * ((fb.height + 7) \div 8) + fb.offset

Cell(fb, x, y) == <<(y \div 8) * fb.width + x + fb.offset, y % 8>>

Colored(fb, cells, color) ==
    [fb EXCEPT !.lit = IF color = 0 THEN @ \ cells ELSE @ \cup cells]

SetPixel(fb, x, y, color) == Colored(fb, {Cell(fb, x, y)}, color)
GetPixel(fb, x, y) == IF Cell(fb, x, y) \in fb.lit THEN 1 ELSE 0

Within(fb, x, y) == x \in 0..(fb.width - 1) /\ y \in 0..(fb.height - 1)
CellsOf(fb, points) == {Cell(fb, p[1], p[2]) : p \in {q \in points : Within(fb, q[1], q[2])}}

-----------------------------------------------------------------------------
(* Rectangles: the only drawing that is not clipped. *)

\* A pointer walks along each row, from one byte column to the next.
RectCells(fb, x, y, w, h) ==
    {LET start == Cell(fb, U16(x), U16(y + j)) IN <<start[1] + i, start[2]>> :
        i \in 0..(w - 1), j \in 0..(h - 1)}

FillRect(fb, x, y, w, h, color) == Colored(fb, RectCells(fb, x, y, w, h), color)

Frame(fb, x, y, w, h) ==
    RectCells(fb, x, y, w, 1) \cup RectCells(fb, x, y + h - 1, w, 1)
    \cup RectCells(fb, x, y, 1, h) \cup RectCells(fb, x + w - 1, y, 1, h)

Rect(fb, x, y, w, h, color) == Colored(fb, Frame(fb, x, y, w, h), color)

Fill(fb, color) == FillRect(fb, 0, 0, fb.width, fb.height, color)

-----------------------------------------------------------------------------
(* Lines: along the longer axis, a step aside when the error says so (at   *)
(* most one, as the other axis is not longer).                             *)

Sign(d) == IF d > 0 THEN 1 ELSE -1
Length(d) == IF d > 0 THEN d ELSE -d

FirstError(dx, dy) == 2 * dy - dx

\* The first n points of a walk from <<x, y>>.
Walk(x, y, sx, sy, dx, dy, n) ==
    LET from[p \in Nat \X Nat, e \in Int, k \in Nat] ==
            LET aside == e >= 0
            IN  IF k = 0 THEN {}
                ELSE {p} \cup from[<<U16(p[1] + sx), IF aside THEN U16(p[2] + sy) ELSE p[2]>>,
                                   (IF aside THEN e - 2 * dx ELSE e) + 2 * dy, k - 1]
    IN  from[<<x, y>>, FirstError(dx, dy), n]

LinePoints(x1, y1, x2, y2) ==
    LET dx == Length(x2 - x1)
        dy == Length(y2 - y1)
        sx == Sign(x2 - x1)
        sy == Sign(y2 - y1)
    IN  {<<x2, y2>>} \cup
        (IF dy > dx THEN {<<p[2], p[1]>> : p \in Walk(y1, x1, sy, sx, dy, dx, dy)}
         ELSE Walk(x1, y1, sx, sy, dx, dy, dx))

Line(fb, x1, y1, x2, y2, color) == Colored(fb, CellsOf(fb, LinePoints(x1, y1, x2, y2)), color)

-----------------------------------------------------------------------------
(* Texts *)

\* The k-th of the characters chars stands 8 columns right of the one before.
TextPoints(chars, x, y) ==
    UNION {{<<U16(x + 8 * (k - 1) + g[1]), y + g[2]>> : g \in chars[k]} : k \in DOMAIN chars}

Text(fb, chars, x, y, color) == Colored(fb, CellsOf(fb, TextPoints(chars, x, y)), color)

-----------------------------------------------------------------------------
(* Copies *)

OutOfBounds(fb, source, x, y) ==
    x >= fb.width \/ y >= fb.height \/ -x >= source.width \/ -y >= source.height

\* The color of a source pixel, through the first row of a palette if there
\* is one: palette is <<>> or <<buffer>>.
Looked(source, palette, x, y) ==
    LET color == GetPixel(source, x, y)
    IN  IF palette = <<>> THEN color ELSE GetPixel(palette[1], color, 0)

Least(a, b) == IF a < b THEN a ELSE b
Most(a, b) == IF a > b THEN a ELSE b

Skipped(x) == Most(0, -x)

Blit(fb, source, x, y, key, palette) ==
    IF OutOfBounds(fb, source, x, y) THEN fb
    ELSE LET xs == Most(0, x)..(Least(fb.width, x + source.width) - 1)
             ys == Most(0, y)..(Least(fb.height, y + source.height) - 1)
             color(px, py) == Looked(source, palette, px - Most(0, x) + Skipped(x),
                                                     py - Most(0, y) + Skipped(y))
             Cells(c) == {Cell(fb, p[1], p[2]) : p \in {q \in xs \X ys : color(q[1], q[2]) = c}}
         IN  Colored(Colored(fb, IF key = 0 THEN {} ELSE Cells(0), 0),
                     IF key = 1 THEN {} ELSE Cells(1), 1)

-----------------------------------------------------------------------------
(* Scrolling, in place: each axis is walked away from where it goes. *)

Upwards(size, step) == [i \in 1..(size + step) |-> i - 1]
Downwards(size, step) == [i \in 1..(size - step) |-> size - i]

AlwaysUp(size, step) ==                                  \* faulty variant
    [i \in 1..(size - Length(step)) |-> (IF step > 0 THEN step ELSE 0) + i - 1]
Order(size, step) == IF step < 0 THEN Upwards(size, step) ELSE Downwards(size, step)

Beyond(size, step) == IF step < 0 THEN size + step <= 0 ELSE step >= size

Scroll(fb, xstep, ystep) ==
    IF Beyond(fb.width, xstep) \/ Beyond(fb.height, ystep) THEN fb
    ELSE FoldLeft(LAMBDA row, y :
                      FoldLeft(LAMBDA b, x : SetPixel(b, x, y, GetPixel(b, x - xstep, y - ystep)),
                               row, Order(fb.width, xstep)),
                  fb, Order(fb.height, ystep))

=============================================================================
