----------------------------- MODULE OutputRows -----------------------------
(***************************************************************************)
(* The way of a decoded row of blocks to the application, one scanline     *)
(* after another: the main controller (jdmainct.c) that buffers an iMCU    *)
(* row, with its two pointer lists when the upsampler wants context; the   *)
(* upsampler, separate (jdsample.c) or merged (jdmerge.c); and the         *)
(* postprocessor (jdpostct.c) with its strip and its image of colours.     *)
(*                                                                         *)
(* A sample row of a component is its number in the image, PAD below the   *)
(* bottom and OLD before anything was written.  An output row is, for each *)
(* component, the sample rows it was made of: the one above, its own and   *)
(* the one below where the upsampler sees context, its own otherwise.      *)
(***************************************************************************)
EXTENDS Integers, Sequences

CONSTANTS
  Shapes,   \* the images: see ShapeOK
  MaxLines  \* the most rows an application asks for in one call

PAD == -1
OLD == -2

\* V is max_v_samp_factor, M min_DCT_v_scaled_size, rg the rows of each
\* component in a row group, H output_height; up names the upsampler and
\* quant the colour quantization.
ShapeOK(s) ==
  /\ s.V \in 1..4 /\ s.M \in 1..16 /\ s.H \in Nat \ {0}
  /\ 1 \in DOMAIN s.rg
  /\ \A c \in DOMAIN s.rg : s.rg[c] \in 1..s.V /\ s.V % s.rg[c] = 0
  /\ s.up \in {"separate", "context", "merged"}
  /\ s.quant \in {"none", "one", "two"}
  /\ s.up = "context" => s.M >= 2
  /\ s.up = "merged" => s.V = 2 /\ s.rg = <<2, 1, 1>>
ShapesOK == \A s \in Shapes : ShapeOK(s)

VARIABLES
  shape,
  pass,             \* "only", "dummy", "final" or "done"
  output_scanline,
  main,             \* the main controller and output_iMCU_row
  up,               \* the upsampler
  post,             \* the postprocessor
  shown             \* the rows the application has got in this pass
vars == <<shape, pass, output_scanline, main, up, post, shown>>

V == shape.V
M == shape.M
Comps == DOMAIN shape.rg
CeilDiv(a, b) == (a + b - 1) \div b
TotalIMCURows == CeilDiv(shape.H, V * M)
DownsampledHeight(c) == CeilDiv(shape.H * shape.rg[c], V)
Least(S) == CHOOSE x \in S : \A y \in S : x <= y
Clamp(x, hi) == IF x < 0 THEN 0 ELSE IF x > hi THEN hi ELSE x

-----------------------------------------------------------------------------
(* the main controller's buffer and pointer lists *)

NGroups == IF shape.up = "context" THEN M + 2 ELSE M
EmptyBuffer == [c \in Comps |-> [i \in 0..(shape.rg[c] * NGroups - 1) |-> OLD]]

\* xbuffer[w][c], from one row group above the buffer to one below it: the
\* second list has its last four row groups in swapped order.
make_funny_pointers ==
  [w \in 0..1 |-> [c \in Comps |-> LET g == shape.rg[c] IN
    [i \in (-g)..(g * (M + 3) - 1) |->
      CASE i < 0 -> IF w = 0 THEN 0 ELSE OLD
        [] i >= g * (M + 2) -> OLD
        [] w = 1 /\ i >= g * (M - 2) /\ i < g * M -> i + 2 * g
        [] w = 1 /\ i >= g * M /\ i < g * (M + 2) -> i - 2 * g
        [] OTHER -> i]]]

set_wraparound_pointers(x) ==
  [w \in 0..1 |-> [c \in Comps |-> LET g == shape.rg[c] IN
    [i \in DOMAIN x[w][c] |->
      CASE i < 0 -> x[w][c][g * (M + 2) + i]
        [] i >= g * (M + 2) -> x[w][c][i - g * (M + 2)]
        [] OTHER -> x[w][c][i]]]]

RowsLeft(c) ==
  LET h == shape.rg[c] * M IN
  IF DownsampledHeight(c) % h = 0 THEN h ELSE DownsampledHeight(c) % h
set_bottom_pointers(m) ==
  [m EXCEPT
    !.avail = (RowsLeft(1) - 1) \div shape.rg[1] + 1,
    !.xbuffer[m.whichptr] = [c \in Comps |->
      LET x == m.xbuffer[m.whichptr][c]
          n == RowsLeft(c)
      IN [i \in DOMAIN x |->
            IF i >= n /\ i < n + 2 * shape.rg[c] THEN x[n - 1] ELSE x[i]]]]

start_pass_main(m) ==
  [m EXCEPT !.full = FALSE, !.ctr = 0, !.whichptr = 0, !.state = "prepare",
            !.seen = 0, !.imcu = 0, !.xbuffer = make_funny_pointers]

\* The list the decoder writes to and the upsampler reads from.
Pointers(m, c) ==
  IF shape.up = "context" THEN m.xbuffer[m.whichptr][c]
  ELSE [i \in DOMAIN m.buffer[c] |-> i]

\* decompress_data: the samples of the next iMCU row; what is below the
\* image is padding.
decompress_data(m) ==
  [m EXCEPT
    !.full = TRUE, !.imcu = @ + 1,
    !.buffer = [c \in Comps |->
      LET h == shape.rg[c] * M
          x == Pointers(m, c)
          Row(i) == LET r == m.imcu * h + i IN
                    IF r < DownsampledHeight(c) THEN r ELSE PAD
      IN [p \in DOMAIN m.buffer[c] |->
            IF \E i \in 0..(h - 1) : x[i] = p
            THEN Row(CHOOSE i \in 0..(h - 1) : x[i] = p)
            ELSE m.buffer[c][p]]]]

-----------------------------------------------------------------------------
(* upsamplers: [m, u, rows], at most "room" rows from row group m.ctr on *)

Sample(m, c, i) ==
  LET x == Pointers(m, c) IN IF x[i] = OLD THEN OLD ELSE m.buffer[c][x[i]]

\* The V output rows of a row group.
RowGroup(m) ==
  [k \in 1..V |-> [c \in Comps |->
    LET i == m.ctr * shape.rg[c] + ((k - 1) * shape.rg[c]) \div V IN
    IF shape.up = "context"
    THEN <<Sample(m, c, i - 1), Sample(m, c, i), Sample(m, c, i + 1)>>
    ELSE <<Sample(m, c, i)>>]]

start_pass_upsample(u) ==
  [u EXCEPT !.next_row_out = V, !.rows_to_go = shape.H, !.spare_full = FALSE]

\* The conversion buffer is filled when it is empty.
Filled(m, u) ==
  IF u.next_row_out >= V THEN [u EXCEPT !.color_buf = RowGroup(m),
                                        !.next_row_out = 0]
                         ELSE u
Converted(m, b, n) ==
  [m |-> IF b.next_row_out + n >= V THEN [m EXCEPT !.ctr = @ + 1] ELSE m,
   u |-> [b EXCEPT !.next_row_out = @ + n, !.rows_to_go = @ - n],
   rows |-> SubSeq(b.color_buf, b.next_row_out + 1, b.next_row_out + n)]
ConvertSome(m, b, room) ==
  Converted(m, b, Least({V - b.next_row_out, b.rows_to_go, room}))
sep_upsample(m, u, room) == ConvertSome(m, Filled(m, u), room)

\* n rows of the row group two, of which the second one may be spared.
Merged(m, u, n, two) ==
  [m |-> IF n > 1 THEN [m EXCEPT !.ctr = @ + 1] ELSE m,
   u |-> [u EXCEPT !.rows_to_go = @ - n, !.spare_full = n <= 1,
                   !.spare_row = IF n > 1 THEN @ ELSE two[2]],
   rows |-> SubSeq(two, 1, n)]
merged_2v_upsample(m, u, room) ==
  IF u.spare_full
  THEN [m |-> [m EXCEPT !.ctr = @ + 1],
        u |-> [u EXCEPT !.spare_full = FALSE, !.rows_to_go = @ - 1],
        rows |-> <<u.spare_row>>]
  ELSE Merged(m, u, Least({2, u.rows_to_go, room}), RowGroup(m))

upsample(m, u, room) ==
  IF shape.up = "merged" THEN merged_2v_upsample(m, u, room)
  ELSE sep_upsample(m, u, room)

-----------------------------------------------------------------------------
(* the postprocessor; out is the rows delivered so far in this call *)

strip_height == V

start_pass_dpost(p) == [p EXCEPT !.starting_row = 0, !.next_row = 0]

Advance(p, n) ==
  IF p.next_row + n >= strip_height
  THEN [p EXCEPT !.starting_row = @ + strip_height, !.next_row = 0]
  ELSE [p EXCEPT !.next_row = @ + n]

\* The upsampler's rows r go on as they are.
PassOn(r, p) == [m |-> r.m, u |-> r.u, p |-> p, rows |-> r.rows]
post_process_1pass(m, u, p, room) ==
  PassOn(upsample(m, u, Least({room, strip_height})), p)

\* No row reaches the application; the number of rows tells the caller that
\* there is progress.
Kept(p, rows) ==
  LET first == p.starting_row + p.next_row
      Here(i) == i - first \in 1..Len(rows)
  IN [p EXCEPT !.whole_image =
        [i \in DOMAIN @ |-> IF Here(i) THEN rows[i - first] ELSE @[i]]]
Keep(r, p) == PassOn(r, Advance(Kept(p, r.rows), Len(r.rows)))
post_process_prepass(m, u, p) ==
  Keep(upsample(m, u, strip_height - p.next_row), p)

\* A slip: the second pass does not stop at the bottom of the image.
TwoPassIgnoresBottom(m, u, p, room) ==
  LET first == p.starting_row + p.next_row
      n == Least({strip_height - p.next_row, room})
  IN [m |-> m, u |-> u, p |-> Advance(p, n),
      rows |-> SubSeq(p.whole_image, first + 1, first + n)]
post_process_2pass(m, u, p, room) ==
  LET first == p.starting_row + p.next_row
      n == Least({strip_height - p.next_row, room, shape.H - p.starting_row})
  IN [m |-> m, u |-> u, p |-> Advance(p, n),
      rows |-> SubSeq(p.whole_image, first + 1, first + n)]

post_process_data(m, u, p, room) ==
  CASE pass = "final" -> post_process_2pass(m, u, p, room)
    [] pass = "dummy" -> post_process_prepass(m, u, p)
    [] pass = "only" /\ shape.quant # "none" ->
         post_process_1pass(m, u, p, room)
    [] OTHER -> PassOn(upsample(m, u, room), p)

-----------------------------------------------------------------------------
(* process_data: what one call delivers, once there is an iMCU row *)

EmptyWhenRead(r) ==
  IF r.m.ctr >= M THEN [r EXCEPT !.m.full = FALSE, !.m.ctr = 0] ELSE r
process_data_simple_main(room) ==
  EmptyWhenRead(post_process_data(
    IF main.full THEN main ELSE decompress_data(main), up, post, room))

PrepareForIMCU(m) ==
  LET n == [m EXCEPT !.ctr = 0, !.avail = M - 1, !.state = "process"]
  IN IF m.seen = TotalIMCURows THEN set_bottom_pointers(n) ELSE n

\* The last row group of an iMCU row waits for the first of the next one; it
\* is at index M + 1 of the other list.
PostponeLast(m) ==
  LET x == IF m.seen = 1 THEN set_wraparound_pointers(m.xbuffer)
           ELSE m.xbuffer
  IN [m EXCEPT !.xbuffer = x, !.whichptr = 1 - @, !.full = FALSE,
               !.ctr = M + 1, !.avail = M + 2, !.state = "postponed"]

PostponeWhenRead(q) ==
  IF q.m.ctr < q.m.avail THEN q ELSE [q EXCEPT !.m = PostponeLast(@)]
After(rows, q) == [q EXCEPT !.rows = rows \o @]
ProcessIMCU(r, room) ==
  PostponeWhenRead(
    After(r.rows, post_process_data(r.m, r.u, r.p, room - Len(r.rows))))
Prepared(r) == [r EXCEPT !.m = PrepareForIMCU(@)]

\* The last row group of the iMCU row before is read as far as r shows.
AfterPostponed(r, room) ==
  IF r.m.ctr < r.m.avail THEN r
  ELSE IF pass = "dummy" \/ Len(r.rows) >= room
  THEN [r EXCEPT !.m.state = "prepare"]
  ELSE ProcessIMCU(Prepared(r), room)

NoRows(m) == [m |-> m, u |-> up, p |-> post, rows |-> <<>>]
ContextMain(m, room) ==
  CASE m.state = "postponed" ->
         AfterPostponed(post_process_data(m, up, post, room), room)
    [] m.state = "process" -> ProcessIMCU(NoRows(m), room)
    [] OTHER -> ProcessIMCU(Prepared(NoRows(m)), room)
process_data_context_main(room) ==
  ContextMain(IF main.full THEN main
              ELSE [decompress_data(main) EXCEPT !.seen = @ + 1], room)

process_data(room) ==
  IF pass = "final" THEN post_process_data(main, up, post, room)
  ELSE IF shape.up = "context" THEN process_data_context_main(room)
       ELSE process_data_simple_main(room)

StartPass ==
  /\ main' = start_pass_main(main)
  /\ up' = start_pass_upsample(up)
  /\ post' = start_pass_dpost(post)
  /\ output_scanline' = 0 /\ shown' = <<>>

Init ==
  /\ shape \in Shapes
  /\ pass = IF shape.quant = "two" THEN "dummy" ELSE "only"
  /\ output_scanline = 0 /\ shown = <<>>
  /\ main = [full |-> FALSE, ctr |-> 0, avail |-> 0, whichptr |-> 0,
             state |-> "prepare", seen |-> 0, imcu |-> 0,
             buffer |-> EmptyBuffer, xbuffer |-> make_funny_pointers]
  /\ up = [next_row_out |-> V, rows_to_go |-> shape.H, spare_full |-> FALSE,
           color_buf |-> <<>>, spare_row |-> <<>>]
  /\ post = [starting_row |-> 0, next_row |-> 0,
             whole_image |-> [i \in 1..(CeilDiv(shape.H, V) * V) |-> <<>>]]

Deliver(r, emits) ==
  /\ main' = r.m /\ up' = r.u /\ post' = r.p
  /\ output_scanline' = output_scanline + Len(r.rows)
  /\ shown' = IF emits THEN shown \o r.rows ELSE shown
  /\ UNCHANGED <<shape, pass>>

\* jpeg_read_scanlines asks for a number of rows and gets some of them.
ReadScanlines(max_lines) ==
  /\ pass \in {"only", "final"} /\ output_scanline < shape.H
  /\ Deliver(process_data(max_lines), TRUE)

\* output_pass_setup cranks the dummy pass through process_data.
DummyPass ==
  /\ pass = "dummy" /\ output_scanline < shape.H
  /\ Deliver(process_data(0), FALSE)

\* The final pass starts only the postprocessor and the main controller's
\* crank: the rows are all in its image.
StartFinalPass ==
  /\ pass = "dummy" /\ output_scanline >= shape.H
  /\ pass' = "final" /\ output_scanline' = 0
  /\ post' = start_pass_dpost(post)
  /\ UNCHANGED <<shape, main, up, shown>>

\* A later output pass of buffered-image mode, after any part of this one.
\* The colours are chosen once: it needs no dummy pass.
NextPass ==
  /\ pass \in {"only", "final"} /\ shown # <<>>
  /\ StartPass /\ pass' = "only" /\ UNCHANGED shape

Done ==
  /\ output_scanline >= shape.H /\ pass \in {"only", "final"}
  /\ UNCHANGED vars

Next ==
  \/ \E n \in 1..MaxLines : ReadScanlines(n)
  \/ DummyPass \/ StartFinalPass \/ NextPass \/ Done
Spec == Init /\ [][Next]_vars

-----------------------------------------------------------------------------
(* properties *)

TypeOK ==
  /\ pass \in {"only", "dummy", "final"}
  /\ main.ctr \in 0..(M + 2) /\ main.avail \in 0..(M + 2)
  /\ main.imcu \in 0..TotalIMCURows /\ main.seen \in 0..TotalIMCURows
  /\ up.next_row_out \in 0..V /\ up.rows_to_go \in 0..shape.H
  /\ post.next_row \in 0..(strip_height - 1)

\* The sample rows that output row y is made of: in each component its own,
\* and with context its neighbours, the first and last standing for what is
\* outside the image.
Expected(y) ==
  [c \in Comps |->
    LET s == (y * shape.rg[c]) \div V
        last == DownsampledHeight(c) - 1
    IN IF shape.up = "context"
       THEN <<Clamp(s - 1, last), s, Clamp(s + 1, last)>>
       ELSE <<s>>]

\* The application gets the rows of the image from top to bottom, each once,
\* made of the samples above, at and below it, whatever the number of rows
\* it asks for, through every buffer and both pointer lists.
RowsAreRight ==
  \A y \in DOMAIN shown : y <= shape.H => shown[y] = Expected(y - 1)

\* No row beyond the bottom of the image is delivered, however many lines
\* the application has room for.
StopsAtBottom == output_scanline <= shape.H

\* While rows go straight to the application, the upsampler's count of the
\* rows to come is the caller's: a spare row is neither lost nor counted twice.
CountsAgree == pass = "only" => up.rows_to_go + output_scanline = shape.H

\* A call that is not suspended delivers at least one row; in the dummy pass
\* a call without a row is taken for a suspension and never gets further.
CallsProgress ==
  [][\/ output_scanline' > output_scanline
     \/ pass' # pass
     \/ output_scanline' = 0 /\ shown' = <<>> /\ ~main'.full]_vars
=============================================================================
