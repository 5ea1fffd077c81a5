----------------------------- MODULE MCCopybit ------------------------------
(* Model checking instance of Copybit: a 4 x 3 screen and the plane around  *)
(* it cut into six tiles, which a region returns from top to bottom.       *)
EXTENDS Copybit

LOCAL Image(w, h, format) == [w |-> w, h |-> h, format |-> format, gpu |-> FALSE]
LOCAL Rect(l, t, r, b) == [l |-> l, t |-> t, r |-> r, b |-> b]
LOCAL Screen == Image(4, 3, "RGB_565")

\* Unscaled, turned, shrunk by two, cropped, magnified, out of the source,
\* and in a format the MDP does not have.
MCJobs ==
    {[dst |-> Screen, src |-> Image(3, 2, "RGB_565"), src_rect |-> Rect(0, 0, 3, 2),
      dst_rect |-> Rect(l, t, l + 3, t + 2)] : l \in {-1, 0, 2}, t \in {0, 1}}
    \cup
    {[dst |-> Screen, src |-> Image(3, 2, "RGBA_8888"), src_rect |-> Rect(0, 0, 3, 2),
      dst_rect |-> Rect(l, t, l + 2, t + 3)] : l \in {-1, 1}, t \in {-1, 1}}
    \cup
    {[dst |-> Screen, src |-> Image(6, 4, "RGB_565"), src_rect |-> from,
      dst_rect |-> Rect(0, 1, 3, 3)] : from \in {Rect(0, 0, 6, 4), Rect(1, 2, 4, 4)}}
    \cup
    {[dst |-> Screen, src |-> Image(2, 2, format), src_rect |-> from,
      dst_rect |-> Rect(0, 0, 4, 3)] : from \in {Rect(0, 0, 2, 2), Rect(1, 0, 3, 2)},
                                       format \in {"RGB_565", "RGBA_5551"}}

LOCAL Tiles == <<Rect(-1, -1, 1, 2), Rect(1, -1, 2, 2), Rect(2, -1, 5, 2),
           Rect(-1, 2, 1, 4), Rect(1, 2, 2, 4), Rect(2, 2, 5, 4)>>

MCRegions == {SelectSeq(Tiles, LAMBDA tile : tile \in some) :
                 some \in SUBSET {Tiles[i] : i \in 1 .. 6}}
MCAlphas == {-1, 128, 256}
=============================================================================
