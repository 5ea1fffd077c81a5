------------------------------- MODULE Copybit ------------------------------
(***************************************************************************)
(* The copybit HAL of src/libcopybit/copybit.cpp, as Android.mk builds it  *)
(* (COPYBIT_MSM7K, no MDP_BLUR).  A stretch walks the rectangles of a      *)
(* region, turns each into a request for the display processor and hands   *)
(* the requests over MaxCount at a time.  The MDP driver is external: it   *)
(* runs the requests of a list in order until one fails, and refuses one   *)
(* that leaves its images.                                                 *)
(***************************************************************************)
EXTENDS Integers, Sequences, FiniteSets

CONSTANTS
    MaxCount,       \* requests in a list (12 in stretch_copybit)
    MaxDimension,   \* MAX_DIMENSION
    Modulus,        \* 2^32: the fields of an mdp_rect are uint32_t
    Alphas,         \* values of COPYBIT_PLANE_ALPHA a client sets
    Jobs,           \* records dst, src, dst_rect, src_rect of a stretch
    Regions         \* sequences of rectangles a region iterator returns

\* The values of an int, the sides an image may have, and what a client passes.
Ints   == -(Modulus \div 2) .. Modulus \div 2 - 1
Rects  == [l : Ints, t : Ints, r : Ints, b : Ints]
Sides  == 0 .. Modulus \div 2 - 1
Images == [w : Sides, h : Sides, format : STRING, gpu : BOOLEAN]
Requestable == [dst : Images, src : Images, dst_rect : Rects, src_rect : Rects]

\* The pixels of a copybit_rect_t.
Area(rect) == (rect.l .. rect.r - 1) \X (rect.t .. rect.b - 1)

\* MAX_DIMENSION is 2^12; the rectangles of a region do not overlap.
ASSUME CopybitAssumption ==
    /\ {MaxCount, MaxDimension, Modulus} \subseteq Nat \ {0}
    /\ 2 * MaxDimension < Modulus /\ MaxDimension * MaxDimension < Modulus
    /\ Alphas \subseteq Int
    /\ Jobs \subseteq Requestable
    /\ \A job \in Jobs : /\ job.dst_rect.l < job.dst_rect.r
                         /\ job.dst_rect.t < job.dst_rect.b
    /\ Regions \subseteq Seq(Rects)
    /\ \A rects \in Regions : \A i, k \in DOMAIN rects :
           i # k => Area(rects[i]) \cap Area(rects[k]) = {}

VARIABLES
    opened,     \* open_copybit has handed out the device
    mFlags,     \* copybit_context_t.mFlags, its set bits
    mAlpha,     \* copybit_context_t.mAlpha
    stage,      \* "idle"; "loop" inside stretch_copybit, "done" as it returns
    job,        \* the arguments of stretch_copybit
    region,     \* the region's rectangles
    next,       \* how many of them region->next has returned
    list,       \* list.req[0 .. list.count - 1]
    status,     \* what the stretch has come to
    drawn       \* history: requests the driver has carried out for it

copybitVars == <<opened, mFlags, mAlpha, stage, job, region, next, list, status, drawn>>

FlipH == "FLIP_LR"
FlipV == "FLIP_UD"
Rot90 == "ROT_90"
Turns == {FlipH, FlipV, Rot90}

----------------------------------------------------------------------------
(* Rectangles: a copybit_rect_t has l, t, r, b; an mdp_rect x, y, w, h.    *)

min(a, b) == IF a < b THEN a ELSE b
max(a, b) == IF a > b THEN a ELSE b
Uint(i) == i % Modulus

intersect(lhs, rhs) ==
    [l |-> max(lhs.l, rhs.l), t |-> max(lhs.t, rhs.t),
     r |-> min(lhs.r, rhs.r), b |-> min(lhs.b, rhs.b)]

Whole(image) == [l |-> 0, t |-> 0, r |-> image.w, b |-> image.h]

MULDIV(a, mul, div) ==
    IF mul = div THEN Uint(a) ELSE Uint(mul * Uint(a)) \div Uint(div)

----------------------------------------------------------------------------
(* set_rects: the part of dst inside the scissor, and the part of the     *)
(* source image it comes from.                                            *)

\* The faulty variant used as a mutant: the clip's offset under a rotation is
\* taken from the left edge of the destination.
TurnedFromLeft(dst, src, clip) ==
    [x |-> (clip.t - dst.t) + src.t, y |-> (clip.l - dst.l) + src.l,
     w |-> clip.b - clip.t, h |-> clip.r - clip.l,
     W |-> dst.b - dst.t, H |-> dst.r - dst.l]

Turned(dst, src, clip) ==
    [x |-> (clip.t - dst.t) + src.t, y |-> (dst.r - clip.r) + src.l,
     w |-> clip.b - clip.t, h |-> clip.r - clip.l,
     W |-> dst.b - dst.t, H |-> dst.r - dst.l]

Upright(dst, src, clip) ==
    [x |-> (clip.l - dst.l) + src.l, y |-> (clip.t - dst.t) + src.t,
     w |-> clip.r - clip.l, h |-> clip.b - clip.t,
     W |-> dst.r - dst.l, H |-> dst.b - dst.t]

Scaled(s, src) ==
    [x |-> MULDIV(s.x, src.r - src.l, s.W), w |-> MULDIV(s.w, src.r - src.l, s.W),
     y |-> MULDIV(s.y, src.b - src.t, s.H), h |-> MULDIV(s.h, src.b - src.t, s.H)]

Flipped(s, flags, image) ==
    [s EXCEPT !.y = IF FlipV \in flags THEN Uint(image.h - (s.y + s.h)) ELSE s.y,
              !.x = IF FlipH \in flags THEN Uint(image.w - (s.x + s.w)) ELSE s.x]

set_rects(flags, j, scissor) ==
    LET clip == intersect(scissor, j.dst_rect)
        from == IF Rot90 \in flags THEN Turned(j.dst_rect, j.src_rect, clip)
                                   ELSE Upright(j.dst_rect, j.src_rect, clip)
    IN  [dst_rect |-> [x |-> Uint(clip.l), y |-> Uint(clip.t),
                       w |-> Uint(clip.r - clip.l), h |-> Uint(clip.b - clip.t)],
         src_rect |-> Flipped(Scaled(from, j.src_rect), flags, j.src)]

MdpFormats == {"RGB_565", "RGBX_8888", "RGB_888", "RGBA_8888", "BGRA_8888",
               "YCrCb_420_SP", "YCbCr_422_SP"}

\* set_image: the format the MDP is told; "none" is the code's -1, and a
\* surface of the GPU comes in BGRA, never in RGBA.
get_format(image) ==
    CASE image.format \notin MdpFormats -> "none"
      [] image.format = "RGBA_8888" /\ image.gpu -> "BGRA_8888"
      [] OTHER -> image.format

\* set_infos, set_image and set_rects.
Request(j, scissor) ==
    LET rects == set_rects(mFlags, j, scissor)
    IN  [dst_rect |-> rects.dst_rect, src_rect |-> rects.src_rect,
         flags |-> mFlags, alpha |-> mAlpha,
         src |-> get_format(j.src), dst |-> get_format(j.dst)]

----------------------------------------------------------------------------
(* The driver's side of MSMFB_BLIT (external).                             *)

Inside(rect, image) ==
    /\ rect.w > 0 /\ rect.x + rect.w <= image.w
    /\ rect.h > 0 /\ rect.y + rect.h <= image.h

Runs(req) ==
    /\ Inside(req.dst_rect, job.dst) /\ Inside(req.src_rect, job.src)
    /\ "none" \notin {req.src, req.dst}

\* msm_copybit: the driver carries out the first n requests, all of them or
\* those before the one it fails on.
msm_copybit(reqs) ==
    \E n \in 0 .. Len(reqs) :
        /\ \A i \in 1 .. n : Runs(reqs[i])
        /\ drawn' = drawn \o SubSeq(reqs, 1, n)
        /\ status' = IF n = Len(reqs) THEN "ok" ELSE "failed"

----------------------------------------------------------------------------
(* The operations.                                                         *)

NoJob == [dst |-> "none"]

CopybitInit ==
    /\ opened = FALSE
    /\ mFlags = {} /\ mAlpha = 255
    /\ stage = "idle" /\ job = NoJob /\ region = <<>> /\ next = 0
    /\ list = <<>> /\ status = "ok" /\ drawn = <<>>

\* open_copybit with a framebuffer of the MDP; without one it hands out
\* nothing and closes what it opened.
Open ==
    /\ ~opened /\ stage = "idle"
    /\ opened' = TRUE /\ mFlags' = {} /\ mAlpha' = 255
    /\ UNCHANGED <<stage, job, region, next, list, status, drawn>>

close_copybit ==
    /\ opened /\ stage = "idle"
    /\ opened' = FALSE
    /\ UNCHANGED <<mFlags, mAlpha, stage, job, region, next, list, status, drawn>>

\* MDP_ROT_180 is both flips, MDP_ROT_270 is them and MDP_ROT_90.
RotationFlags(degrees) ==
    CASE degrees = 0 -> {} [] degrees = 90 -> {Rot90}
      [] degrees = 180 -> {FlipH, FlipV} [] degrees = 270 -> Turns

SetFlags(flags) ==
    /\ opened /\ stage = "idle"
    /\ mFlags' = flags
    /\ UNCHANGED <<opened, mAlpha, stage, job, region, next, list, status, drawn>>

SetRotation ==
    \E degrees \in {0, 90, 180, 270} :
        SetFlags((mFlags \ Turns) \cup RotationFlags(degrees))

SetTransform == \E value \in SUBSET Turns : SetFlags((mFlags \ Turns) \cup value)

SetDither ==
    \/ SetFlags(mFlags \cup {"DITHER"})
    \/ SetFlags(mFlags \ {"DITHER"})

SetPlaneAlpha ==
    /\ opened /\ stage = "idle"
    /\ \E value \in Alphas : mAlpha' = min(max(value, 0), 255)
    /\ UNCHANGED <<opened, mFlags, stage, job, region, next, list, status, drawn>>

AlphaFormats == {"RGBA_8888", "BGRA_8888", "RGBA_5551", "RGBA_4444"}

Refused(j) ==
    \/ mAlpha < 255 /\ j.src.format \in AlphaFormats
    \/ j.src_rect.l < 0 \/ j.src_rect.r > j.src.w
    \/ j.src_rect.t < 0 \/ j.src_rect.b > j.src.h
    \/ max(j.src.w, j.src.h) > MaxDimension
    \/ max(j.dst.w, j.dst.h) > MaxDimension

\* stretch_copybit up to its loop.
Stretch(j, rects) ==
    /\ opened /\ stage = "idle"
    /\ job' = j /\ region' = rects /\ next' = 0
    /\ list' = <<>> /\ drawn' = <<>>
    /\ IF Refused(j) THEN status' = "EINVAL" /\ stage' = "done"
                     ELSE status' = "ok" /\ stage' = "loop"
    /\ UNCHANGED <<opened, mFlags, mAlpha>>

\* blit_copybit: the whole of src onto the whole of dst.
Blit(j, rects) ==
    Stretch([j EXCEPT !.dst_rect = Whole(j.dst), !.src_rect = Whole(j.src)], rects)

Empty(rect) == rect.w = 0 \/ rect.h = 0

\* The faulty variant used as a mutant: a full list is sent, not emptied.
AddKept(req) ==
    /\ list' = Append(list, req)
    /\ IF Len(list) + 1 = MaxCount
       THEN msm_copybit(Append(list, req))
       ELSE UNCHANGED <<drawn, status>>

Add(req) ==
    IF Len(list) + 1 = MaxCount
    THEN list' = <<>> /\ msm_copybit(Append(list, req))
    ELSE list' = Append(list, req) /\ UNCHANGED <<drawn, status>>

\* One turn of the loop: the next rectangle of the region, clipped to dst.
NextRect ==
    /\ stage = "loop" /\ status = "ok" /\ next < Len(region)
    /\ next' = next + 1
    /\ LET req == Request(job, intersect(Whole(job.dst), region[next + 1]))
       IN  IF Empty(req.src_rect) \/ Empty(req.dst_rect)
           THEN UNCHANGED <<list, drawn, status>>
           ELSE Add(req)
    /\ UNCHANGED <<opened, mFlags, mAlpha, stage, job, region>>

\* After the loop: the rest of the list, and the return.
Finish ==
    /\ stage = "loop" /\ (status # "ok" \/ next = Len(region))
    /\ IF status = "ok" /\ list # <<>>
       THEN msm_copybit(list)
       ELSE UNCHANGED <<drawn, status>>
    /\ stage' = "done"
    /\ UNCHANGED <<opened, mFlags, mAlpha, job, region, next, list>>

\* stretch_copybit returns: its locals are gone.
StretchReturns ==
    /\ stage = "done"
    /\ stage' = "idle" /\ job' = NoJob /\ region' = <<>> /\ next' = 0
    /\ list' = <<>> /\ status' = "ok" /\ drawn' = <<>>
    /\ UNCHANGED <<opened, mFlags, mAlpha>>

CopybitNext ==
    \/ Open \/ close_copybit
    \/ SetRotation \/ SetTransform \/ SetDither \/ SetPlaneAlpha
    \/ \E j \in Jobs, rects \in Regions : Stretch(j, rects) \/ Blit(j, rects)
    \/ NextRect
    \/ Finish
    \/ StretchReturns

CopybitSpec == CopybitInit /\ [][CopybitNext]_copybitVars

----------------------------------------------------------------------------
(* Properties.                                                             *)

Pixels(rect) == (rect.x .. rect.x + rect.w - 1) \X (rect.y .. rect.y + rect.h - 1)

Done == stage = "done" /\ status = "ok"

\* The requests of the current stretch, carried out or still in the list.
Requests == {drawn[i] : i \in DOMAIN drawn} \cup {list[i] : i \in DOMAIN list}

Asked == (UNION {Area(region[i]) : i \in DOMAIN region})
             \cap Area(Whole(job.dst)) \cap Area(job.dst_rect)

\* No side of the destination is longer than the side of the source it shows.
Magnified ==
    LET w == job.src_rect.r - job.src_rect.l
        h == job.src_rect.b - job.src_rect.t
        W == job.dst_rect.r - job.dst_rect.l
        H == job.dst_rect.b - job.dst_rect.t
    IN  IF Rot90 \in mFlags THEN H > w \/ W > h ELSE W > w \/ H > h

\* A stretch that returns success has drawn every pixel of the region that
\* lies in the destination rectangle and in the image, and nothing else, and
\* each of them once, however the region's rectangles fall on the lists of
\* MaxCount requests.  (Nothing is claimed of a magnifying stretch: there a
\* narrow rectangle comes to no source pixel and is skipped.)
Covered ==
    Done =>
        /\ \A i, k \in DOMAIN drawn :
               i # k => Pixels(drawn[i].dst_rect) \cap Pixels(drawn[k].dst_rect) = {}
        /\ UNION {Pixels(drawn[i].dst_rect) : i \in DOMAIN drawn} \subseteq Asked
        /\ ~Magnified
               => Asked \subseteq UNION {Pixels(drawn[i].dst_rect) : i \in DOMAIN drawn}

\* The source pixel an unscaled request shows at pixel p: the MDP flips the
\* source rectangle, and turns it to the right.
Shown(req, p) ==
    LET i == p[1] - req.dst_rect.x
        k == p[2] - req.dst_rect.y
        turned == Rot90 \in req.flags
        u == IF turned THEN k ELSE i
        v == IF turned THEN req.dst_rect.w - 1 - i ELSE k
    IN  <<req.src_rect.x + (IF FlipH \in req.flags THEN req.src_rect.w - 1 - u ELSE u),
          req.src_rect.y + (IF FlipV \in req.flags THEN req.src_rect.h - 1 - v ELSE v)>>

\* The request that would draw the whole job at once.
Unclipped(req) ==
    [req EXCEPT !.src_rect = [x |-> 0, y |-> 0, w |-> job.src.w, h |-> job.src.h],
                !.dst_rect = [x |-> job.dst_rect.l, y |-> job.dst_rect.t,
                              w |-> job.dst_rect.r - job.dst_rect.l,
                              h |-> job.dst_rect.b - job.dst_rect.t]]

Unscaled(req) ==
    LET d == Unclipped(req).dst_rect
    IN  IF Rot90 \in req.flags THEN d.h = job.src.w /\ d.w = job.src.h
                               ELSE d.w = job.src.w /\ d.h = job.src.h

\* However an unscaled stretch of a whole image is cut into rectangles, and
\* whatever its transform, each request shows at each of its pixels what the
\* stretch in one piece would show there.
ClipExact ==
    \A req \in Requests :
        (job.src_rect = Whole(job.src) /\ Unscaled(req) /\ Runs(req))
            => \A p \in Pixels(req.dst_rect) : Shown(req, p) = Shown(Unclipped(req), p)
=============================================================================
