------------------------------- MODULE FbPost -------------------------------
(***************************************************************************)
(* Page flipping in src/libgralloc/framebuffer.cpp: the thread that posts  *)
(* framebuffer buffers (fb_post) and the thread that shows them            *)
(* (disp_loop).  They share the queue disp, under qlock, and one record    *)
(* avail[i] per buffer index, each under its own lock.                     *)
(*                                                                         *)
(* The posting thread draws between its calls, into a buffer the lock word *)
(* lets it write (no other thread locks these buffers), and may change the *)
(* swap interval then (fb_setSwapInterval).                                *)
(***************************************************************************)
EXTENDS Integers, Sequences, FiniteSets

CONSTANTS Buffers,     \* the buffers in the framebuffer
          NoBuffer,
          Habits,      \* the sets of swap intervals clients switch between
          Spurious,    \* whether pthread_cond_wait may return unsignalled
          MaxQueue     \* bound: fb_post is not called with a longer queue

NUM_BUFFERS == 2

ASSUME FbPostAssumption == /\ NoBuffer \notin Buffers
                           /\ Habits \subseteq SUBSET {0, 1}
                           /\ Spurious \in BOOLEAN
                           /\ MaxQueue \in Nat

VARIABLES intervals,                  \* those this client sets
          swapInterval,
          currentIdx, currentBuffer,  \* of the last post, -1 and NoBuffer before
          avail,                      \* is_avail of each index
          disp,                       \* the queue, entries with idx and buf
          locks,                      \* how often each buffer is locked for post
          post,                       \* fb_post: where it is
          buffer,                     \* its argument
          loop,                       \* disp_loop: where it is
          nxtBuf, cur_buf,            \* its locals; cur_buf is -1 at first
          shown                       \* the buffer the panel scans out

vars == <<intervals, swapInterval, currentIdx, currentBuffer, avail, disp, locks,
          post, buffer, loop, nxtBuf, cur_buf, shown>>

Indices == 0..(NUM_BUFFERS - 1)
NoEntry == [idx |-> 0, buf |-> NoBuffer]     \* no entry in disp_loop's hands
nxtIdx  == (currentIdx + 1) % NUM_BUFFERS

Init == /\ intervals \in Habits
        /\ swapInterval = 1
        /\ currentIdx = -1 /\ currentBuffer = NoBuffer
        /\ avail = [i \in Indices |-> TRUE]
        /\ disp = <<>>
        /\ locks = [b \in Buffers |-> 0]
        /\ post = "idle" /\ buffer = NoBuffer
        /\ loop = "start" /\ nxtBuf = NoEntry /\ cur_buf = -1
        /\ shown = NoBuffer

settings == <<intervals, swapInterval>>
poster  == <<post, buffer>>
display == <<nxtBuf, cur_buf, shown>>

-----------------------------------------------------------------------------
(* fb_setSwapInterval *)

SetSwapInterval ==
    /\ post = "idle"
    /\ swapInterval' \in intervals
    /\ UNCHANGED <<intervals, currentIdx, currentBuffer, avail, disp, locks, poster,
                   loop, display>>

-----------------------------------------------------------------------------
(* fb_post of a buffer that was drawn, hence is not locked for post *)

\* With interval 0 the test of avail fails, too, if disp_loop has its lock.
NothingAvailable == ~avail[nxtIdx]
MayFindLocked == /\ loop = "mark"
                 /\ nxtIdx = IF cur_buf = -1 THEN nxtBuf.idx ELSE cur_buf

PostCall(b) ==
    /\ post = "idle" /\ locks[b] = 0 /\ Len(disp) <= MaxQueue
    /\ buffer' = b
    /\ \/ post' = "lock" /\ (swapInterval = 0 => avail[nxtIdx])
       \/ post' = "reuse" /\ swapInterval = 0 /\ (NothingAvailable \/ MayFindLocked)
    /\ UNCHANGED <<settings, currentIdx, currentBuffer, avail, disp, locks,
                   loop, display>>

LockNew ==
    /\ post = "lock"
    /\ locks' = [locks EXCEPT ![buffer] = @ + 1]
    /\ post' = "unavail"
    /\ UNCHANGED <<settings, currentIdx, currentBuffer, avail, disp, buffer,
                   loop, display>>

ClearAvail ==
    /\ post = "unavail"
    /\ avail' = [avail EXCEPT ![nxtIdx] = FALSE]
    /\ post' = "push"
    /\ UNCHANGED <<settings, currentIdx, currentBuffer, disp, locks, buffer,
                   loop, display>>

\* Push, and signal qpost: a sleeping disp_loop wakes.
Push ==
    /\ post = "push"
    /\ disp' = Append(disp, [idx |-> nxtIdx, buf |-> buffer])
    /\ loop' = IF loop = "asleep" THEN "awake" ELSE loop
    /\ post' = "wait"
    /\ UNCHANGED <<settings, currentIdx, currentBuffer, avail, locks, buffer,
                   display>>

\* The previous buffer, if any, is waited for unless the interval is 0.
NeedsWait == /\ currentBuffer # NoBuffer
             /\ swapInterval # 0
             /\ ~avail[currentIdx]

WaitOrGoOn ==
    /\ post = "wait"
    /\ post' = IF NeedsWait THEN "waiting" ELSE "unlock"
    /\ UNCHANGED <<settings, currentIdx, currentBuffer, avail, disp, locks,
                   buffer, loop, display>>

\* pthread_cond_wait returned; is_avail is set, not looked at again.
WaitReturns ==
    /\ post \in {"signalled"} \cup (IF Spurious THEN {"waiting"} ELSE {})
    /\ avail' = [avail EXCEPT ![currentIdx] = TRUE]
    /\ post' = "unlock"
    /\ UNCHANGED <<settings, currentIdx, currentBuffer, disp, locks, buffer,
                   loop, display>>

\* locks after gralloc_unlock of the current buffer, if there is one.
CurrentUnlocked == [b \in Buffers |->
                      IF b = currentBuffer /\ locks[b] > 0 THEN locks[b] - 1
                                                           ELSE locks[b]]

\* Faulty variant: the buffer just queued is unlocked, not the previous one.
UnlockQueued ==
    /\ post = "unlock"
    /\ locks' = IF currentBuffer = NoBuffer THEN locks
                                            ELSE [locks EXCEPT ![buffer] = @ - 1]
    /\ currentBuffer' = buffer
    /\ currentIdx' = nxtIdx
    /\ post' = "idle" /\ buffer' = NoBuffer
    /\ UNCHANGED <<settings, avail, disp, loop, display>>

UnlockPrevious ==
    /\ post = "unlock"
    /\ locks' = CurrentUnlocked
    /\ currentBuffer' = buffer
    /\ currentIdx' = nxtIdx
    /\ post' = "idle" /\ buffer' = NoBuffer
    /\ UNCHANGED <<settings, avail, disp, loop, display>>

\* Faulty variant: the index advances although nothing was queued.
ReuseAdvancing ==
    /\ post = "reuse"
    /\ locks' = [CurrentUnlocked EXCEPT ![buffer] = @ + 1]
    /\ currentBuffer' = buffer
    /\ currentIdx' = nxtIdx
    /\ post' = "idle" /\ buffer' = NoBuffer
    /\ UNCHANGED <<settings, avail, disp, loop, display>>

\* Faulty variant: the current buffer is not unlocked.
ReuseKeeping ==
    /\ post = "reuse"
    /\ locks' = [locks EXCEPT ![buffer] = @ + 1]
    /\ currentBuffer' = buffer
    /\ post' = "idle" /\ buffer' = NoBuffer
    /\ UNCHANGED <<settings, currentIdx, avail, disp, loop, display>>

\* Nothing is posted: the lock moves from the current buffer to this one.
ReuseCurrent ==
    /\ post = "reuse"
    /\ locks' = [CurrentUnlocked EXCEPT ![buffer] = @ + 1]
    /\ currentBuffer' = buffer
    /\ post' = "idle" /\ buffer' = NoBuffer
    /\ UNCHANGED <<settings, currentIdx, avail, disp, loop, display>>

PostStep == \/ LockNew \/ ClearAvail \/ Push \/ WaitOrGoOn \/ WaitReturns
            \/ UnlockPrevious \/ ReuseCurrent

-----------------------------------------------------------------------------
(* disp_loop *)

\* Faulty variant: the queue is not looked at before the wait.
SleepAlways ==
    /\ loop = "start"
    /\ loop' = "asleep"
    /\ UNCHANGED <<settings, currentIdx, currentBuffer, avail, disp, locks,
                   poster, display>>

Sleep ==
    /\ loop = "start" /\ disp = <<>>
    /\ loop' = "asleep"
    /\ UNCHANGED <<settings, currentIdx, currentBuffer, avail, disp, locks,
                   poster, display>>

Dequeue ==
    /\ loop \in {"start", "awake"} /\ disp # <<>>
    /\ nxtBuf' = Head(disp)
    /\ disp' = Tail(disp)
    /\ loop' = "flip"
    /\ UNCHANGED <<settings, currentIdx, currentBuffer, avail, locks, poster,
                   cur_buf, shown>>

\* isEmpty is not looked at again after the wait.  The head of an empty queue
\* is the never assigned dummy of Queue, whose buf is then dereferenced.
DequeueNothing ==
    /\ loop \in {"awake"} \cup (IF Spurious THEN {"asleep"} ELSE {})
    /\ disp = <<>>
    /\ loop' = "crashed"
    /\ UNCHANGED <<settings, currentIdx, currentBuffer, avail, disp, locks,
                   poster, display>>

\* FBIOPUT_VSCREENINFO; on failure the frame is not displayed.
Flip ==
    /\ loop = "flip"
    /\ shown' \in {nxtBuf.buf, shown}
    /\ loop' = "mark"
    /\ UNCHANGED <<settings, currentIdx, currentBuffer, avail, disp, locks,
                   poster, nxtBuf, cur_buf>>

\* The index the flip makes available, and the signal to a waiting fb_post.
Freed == IF cur_buf = -1 THEN nxtBuf.idx ELSE cur_buf

\* Faulty variant: a waiting fb_post is not signalled.
MarkSilently ==
    /\ loop = "mark"
    /\ avail' = [avail EXCEPT ![Freed] = TRUE]
    /\ cur_buf' = nxtBuf.idx
    /\ nxtBuf' = NoEntry
    /\ loop' = "start"
    /\ UNCHANGED <<settings, currentIdx, currentBuffer, disp, locks, poster,
                   shown>>

MarkAvail ==
    /\ loop = "mark"
    /\ avail' = [avail EXCEPT ![Freed] = TRUE]
    /\ post' = IF post = "waiting" /\ currentIdx = Freed THEN "signalled" ELSE post
    /\ cur_buf' = nxtBuf.idx
    /\ nxtBuf' = NoEntry
    /\ loop' = "start"
    /\ UNCHANGED <<settings, currentIdx, currentBuffer, disp, locks, buffer,
                   shown>>

LoopStep == Sleep \/ Dequeue \/ DequeueNothing \/ Flip \/ MarkAvail

-----------------------------------------------------------------------------

Next == /\ loop # "crashed"
        /\ \/ SetSwapInterval \/ (\E b \in Buffers : PostCall(b))
           \/ PostStep \/ LoopStep

Spec == Init /\ [][Next]_vars

\* Both threads run whenever they are not waiting for a lock or a signal.
FairSpec == Spec /\ WF_vars(PostStep) /\ WF_vars(LoopStep)

-----------------------------------------------------------------------------
(* Properties *)

Entry == [idx : Indices, buf : Buffers \cup {NoBuffer}]

\* The variables have their types.
TypeOK == /\ intervals \in Habits
          /\ swapInterval \in {0, 1}
          /\ currentIdx \in Indices \cup {-1}
          /\ currentBuffer \in Buffers \cup {NoBuffer}
          /\ avail \in [Indices -> BOOLEAN]
          /\ disp \in Seq(Entry)
          /\ locks \in [Buffers -> Nat]
          /\ post \in {"idle", "lock", "unavail", "push", "wait", "waiting",
                       "signalled", "unlock", "reuse"}
          /\ buffer \in Buffers \cup {NoBuffer}
          /\ loop \in {"start", "asleep", "awake", "flip", "mark", "crashed"}
          /\ nxtBuf \in Entry
          /\ cur_buf \in Indices \cup {-1}
          /\ shown \in Buffers \cup {NoBuffer}

\* The indices from the last flip over what is dequeued and queued to what
\* is being posted: the two threads' ideas of "the buffer before".
Chain == (IF cur_buf = -1 THEN <<>> ELSE <<cur_buf>>)
           \o (IF loop \in {"flip", "mark"} THEN <<nxtBuf.idx>> ELSE <<>>)
           \o [i \in DOMAIN disp |-> disp[i].idx]

\* A flip frees the index before its own because the indices alternate all
\* along and end with the last one posted, also after posts that reused the
\* current buffer (fb_post, disp_loop).
IndicesAlternate ==
    /\ \A i \in 1..(Len(Chain) - 1) : Chain[i + 1] = (Chain[i] + 1) % NUM_BUFFERS
    /\ Chain # <<>> => Chain[Len(Chain)] =
          IF post \in {"wait", "waiting", "signalled", "unlock"} THEN nxtIdx
                                                                 ELSE currentIdx

\* Between posts the current buffer, and no other, is locked for post.
CurrentIsLocked ==
    post = "idle" =>
       \A b \in Buffers : locks[b] = IF b = currentBuffer THEN 1 ELSE 0

\* A client that leaves the interval at 1 is never further ahead of the display
\* than the queue has indices: the wait paces it.  (One that changes it may be,
\* since a flip then frees indices that are queued again.)
QueueBounded == intervals = {1} => Len(disp) <= NUM_BUFFERS

\* disp_loop never takes the head of an empty queue (gralloc_priv.h: "Error
\* can't get head of empty queue").
HeadTaken == loop # "crashed"

\* The posting thread and disp_loop agree on the queue: which index is next,
\* and that it holds a buffer when its head is taken.
QueueAgreed == IndicesAlternate /\ HeadTaken

\* If the interval is always 1 a posted buffer stays locked, so is not drawn
\* into, until it has been handed to the display.
QueuedStaysLocked ==
    intervals = {1} =>
       \A b \in Buffers : /\ \E i \in DOMAIN disp : disp[i].buf = b
                          /\ post = "idle"
                          => locks[b] > 0

\* A client that leaves the interval at 1 is paced: it neither runs ahead of
\* the display nor draws into a buffer that has yet to be shown.
ClientPaced == QueueBounded /\ QueuedStaysLocked

\* fb_post returns: some flip sets the flag its wait is for.
PostReturns == post # "idle" ~> post = "idle"

\* A posted buffer gets its turn on the display, also if the posting thread
\* keeps the queue filled.
PostsShown == \A b \in Buffers :
    (\E i \in DOMAIN disp : disp[i].buf = b) ~> nxtBuf.buf = b

\* "after new buffer grabbed by MDP can unlock previous (current) buffer"
\* (fb_post): if the interval is always 1, the one unlocked is not on display.
\* A flip that fails shows nothing new and is no part of the claim.
GrabbedBeforeUnlock ==
    [][post = "unlock" /\ currentBuffer # NoBuffer /\ intervals = {1}
         => disp = <<>> /\ loop \notin {"awake", "flip"}]_post
=============================================================================
