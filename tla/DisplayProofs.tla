---------------------------- MODULE DisplayProofs ---------------------------
(***************************************************************************)
(* Proofs about the display: the posting of buffers (FbPost), framebuffer  *)
(* handles (FbAlloc) and the blitter (Copybit).  The three share no state. *)
(*                                                                         *)
(* Posting, for any buffers and any habits of the client.  The lock of the *)
(* current buffer needs only the locks of the buffer that is being posted  *)
(* beside it.  That the indices alternate is proved in terms of the places *)
(* where two indices meet: within the queue, between what was dequeued and *)
(* the queue, and at its end, where the next is put.                       *)
(***************************************************************************)
EXTENDS FbPost, FbAlloc, Copybit, SequenceTheorems, FiniteSetTheorems, TLAPS

Nx(i) == (i + 1) % NUM_BUFFERS
Flipping == loop \in {"flip", "mark"}
Pushed   == post \in {"wait", "waiting", "signalled", "unlock"}

\* The index that was put into the queue last, if any.
LastIdx == IF Pushed THEN nxtIdx ELSE currentIdx

Types == /\ currentIdx \in {-1, 0, 1} /\ cur_buf \in {-1, 0, 1}
         /\ currentBuffer \in Buffers \cup {NoBuffer}
         /\ disp \in Seq(Entry) /\ nxtBuf \in Entry
         /\ locks \in [Buffers -> Nat]

\* The current buffer is locked, and the one that is being posted from its
\* lock to the current one's unlock.
LocksOK ==
    /\ post # "idle" => buffer \in Buffers /\ buffer # currentBuffer
    /\ post \in {"idle", "lock", "reuse"} =>
         \A b \in Buffers : locks[b] = IF b = currentBuffer THEN 1 ELSE 0
    /\ post \notin {"idle", "lock", "reuse"} =>
         \A b \in Buffers :
             locks[b] = IF b \in {currentBuffer, buffer} THEN 1 ELSE 0

\* What disp_loop is woken for is still there: nobody else takes it.
AwakeOK == loop = "awake" => disp # <<>>

InQueue == \A i \in 1..(Len(disp) - 1) : disp[i + 1].idx = Nx(disp[i].idx)
AtHead  == disp # <<>> =>
    /\ Flipping => disp[1].idx = Nx(nxtBuf.idx)
    /\ ~Flipping /\ cur_buf # -1 => disp[1].idx = Nx(cur_buf)
InHand  == Flipping /\ cur_buf # -1 => nxtBuf.idx = Nx(cur_buf)
AtEnd   == /\ disp # <<>> => disp[Len(disp)].idx = LastIdx
           /\ disp = <<>> /\ Flipping => nxtBuf.idx = LastIdx
           /\ disp = <<>> /\ ~Flipping /\ cur_buf # -1 => cur_buf = LastIdx

IInv == Types /\ LocksOK /\ AwakeOK /\ InQueue /\ AtHead /\ InHand /\ AtEnd

-----------------------------------------------------------------------------

\* The index after the given one, of two.
LEMMA NxValue ==
    /\ \A i \in {-1, 0, 1} : Nx(i) = IF i = 0 THEN 1 ELSE 0
    /\ nxtIdx = Nx(currentIdx)
    /\ Indices = {0, 1}
  BY DEF Nx, nxtIdx, Indices, NUM_BUFFERS

\* Nothing is queued, shown or locked at the start.
LEMMA InitIInv == Init => IInv
  BY FbPostAssumption, NxValue
     DEF Init, IInv, Types, LocksOK, AwakeOK, InQueue, AtHead, InHand, AtEnd,
         Flipping, Entry, NoEntry

\* Steps of fb_post that touch neither the queue nor the locks, and the
\* interval's setting.
LEMMA PostQuietKeeps ==
    ASSUME IInv, \/ SetSwapInterval \/ ClearAvail \/ WaitOrGoOn \/ WaitReturns
                 \/ \E b \in Buffers : PostCall(b)
    PROVE  IInv'
  <1>1. UNCHANGED <<currentIdx, currentBuffer, cur_buf, disp, nxtBuf, locks,
                    loop>>
    BY DEF SetSwapInterval, ClearAvail, WaitOrGoOn, WaitReturns, PostCall,
           poster, display
  <1>2. Pushed' = Pushed
    BY DEF SetSwapInterval, ClearAvail, WaitOrGoOn, WaitReturns, PostCall,
           poster, Pushed
  <1>3. LocksOK'
    <2>1. CASE \E b \in Buffers : PostCall(b)
      BY <1>1, <2>1 DEF IInv, Types, LocksOK, PostCall
    <2>2. CASE SetSwapInterval \/ ClearAvail \/ WaitOrGoOn \/ WaitReturns
      <3>1. UNCHANGED buffer
        BY <2>2 DEF SetSwapInterval, ClearAvail, WaitOrGoOn, WaitReturns,
                    poster
      <3>2. /\ post' # "idle" => post # "idle"
            /\ post' \in {"idle", "lock", "reuse"}
                 <=> post \in {"idle", "lock", "reuse"}
        BY <2>2 DEF SetSwapInterval, ClearAvail, WaitOrGoOn, WaitReturns,
                    poster
      <3>3. QED BY <1>1, <3>1, <3>2 DEF IInv, LocksOK
    <2>3. QED BY <2>1, <2>2
  <1>4. LastIdx' = LastIdx /\ Flipping' = Flipping
    BY <1>1, <1>2 DEF LastIdx, nxtIdx, Flipping
  <1>5. Types' /\ AwakeOK'
    BY <1>1 DEF IInv, Types, AwakeOK
  <1>6. InQueue' /\ AtHead' /\ InHand' /\ AtEnd'
    BY <1>1, <1>4 DEF IInv, InQueue, AtHead, InHand, AtEnd
  <1>7. QED BY <1>3, <1>5, <1>6 DEF IInv

\* The buffer that is posted is locked beside the current one.
LEMMA LockNewKeeps == ASSUME IInv, LockNew PROVE IInv'
  <1>1. UNCHANGED <<currentIdx, currentBuffer, cur_buf, disp, nxtBuf, loop,
                    buffer>>
    BY DEF LockNew, display
  <1>2. locks' = [locks EXCEPT ![buffer] = @ + 1]
        /\ post = "lock" /\ post' = "unavail"
    BY DEF LockNew
  <1>3. Types' /\ LocksOK'
    BY <1>1, <1>2 DEF IInv, Types, LocksOK
  <1>4. LastIdx' = LastIdx /\ Flipping' = Flipping
    BY <1>1, <1>2 DEF LastIdx, nxtIdx, Flipping, Pushed
  <1>5. AwakeOK' /\ InQueue' /\ AtHead' /\ InHand' /\ AtEnd'
    BY <1>1, <1>4 DEF IInv, AwakeOK, InQueue, AtHead, InHand, AtEnd
  <1>6. QED BY <1>3, <1>5 DEF IInv

\* The index that is pushed follows the last one, and disp_loop, if it is
\* woken, will find it.
LEMMA PushKeeps == ASSUME IInv, Push PROVE IInv'
  <1> DEFINE e == [idx |-> nxtIdx, buf |-> buffer]
  <1>1. /\ disp' = Append(disp, e)
        /\ UNCHANGED <<currentIdx, currentBuffer, cur_buf, nxtBuf, locks,
                       buffer>>
        /\ post = "push" /\ post' = "wait"
    BY DEF Push, display
  <1>2. e \in Entry /\ e.idx = nxtIdx
    BY <1>1, NxValue DEF IInv, Types, LocksOK, Entry
  <1> HIDE DEF e
  <1>3. /\ disp' \in Seq(Entry) /\ Len(disp') = Len(disp) + 1
        /\ \A i \in 1..Len(disp) : disp'[i] = disp[i]
        /\ disp'[Len(disp) + 1] = e /\ disp' # <<>>
    BY <1>1, <1>2, AppendProperties DEF IInv, Types
  <1>4. Len(disp) \in Nat /\ (disp = <<>> <=> Len(disp) = 0)
    BY EmptySeq, LenProperties DEF IInv, Types
  <1>5. Flipping' = Flipping
    BY DEF Push, Flipping
  <1>6. LastIdx = currentIdx /\ LastIdx' = e.idx
    BY <1>1, <1>2 DEF LastIdx, Pushed, nxtIdx
  <1>7. e.idx = Nx(LastIdx)
    BY <1>2, <1>6, NxValue
  <1>8. Types' /\ LocksOK' /\ AwakeOK'
    BY <1>1, <1>3 DEF IInv, Types, LocksOK, AwakeOK
  <1>9. InQueue'
    <2> SUFFICES ASSUME NEW i \in 1..Len(disp)
                 PROVE  disp'[i + 1].idx = Nx(disp'[i].idx)
      BY <1>3, <1>4 DEF InQueue
    <2>1. CASE i = Len(disp)
      BY <1>3, <1>4, <1>7, <2>1 DEF IInv, AtEnd
    <2>2. CASE i # Len(disp)
      BY <1>3, <1>4, <2>2 DEF IInv, InQueue
    <2>3. QED BY <2>1, <2>2
  <1>10. AtHead'
    <2>1. CASE disp = <<>>
      BY <1>1, <1>3, <1>4, <1>5, <1>7, <2>1 DEF IInv, AtHead, AtEnd
    <2>2. CASE disp # <<>>
      BY <1>1, <1>3, <1>4, <1>5, <2>2 DEF IInv, AtHead
    <2>3. QED BY <2>1, <2>2
  <1>11. InHand' /\ AtEnd'
    BY <1>1, <1>3, <1>5, <1>6 DEF IInv, InHand, AtEnd
  <1>12. QED BY <1>8, <1>9, <1>10, <1>11 DEF IInv

\* The posted buffer takes the current one's place, with its index.
LEMMA UnlockPreviousKeeps == ASSUME IInv, UnlockPrevious PROVE IInv'
  <1>1. /\ UNCHANGED <<cur_buf, disp, nxtBuf, loop>>
        /\ currentBuffer' = buffer /\ currentIdx' = nxtIdx
        /\ post = "unlock" /\ post' = "idle" /\ locks' = CurrentUnlocked
    BY DEF UnlockPrevious, display
  <1>2. LocksOK'
    BY <1>1 DEF IInv, LocksOK, CurrentUnlocked
  <1>3. Types'
    BY <1>1, NxValue DEF IInv, Types, LocksOK, CurrentUnlocked
  <1>4. LastIdx' = LastIdx /\ Flipping' = Flipping
    BY <1>1 DEF LastIdx, Pushed, Flipping
  <1>5. AwakeOK' /\ InQueue' /\ AtHead' /\ InHand' /\ AtEnd'
    BY <1>1, <1>4 DEF IInv, AwakeOK, InQueue, AtHead, InHand, AtEnd
  <1>6. QED BY <1>2, <1>3, <1>5 DEF IInv

\* The lock moves to a buffer that is not queued; the indices stay.
LEMMA ReuseCurrentKeeps == ASSUME IInv, ReuseCurrent PROVE IInv'
  <1>1. /\ UNCHANGED <<cur_buf, disp, nxtBuf, loop, currentIdx>>
        /\ currentBuffer' = buffer /\ post = "reuse" /\ post' = "idle"
        /\ locks' = [CurrentUnlocked EXCEPT ![buffer] = @ + 1]
    BY DEF ReuseCurrent, display
  <1>2. CurrentUnlocked \in [Buffers -> Nat]
        /\ \A b \in Buffers : CurrentUnlocked[b] = 0
    BY <1>1 DEF IInv, Types, LocksOK, CurrentUnlocked
  <1>3. LocksOK'
    BY <1>1, <1>2 DEF IInv, LocksOK
  <1>4. Types'
    BY <1>1, <1>2 DEF IInv, Types, LocksOK
  <1>5. LastIdx' = LastIdx /\ Flipping' = Flipping
    BY <1>1 DEF LastIdx, Pushed, Flipping
  <1>6. AwakeOK' /\ InQueue' /\ AtHead' /\ InHand' /\ AtEnd'
    BY <1>1, <1>5 DEF IInv, AwakeOK, InQueue, AtHead, InHand, AtEnd
  <1>7. QED BY <1>3, <1>4, <1>6 DEF IInv

\* The head moves from the queue into disp_loop's hands.
LEMMA DequeueKeeps == ASSUME IInv, Dequeue PROVE IInv'
  <1>1. /\ disp # <<>> /\ nxtBuf' = Head(disp) /\ disp' = Tail(disp)
        /\ UNCHANGED <<currentIdx, currentBuffer, cur_buf, locks, post,
                       buffer>>
        /\ loop \in {"start", "awake"} /\ loop' = "flip"
    BY DEF Dequeue, poster
  <1>2. /\ disp' \in Seq(Entry) /\ Len(disp') = Len(disp) - 1
        /\ \A i \in 1..Len(disp') : disp'[i] = disp[i + 1]
        /\ nxtBuf' \in Entry /\ nxtBuf' = disp[1]
    BY <1>1, HeadTailProperties DEF IInv, Types
  <1>3. /\ Len(disp) \in Nat /\ Len(disp) > 0
        /\ disp' = <<>> <=> Len(disp) = 1
    <2>1. Len(disp) \in Nat /\ (disp = <<>> <=> Len(disp) = 0)
      BY EmptySeq, LenProperties DEF IInv, Types
    <2>2. disp' = <<>> <=> Len(disp') = 0
      BY <1>2, EmptySeq
    <2>3. QED BY <1>1, <1>2, <2>1, <2>2
  <1>4. LastIdx' = LastIdx /\ Flipping' /\ ~Flipping
    BY <1>1 DEF LastIdx, Pushed, nxtIdx, Flipping
  <1>5. Types' /\ LocksOK' /\ AwakeOK'
    BY <1>1, <1>2 DEF IInv, Types, LocksOK, AwakeOK
  <1>6. InQueue'
    BY <1>2, <1>3 DEF IInv, InQueue
  <1>7. AtHead' /\ InHand'
    BY <1>1, <1>2, <1>3, <1>4 DEF IInv, InQueue, AtHead, InHand
  <1>8. AtEnd'
    BY <1>1, <1>2, <1>3, <1>4 DEF IInv, AtEnd
  <1>9. QED BY <1>5, <1>6, <1>7, <1>8 DEF IInv

\* The index in hand becomes the last one flipped.
LEMMA MarkAvailKeeps == ASSUME IInv, MarkAvail PROVE IInv'
  <1>1. /\ UNCHANGED <<currentIdx, currentBuffer, disp, locks, buffer>>
        /\ cur_buf' = nxtBuf.idx /\ nxtBuf' = NoEntry
        /\ loop = "mark" /\ loop' = "start"
    BY DEF MarkAvail
  <1>2. post' = post \/ (post = "waiting" /\ post' = "signalled")
    BY DEF MarkAvail
  <1>3. nxtBuf.idx \in {0, 1} /\ NoEntry \in Entry
    BY NxValue DEF IInv, Types, Entry, NoEntry
  <1>4. LastIdx' = LastIdx /\ Flipping /\ ~Flipping'
    BY <1>1, <1>2 DEF LastIdx, Pushed, nxtIdx, Flipping
  <1>5. Types' /\ AwakeOK'
    BY <1>1, <1>3 DEF IInv, Types, AwakeOK
  <1>6. LocksOK'
    BY <1>1, <1>2 DEF IInv, LocksOK
  <1>7. InQueue' /\ AtHead' /\ InHand' /\ AtEnd'
    BY <1>1, <1>3, <1>4 DEF IInv, InQueue, AtHead, InHand, AtEnd
  <1>8. QED BY <1>5, <1>6, <1>7 DEF IInv

\* Sleeping, flipping and crashing change neither queue nor locks.
LEMMA LoopQuietKeeps ==
    ASSUME IInv, Sleep \/ DequeueNothing \/ Flip PROVE IInv'
  <1>1. /\ UNCHANGED <<currentIdx, currentBuffer, cur_buf, disp, nxtBuf,
                       locks, post, buffer>>
        /\ loop' # "awake"
    BY DEF Sleep, DequeueNothing, Flip, poster, display
  <1>2. LastIdx' = LastIdx /\ Flipping' = Flipping
    BY <1>1 DEF LastIdx, Pushed, nxtIdx, Flipping, Sleep, DequeueNothing, Flip
  <1>3. QED
    BY <1>1, <1>2 DEF IInv, Types, LocksOK, AwakeOK, InQueue, AtHead, InHand,
                      AtEnd

\* The inductive invariant holds in every behaviour.
THEOREM Invariance == Spec => []IInv
  <1>1. IInv /\ [Next]_vars => IInv'
    <2> SUFFICES ASSUME IInv, [Next]_vars PROVE IInv' OBVIOUS
    <2>1. CASE UNCHANGED vars
      BY <2>1 DEF IInv, Types, LocksOK, AwakeOK, InQueue, AtHead, InHand,
                  AtEnd, LastIdx, Pushed, nxtIdx, Flipping, vars
    <2>2. QED
      BY <2>1, PostQuietKeeps, LockNewKeeps, PushKeeps, UnlockPreviousKeeps,
         ReuseCurrentKeeps, DequeueKeeps, MarkAvailKeeps, LoopQuietKeeps
         DEF Next, PostStep, LoopStep
  <1>2. QED BY <1>1, InitIInv, PTL DEF Spec

\* Between posts the current buffer, and no other, is locked, whatever the
\* client does with the interval.
THEOREM CurrentAlwaysLocked == Spec => []CurrentIsLocked
  <1>1. IInv => CurrentIsLocked
    BY DEF IInv, LocksOK, CurrentIsLocked
  <1>2. QED BY <1>1, Invariance, PTL

-----------------------------------------------------------------------------

Alternates(s) == \A i \in 1..(Len(s) - 1) : s[i + 1] = Nx(s[i])

\* An index put before indices that alternate and begin with its successor.
LEMMA AlternatesPrefix ==
    ASSUME NEW e \in Indices, NEW s \in Seq(Indices), Alternates(s),
           s # <<>> => s[1] = Nx(e)
    PROVE  /\ <<e>> \o s \in Seq(Indices) /\ Alternates(<<e>> \o s)
           /\ <<e>> \o s # <<>> /\ (<<e>> \o s)[1] = e
           /\ (<<e>> \o s)[Len(<<e>> \o s)]
                = IF s = <<>> THEN e ELSE s[Len(s)]
  <1> DEFINE t == <<e>> \o s
  <1>1. <<e>> \in Seq(Indices) /\ Len(<<e>>) = 1 /\ <<e>>[1] = e
    OBVIOUS
  <1>2. /\ t \in Seq(Indices) /\ Len(t) = 1 + Len(s)
        /\ \A i \in 1..(1 + Len(s)) : t[i] = IF i <= 1 THEN <<e>>[i]
                                                       ELSE s[i - 1]
    BY <1>1, ConcatProperties
  <1>3. Len(s) \in Nat /\ (s = <<>> <=> Len(s) = 0)
    BY EmptySeq, LenProperties
  <1> HIDE DEF t
  <1>4. t[1] = e /\ \A i \in 1..Len(s) : t[i + 1] = s[i]
    BY <1>1, <1>2, <1>3
  <1>5. Alternates(t)
    <2> SUFFICES ASSUME NEW i \in 1..Len(s) PROVE t[i + 1] = Nx(t[i])
      BY <1>2, <1>3 DEF Alternates
    <2>1. CASE i = 1
      BY <1>3, <1>4, <2>1
    <2>2. CASE i # 1
      <3>1. i - 1 \in 1..(Len(s) - 1) /\ t[i] = s[i - 1] /\ t[i + 1] = s[i]
        BY <1>3, <1>4, <2>2
      <3>2. s[(i - 1) + 1] = Nx(s[i - 1])
        BY <3>1 DEF Alternates
      <3>3. QED BY <1>3, <3>1, <3>2
    <2>3. QED BY <2>1, <2>2
  <1>6. t # <<>>
    BY <1>2, <1>3, EmptySeq
  <1>7. t[Len(t)] = IF s = <<>> THEN e ELSE s[Len(s)]
    BY <1>2, <1>3, <1>4
  <1>8. QED BY <1>2, <1>4, <1>5, <1>6, <1>7 DEF t

\* The chain of indices alternates and ends with the last one pushed.
LEMMA ChainAlternates == IInv => IndicesAlternate
  <1> SUFFICES ASSUME IInv PROVE IndicesAlternate OBVIOUS
  <1> DEFINE d == [i \in DOMAIN disp |-> disp[i].idx]
             n == IF Flipping THEN <<nxtBuf.idx>> ELSE <<>>
             c == IF cur_buf = -1 THEN <<>> ELSE <<cur_buf>>
             r == n \o d
  <1>1. DOMAIN disp = 1..Len(disp) /\ Len(disp) \in Nat
    BY LenProperties DEF IInv, Types
  <1>2. \A i \in 1..Len(disp) : disp[i].idx \in Indices
    <2>1. \A i \in 1..Len(disp) : disp[i] \in Entry
      BY ElementOfSeq DEF IInv, Types
    <2>2. QED BY <2>1 DEF Entry
  <1>3. d \in Seq(Indices) /\ Len(d) = Len(disp)
        /\ \A i \in 1..Len(disp) : d[i] = disp[i].idx
    BY <1>1, <1>2, IsASeq
  <1>4. disp = <<>> <=> d = <<>>
    BY <1>1, <1>3, EmptySeq DEF IInv, Types
  <1>5. nxtBuf.idx \in Indices /\ (cur_buf # -1 => cur_buf \in Indices)
    BY NxValue DEF IInv, Types, Entry
  <1>6. Chain = (c \o n) \o d
    BY DEF Chain, Flipping
  <1> HIDE DEF d
  <1>7. Alternates(d)
    BY <1>1, <1>3 DEF Alternates, IInv, InQueue
  <1>8. d # <<>> => d[1] = disp[1].idx /\ d[Len(d)] = disp[Len(disp)].idx
    BY <1>1, <1>3, <1>4, EmptySeq DEF IInv, Types
  <1>9. /\ r \in Seq(Indices) /\ Alternates(r)
        /\ r # <<>> /\ cur_buf # -1 => r[1] = Nx(cur_buf)
        /\ r # <<>> => r[Len(r)] = LastIdx
        /\ r = <<>> /\ cur_buf # -1 => cur_buf = LastIdx
    <2>1. CASE Flipping
      <3>1. d # <<>> => d[1] = Nx(nxtBuf.idx)
        BY <1>4, <1>8, <2>1 DEF IInv, AtHead
      <3>2. r = <<nxtBuf.idx>> \o d
        BY <2>1
      <3>3. /\ r \in Seq(Indices) /\ Alternates(r) /\ r # <<>>
            /\ r[1] = nxtBuf.idx
            /\ r[Len(r)] = IF d = <<>> THEN nxtBuf.idx ELSE d[Len(d)]
        BY <1>3, <1>5, <1>7, <3>1, <3>2, AlternatesPrefix
      <3>4. QED BY <1>4, <1>8, <2>1, <3>3 DEF IInv, InHand, AtEnd
    <2>2. CASE ~Flipping
      <3>1. r = d
        BY <1>3, <2>2, ConcatEmptySeq
      <3>2. QED BY <1>3, <1>4, <1>7, <1>8, <2>2, <3>1 DEF IInv, AtHead, AtEnd
    <2>3. QED BY <2>1, <2>2
  <1>10. Chain = c \o r
    <2>1. n \in Seq(Indices)
      <3>1. CASE Flipping
        BY <1>5, <3>1
      <3>2. CASE ~Flipping
        BY <3>2
      <3>3. QED BY <3>1, <3>2
    <2>2. c \in Seq(Indices)
      <3>1. CASE cur_buf = -1
        BY <3>1
      <3>2. CASE cur_buf # -1
        BY <1>5, <3>2
      <3>3. QED BY <3>1, <3>2
    <2> HIDE DEF n, c
    <2>3. (c \o n) \o d = c \o (n \o d)
      BY <1>3, <2>1, <2>2, ConcatAssociative
    <2>4. QED BY <1>6, <2>3
  <1> HIDE DEF r, n
  <1>11. Alternates(Chain) /\ (Chain # <<>> => Chain[Len(Chain)] = LastIdx)
    <2>1. CASE cur_buf = -1
      <3>1. Chain = r
        BY <1>9, <1>10, <2>1, ConcatEmptySeq
      <3>2. QED BY <1>9, <3>1
    <2>2. CASE cur_buf # -1
      <3>1. Chain = <<cur_buf>> \o r
        BY <1>10, <2>2
      <3>2. QED BY <1>5, <1>9, <2>2, <3>1, AlternatesPrefix
    <2>3. QED BY <2>1, <2>2
  <1>12. QED BY <1>11 DEF IndicesAlternate, Alternates, LastIdx, Pushed, Nx

\* The two threads agree on which index is next, and disp_loop finds a buffer
\* when it takes the head, if pthread_cond_wait returns only when signalled.
THEOREM QueueAlwaysAgreed == ASSUME ~Spurious PROVE Spec => []QueueAgreed
  <1>1. HeadTaken /\ IInv /\ [Next]_vars => HeadTaken'
    BY DEF HeadTaken, IInv, AwakeOK, vars, Next, SetSwapInterval, PostCall,
           PostStep, LockNew, ClearAvail, Push, WaitOrGoOn, WaitReturns,
           UnlockPrevious, ReuseCurrent, LoopStep, Sleep, Dequeue,
           DequeueNothing, Flip, MarkAvail
  <1>2. Init => HeadTaken
    BY DEF Init, HeadTaken
  <1>3. IInv /\ HeadTaken => QueueAgreed
    BY ChainAlternates DEF QueueAgreed
  <1>4. QED BY <1>1, <1>2, <1>3, Invariance, PTL DEF Spec

-----------------------------------------------------------------------------
(***************************************************************************)
(* The pacing of a client that leaves the interval at 1.  It is not the    *)
(* same for the two indices.  A post of index 0, other than the first,     *)
(* waits for index 1, which nothing frees before the flip of that post: it *)
(* returns when nothing is left to flip.  A post of index 1 waits for      *)
(* index 0, which a flip may free a second time after it was queued again: *)
(* it can return with its own flip, but no other, to come.                 *)
(***************************************************************************)

\* How many posts disp_loop has yet to flip.
Depth == Len(disp) + (IF Flipping THEN 1 ELSE 0)

\* The interval is 1 all along, so a post queues its buffer and waits.
Waits == /\ intervals = {1} /\ swapInterval = 1 /\ post # "reuse"
         /\ currentIdx = -1 <=> currentBuffer = NoBuffer
         /\ post \in {"waiting", "signalled"} => currentIdx # -1

\* The first post and, while it has not been flipped, the second.
Starting ==
    /\ currentIdx = -1 /\ ~Pushed => Depth = 0 /\ cur_buf = -1
    /\ currentIdx = -1 /\ Pushed =>
         IF cur_buf = -1 THEN Depth = 1 ELSE Depth = 0
    /\ currentIdx = 0 /\ ~Pushed =>
         IF cur_buf = -1 THEN Depth = 1 ELSE Depth = 0
    /\ currentIdx = 0 /\ Pushed =>
         IF cur_buf = -1 THEN Depth = 2 ELSE Depth <= 1
    /\ currentIdx = 0 /\ post \in {"signalled", "unlock"} => cur_buf # -1
    /\ currentIdx = 1 => cur_buf # -1

\* The posts after an index 1.
Following ==
    /\ currentIdx = 1 => Depth <= IF Pushed THEN 2 ELSE 1
    /\ currentIdx = 1 /\ post \in {"signalled", "unlock"} => Depth = 0

\* Index 0 is not available before the first flip, nor index 1 from its post
\* to the flip of the post after it.
Unavailable ==
    /\ avail \in [Indices -> BOOLEAN]
    /\ currentIdx = -1 /\ post = "push" => ~avail[0]
    /\ currentIdx = -1 /\ Pushed /\ cur_buf = -1 => ~avail[0]
    /\ currentIdx = 0 /\ cur_buf = -1 => ~avail[0]
    /\ currentIdx = 0 /\ (post = "push" \/ Pushed) => ~avail[1]
    /\ currentIdx = 1 /\ (Pushed => Depth > 0) => ~avail[1]

\* The last entry of the queue holds the buffer of the last post.
LastQueued == disp # <<>> =>
    disp[Len(disp)].buf = IF Pushed THEN buffer ELSE currentBuffer

PInv == Waits /\ Starting /\ Following /\ Unavailable /\ LastQueued

Paced == intervals = {1} => PInv

-----------------------------------------------------------------------------

\* What is yet to be flipped is queued or in hand.
LEMMA DepthValue ==
    ASSUME IInv
    PROVE  /\ Len(disp) \in Nat /\ (disp = <<>> <=> Len(disp) = 0)
           /\ Depth = IF Flipping THEN Len(disp) + 1 ELSE Len(disp)
  <1>1. Len(disp) \in Nat /\ (disp = <<>> <=> Len(disp) = 0)
    BY EmptySeq, LenProperties DEF IInv, Types
  <1>2. QED BY <1>1 DEF Depth

\* Nothing has been posted, cleared or flipped at the start.
LEMMA InitPaced == Init => Paced
  <1> SUFFICES ASSUME Init, intervals = {1} PROVE PInv
    BY DEF Paced
  <1>1. Depth = 0 /\ ~Pushed
    BY DEF Init, Depth, Flipping, Pushed
  <1>2. QED
    BY <1>1 DEF Init, PInv, Waits, Starting, Following, Unavailable,
                LastQueued, Indices

\* Steps of fb_post that change neither queue nor current buffer.
LEMMA PostCallPaced ==
    ASSUME PInv, \/ SetSwapInterval \/ LockNew
                 \/ \E b \in Buffers : PostCall(b)
    PROVE  PInv'
  <1>1. UNCHANGED <<intervals, currentIdx, currentBuffer, cur_buf, disp, avail,
                    loop>>
    BY DEF SetSwapInterval, LockNew, PostCall, poster, display, settings
  <1>2. swapInterval' = 1 /\ post' # "reuse"
    BY DEF PInv, Waits, SetSwapInterval, LockNew, PostCall, poster, settings
  <1>3. /\ ~Pushed /\ ~Pushed'
        /\ post' \notin {"push", "waiting", "signalled", "unlock"}
    BY <1>2 DEF SetSwapInterval, LockNew, PostCall, poster, Pushed
  <1>4. Depth' = Depth
    BY <1>1 DEF Depth, Flipping
  <1>5. QED
    BY <1>1, <1>2, <1>3, <1>4
       DEF PInv, Waits, Starting, Following, Unavailable, LastQueued

\* The next index is cleared.
LEMMA ClearAvailPaced == ASSUME IInv, PInv, ClearAvail PROVE PInv'
  <1>1. /\ UNCHANGED <<intervals, swapInterval, currentIdx, currentBuffer,
                       cur_buf, disp, loop, buffer>>
        /\ post = "unavail" /\ post' = "push"
        /\ avail' = [avail EXCEPT ![nxtIdx] = FALSE]
    BY DEF ClearAvail, display, settings
  <1>2. ~Pushed /\ ~Pushed' /\ Depth' = Depth
    BY <1>1 DEF Pushed, Depth, Flipping
  <1>3. Waits' /\ Starting' /\ Following' /\ LastQueued'
    BY <1>1, <1>2 DEF PInv, Waits, Starting, Following, LastQueued
  <1>4. /\ currentIdx \in {-1, 0, 1} /\ Indices = {0, 1}
        /\ nxtIdx = IF currentIdx = 0 THEN 1 ELSE 0
    BY NxValue DEF IInv, Types
  <1>5. Unavailable'
    BY <1>1, <1>2, <1>4 DEF PInv, Unavailable
  <1>6. QED BY <1>3, <1>5 DEF PInv

\* One post more to flip.
LEMMA PushPaced == ASSUME IInv, PInv, Push PROVE PInv'
  <1> DEFINE e == [idx |-> nxtIdx, buf |-> buffer]
  <1>1. /\ UNCHANGED <<intervals, swapInterval, currentIdx, currentBuffer,
                       cur_buf, avail, buffer>>
        /\ post = "push" /\ post' = "wait"
        /\ disp' = Append(disp, e)
    BY DEF Push, display, settings
  <1>2. ~Pushed /\ Pushed' /\ Flipping' = Flipping
    BY <1>1 DEF Push, Pushed, Flipping
  <1>3. e \in Entry
    BY NxValue DEF IInv, Types, LocksOK, Entry, Push
  <1>4. e.buf = buffer
    OBVIOUS
  <1> HIDE DEF e
  <1>5. /\ Len(disp') = Len(disp) + 1 /\ disp' # <<>>
        /\ disp'[Len(disp) + 1] = e
    BY <1>1, <1>3, AppendProperties DEF IInv, Types
  <1>6. Depth \in Nat /\ Depth' = Depth + 1
    BY <1>2, <1>5, DepthValue DEF Depth
  <1>7. currentIdx \in {-1, 0, 1}
    BY DEF IInv, Types
  <1>8. Waits' /\ LastQueued'
    BY <1>1, <1>2, <1>4, <1>5 DEF PInv, Waits, LastQueued
  <1>9. Starting' /\ Following'
    BY <1>1, <1>2, <1>6 DEF PInv, Starting, Following
  <1>10. Unavailable'
    <2>1. currentIdx = -1 => ~avail[0]
      BY <1>1 DEF PInv, Unavailable
    <2>2. currentIdx = 0 => ~avail[1]
      BY <1>1 DEF PInv, Unavailable
    <2>3. currentIdx = 1 => ~avail[1]
      BY <1>2 DEF PInv, Unavailable
    <2>4. currentIdx = 0 /\ cur_buf = -1 => ~avail[0]
      BY DEF PInv, Unavailable
    <2>5. QED BY <1>1, <2>1, <2>2, <2>3, <2>4 DEF PInv, Unavailable
  <1>11. QED BY <1>8, <1>9, <1>10 DEF PInv

\* A post goes on at once if the index before its own is available: it is the
\* first, or its depth is already that of a post that returns.
LEMMA WaitOrGoOnPaced == ASSUME IInv, PInv, WaitOrGoOn PROVE PInv'
  <1>1. /\ UNCHANGED <<intervals, swapInterval, currentIdx, currentBuffer,
                       cur_buf, disp, avail, loop, buffer>>
        /\ post = "wait"
        /\ post' = IF NeedsWait THEN "waiting" ELSE "unlock"
    BY DEF WaitOrGoOn, display, settings
  <1>2. Pushed /\ Pushed' /\ Depth' = Depth
    BY <1>1 DEF Pushed, Depth, Flipping
  <1>3. NeedsWait <=> currentIdx # -1 /\ ~avail[currentIdx]
    BY DEF PInv, Waits, NeedsWait
  <1>4. Waits' /\ LastQueued'
    BY <1>1, <1>2, <1>3 DEF PInv, Waits, LastQueued
  <1>5. Unavailable'
    BY <1>1, <1>2 DEF PInv, Unavailable
  <1>6. Starting'
    <2>1. currentIdx = 0 /\ cur_buf = -1 => ~avail[0]
      BY DEF PInv, Unavailable
    <2>2. currentIdx = 0 /\ post' \in {"signalled", "unlock"} => cur_buf # -1
      BY <1>1, <1>3, <2>1
    <2>3. QED BY <1>1, <1>2, <2>2 DEF PInv, Starting
  <1>7. Following'
    <2>1. currentIdx = 1 /\ Depth > 0 => ~avail[1]
      BY <1>2 DEF PInv, Unavailable
    <2>2. currentIdx = 1 /\ post' \in {"signalled", "unlock"} => ~(Depth > 0)
      BY <1>1, <1>3, <2>1
    <2>3. Depth \in Nat BY DepthValue
    <2>4. QED BY <1>1, <1>2, <2>2, <2>3 DEF PInv, Following
  <1>8. QED BY <1>4, <1>5, <1>6, <1>7 DEF PInv

\* A signalled post goes on.
LEMMA WaitReturnsPaced ==
    ASSUME ~Spurious, IInv, PInv, WaitReturns PROVE PInv'
  <1>1. /\ UNCHANGED <<intervals, swapInterval, currentIdx, currentBuffer,
                       cur_buf, disp, loop, buffer>>
        /\ post = "signalled" /\ post' = "unlock"
        /\ avail' = [avail EXCEPT ![currentIdx] = TRUE]
    BY DEF WaitReturns, display, settings
  <1>2. Pushed /\ Pushed' /\ Depth' = Depth
    BY <1>1 DEF Pushed, Depth, Flipping
  <1>3. Waits' /\ Starting' /\ Following' /\ LastQueued'
    BY <1>1, <1>2 DEF PInv, Waits, Starting, Following, LastQueued
  <1>4. /\ currentIdx \in {-1, 0, 1} /\ currentIdx # -1
        /\ currentIdx = 0 => cur_buf # -1
        /\ currentIdx = 1 => Depth = 0
    BY <1>1 DEF IInv, Types, PInv, Waits, Starting, Following
  <1>5. currentIdx = 0 => ~avail[1]
    BY <1>2 DEF PInv, Unavailable
  <1>6. Unavailable'
    <2>1. avail' \in [Indices -> BOOLEAN] /\ Indices = {0, 1}
      BY <1>1, NxValue DEF PInv, Unavailable
    <2>2. currentIdx = 0 => ~avail'[1]
      BY <1>1, <1>5, <2>1 DEF PInv, Unavailable
    <2>3. ~(currentIdx = 1 /\ Depth > 0)
      BY <1>4
    <2>4. QED BY <1>1, <1>2, <1>4, <2>1, <2>2, <2>3 DEF Unavailable
  <1>7. QED BY <1>3, <1>6 DEF PInv

\* The post that returns is the current one now.
LEMMA UnlockPreviousPaced == ASSUME IInv, PInv, UnlockPrevious PROVE PInv'
  <1>1. /\ UNCHANGED <<intervals, swapInterval, cur_buf, disp, avail, loop>>
        /\ currentBuffer' = buffer /\ currentIdx' = nxtIdx
        /\ post = "unlock" /\ post' = "idle"
    BY DEF UnlockPrevious, display, settings
  <1>2. Pushed /\ ~Pushed' /\ Depth' = Depth
    BY <1>1 DEF Pushed, Depth, Flipping
  <1>3. /\ currentIdx \in {-1, 0, 1}
        /\ currentIdx' = IF currentIdx = 0 THEN 1 ELSE 0
    BY <1>1, NxValue DEF IInv, Types
  <1>4. buffer # NoBuffer
    BY <1>1, FbPostAssumption DEF IInv, LocksOK
  <1>5. Depth \in Nat BY DepthValue
  <1>6. Waits' /\ LastQueued'
    BY <1>1, <1>2, <1>3, <1>4 DEF PInv, Waits, LastQueued
  <1>7. Starting' /\ Following'
    BY <1>1, <1>2, <1>3, <1>5 DEF PInv, Starting, Following
  <1>8. Unavailable'
    <2>1. currentIdx = -1 /\ cur_buf = -1 => ~avail[0]
      BY <1>2 DEF PInv, Unavailable
    <2>2. currentIdx = 0 => ~avail[1]
      BY <1>2 DEF PInv, Unavailable
    <2>3. currentIdx = 1 => cur_buf # -1
      BY DEF PInv, Starting
    <2>4. QED BY <1>1, <1>2, <1>3, <2>1, <2>2, <2>3 DEF PInv, Unavailable
  <1>9. QED BY <1>6, <1>7, <1>8 DEF PInv

\* Dequeued or not, what has not been flipped has yet to be.
LEMMA LoopQuietPaced ==
    ASSUME IInv, PInv, Sleep \/ DequeueNothing \/ Flip PROVE PInv'
  <1>1. UNCHANGED <<intervals, swapInterval, currentIdx, currentBuffer,
                    cur_buf, disp, avail, post, buffer>>
    BY DEF Sleep, DequeueNothing, Flip, poster, display, settings
  <1>2. Pushed' = Pushed /\ Depth' = Depth
    BY <1>1 DEF Pushed, Depth, Flipping, Sleep, DequeueNothing, Flip
  <1>3. QED
    BY <1>1, <1>2
       DEF PInv, Waits, Starting, Following, Unavailable, LastQueued

LEMMA DequeuePaced == ASSUME IInv, PInv, Dequeue PROVE PInv'
  <1>1. /\ UNCHANGED <<intervals, swapInterval, currentIdx, currentBuffer,
                       cur_buf, avail, post, buffer>>
        /\ disp # <<>> /\ disp' = Tail(disp)
        /\ ~Flipping /\ Flipping'
    BY DEF Dequeue, poster, settings, Flipping
  <1>2. /\ disp' \in Seq(Entry) /\ Len(disp') = Len(disp) - 1
        /\ \A i \in 1..Len(disp') : disp'[i] = disp[i + 1]
    BY <1>1, HeadTailProperties DEF IInv, Types
  <1>3. Len(disp) \in Nat /\ Pushed' = Pushed
    BY <1>1, DepthValue DEF Pushed
  <1>4. Depth' = Depth
    BY <1>1, <1>2, <1>3 DEF Depth
  <1>5. LastQueued'
    <2> SUFFICES ASSUME disp' # <<>>
                 PROVE  disp'[Len(disp')] = disp[Len(disp)]
      BY <1>1, <1>3 DEF PInv, LastQueued
    <2>1. Len(disp') # 0
      BY <1>2, EmptySeq
    <2>2. Len(disp') \in 1..Len(disp') /\ Len(disp') + 1 = Len(disp)
      BY <1>2, <1>3, <2>1
    <2>3. QED BY <1>2, <2>2
  <1>6. QED
    BY <1>1, <1>3, <1>4, <1>5
       DEF PInv, Waits, Starting, Following, Unavailable

\* The flip of the first post frees its own index, every other one the index
\* of the post before it.
LEMMA MarkAvailPaced == ASSUME IInv, PInv, MarkAvail PROVE PInv'
  <1>1. /\ UNCHANGED <<intervals, swapInterval, currentIdx, currentBuffer, disp,
                       buffer>>
        /\ avail' = [avail EXCEPT ![Freed] = TRUE]
        /\ post' = IF post = "waiting" /\ currentIdx = Freed THEN "signalled"
                                                             ELSE post
        /\ cur_buf' = nxtBuf.idx
    BY DEF MarkAvail, settings
  <1>2. Pushed' = Pushed /\ Flipping /\ ~Flipping'
    BY <1>1 DEF Pushed, Flipping, MarkAvail
  <1>3. /\ Depth = Len(disp) + 1 /\ Depth' = Depth - 1 /\ Len(disp) \in Nat
        /\ disp = <<>> <=> Len(disp) = 0
    BY <1>1, <1>2, DepthValue DEF Depth
  <1>4. nxtBuf.idx \in {0, 1} /\ cur_buf' # -1
    BY <1>1, NxValue DEF IInv, Types, Entry
  <1>5. currentIdx \in {-1, 0, 1} /\ cur_buf \in {-1, 0, 1}
    BY DEF IInv, Types
  <1>6. /\ LastIdx = IF Pushed THEN (IF currentIdx = 0 THEN 1 ELSE 0)
                               ELSE currentIdx
        /\ cur_buf # -1 => nxtBuf.idx = IF cur_buf = 0 THEN 1 ELSE 0
        /\ Len(disp) = 0 => nxtBuf.idx = LastIdx
        /\ Len(disp) = 1 => LastIdx = IF nxtBuf.idx = 0 THEN 1 ELSE 0
    <2>1. LastIdx = IF Pushed THEN (IF currentIdx = 0 THEN 1 ELSE 0)
                              ELSE currentIdx
      BY <1>5, NxValue DEF LastIdx
    <2>2. cur_buf # -1 => nxtBuf.idx = IF cur_buf = 0 THEN 1 ELSE 0
      BY <1>2, <1>5, NxValue DEF IInv, InHand
    <2>3. Len(disp) = 0 => nxtBuf.idx = LastIdx
      BY <1>2, <1>3 DEF IInv, AtEnd
    <2>4. Len(disp) = 1 => disp[1].idx = LastIdx /\ disp[1].idx = Nx(nxtBuf.idx)
      BY <1>2, <1>3 DEF IInv, AtEnd, AtHead
    <2>5. QED BY <1>4, <2>1, <2>2, <2>3, <2>4, NxValue
  <1>7. Freed = IF cur_buf = -1 THEN nxtBuf.idx ELSE cur_buf
    BY DEF Freed
  \* What must not be available is not what the flip frees.
  <1>8. /\ currentIdx = 0 /\ (post = "push" \/ Pushed) => Freed = 0
        /\ currentIdx = 1 /\ ~Pushed => Freed = 0
        /\ currentIdx = 1 /\ Pushed /\ Depth # 1 => Freed = 0
    <2>1. CASE currentIdx = 0 /\ ~Pushed
      BY <1>3, <1>6, <1>7, <2>1 DEF PInv, Starting
    <2>2. CASE currentIdx = 0 /\ Pushed
      BY <1>3, <1>4, <1>5, <1>6, <1>7, <2>2 DEF PInv, Starting
    <2>3. CASE currentIdx = 1
      BY <1>3, <1>4, <1>5, <1>6, <1>7, <2>3 DEF PInv, Starting, Following
    <2>4. QED BY <2>1, <2>2, <2>3
  <1>9. Waits' /\ LastQueued'
    BY <1>1, <1>2 DEF PInv, Waits, LastQueued
  <1>10. Starting'
    BY <1>1, <1>2, <1>3, <1>4 DEF PInv, Starting
  <1>11. Following'
    <2>1. currentIdx = 1 /\ post' \in {"signalled", "unlock"} => Depth' = 0
      <3>1. CASE post = "waiting" /\ currentIdx = 1 /\ Freed = 1
        <4>1. Pushed BY <3>1 DEF Pushed
        <4>2. QED BY <1>3, <1>8, <3>1, <4>1
      <3>2. CASE currentIdx = 1 /\ post \in {"signalled", "unlock"}
        \* Nothing is left to flip.
        BY <1>3, <3>2 DEF PInv, Following
      <3>3. QED BY <1>1, <3>1, <3>2
    <2>2. QED BY <1>1, <1>2, <1>3, <2>1 DEF PInv, Following
  <1>12. Unavailable'
    <2>1. avail' \in [Indices -> BOOLEAN]
      BY <1>1 DEF PInv, Unavailable
    <2>2. currentIdx = -1 => ~(post' = "push")
      <3>1. currentIdx = -1 /\ ~Pushed => Depth = 0
        BY DEF PInv, Starting
      <3>2. Depth # 0 BY <1>3
      <3>3. QED BY <1>1, <3>1, <3>2 DEF Pushed
    <2>3. Freed = 0 => avail'[1] = avail[1]
      BY <1>1 DEF PInv, Unavailable
    <2>4. currentIdx = 0 /\ (post' = "push" \/ Pushed') => ~avail'[1]
      <3>1. post' = "push" => post = "push" BY <1>1
      <3>2. QED BY <1>2, <1>8, <2>3, <3>1 DEF PInv, Unavailable
    <2>5. currentIdx = 1 /\ (Pushed' => Depth' > 0) => ~avail'[1]
      <3>1. CASE currentIdx = 1 /\ ~Pushed
        BY <1>8, <2>3, <3>1 DEF PInv, Unavailable
      <3>2. CASE currentIdx = 1 /\ Pushed /\ Depth' > 0
        <4>1. Depth > 0 /\ Depth # 1 BY <1>3, <3>2
        <4>2. Freed = 0 BY <1>8, <3>2, <4>1
        <4>3. ~avail[1] BY <3>2, <4>1 DEF PInv, Unavailable
        <4>4. QED BY <2>3, <4>2, <4>3
      <3>3. QED BY <1>2, <3>1, <3>2
    <2>6. QED BY <1>1, <1>4, <2>1, <2>2, <2>4, <2>5 DEF Unavailable
  <1>13. QED BY <1>9, <1>10, <1>11, <1>12 DEF PInv

\* A client that leaves the interval at 1 is paced by the display: the queue
\* holds no more than its indices, and a buffer that is queued is locked, if
\* pthread_cond_wait returns only when signalled.
THEOREM AlwaysClientPaced == ASSUME ~Spurious PROVE Spec => []ClientPaced
  <1>1. IInv /\ Paced /\ [Next]_vars => Paced'
    <2> SUFFICES ASSUME IInv, PInv, [Next]_vars, intervals' = {1}
                 PROVE  PInv'
      <3>1. [Next]_vars => intervals' = intervals
        BY DEF vars, Next, PostStep, LoopStep, SetSwapInterval, PostCall,
               LockNew, ClearAvail, Push, WaitOrGoOn, WaitReturns,
               UnlockPrevious, ReuseCurrent, Sleep, Dequeue, DequeueNothing,
               Flip, MarkAvail, settings
      <3>2. QED BY <3>1 DEF Paced
    <2>1. CASE UNCHANGED vars
      BY <2>1 DEF PInv, Waits, Starting, Following, Unavailable, LastQueued,
                  Depth, Pushed, Flipping, vars
    <2>2. CASE ReuseCurrent
      BY <2>2 DEF ReuseCurrent, PInv, Waits
    <2>3. QED
      BY <2>1, <2>2, PostCallPaced, ClearAvailPaced, PushPaced,
         WaitOrGoOnPaced, WaitReturnsPaced, UnlockPreviousPaced,
         LoopQuietPaced, DequeuePaced, MarkAvailPaced
         DEF Next, PostStep, LoopStep
  <1>2. IInv /\ Paced => ClientPaced
    <2> SUFFICES ASSUME IInv, PInv, intervals = {1}
                 PROVE  QueueBounded /\ QueuedStaysLocked
      BY DEF Paced, ClientPaced, QueueBounded, QueuedStaysLocked
    <2>1. /\ Len(disp) \in Nat /\ (disp = <<>> <=> Len(disp) = 0)
          /\ Len(disp) <= Depth /\ Depth \in Nat
      BY DepthValue
    <2>2. Depth <= 2 /\ (post = "idle" => Depth <= 1)
      <3>1. currentIdx \in {-1, 0, 1}
        BY DEF IInv, Types
      <3>2. post = "idle" => ~Pushed
        BY DEF Pushed
      <3>3. QED BY <2>1, <3>1, <3>2 DEF PInv, Starting, Following
    <2>3. QueueBounded
      BY <2>1, <2>2 DEF QueueBounded, NUM_BUFFERS
    <2>4. QueuedStaysLocked
      <3> SUFFICES ASSUME NEW b \in Buffers, NEW i \in DOMAIN disp,
                          disp[i].buf = b, post = "idle"
                   PROVE  locks[b] > 0
        BY DEF QueuedStaysLocked
      <3>1. DOMAIN disp = 1..Len(disp)
        BY LenProperties DEF IInv, Types
      <3>2. i = Len(disp) /\ disp # <<>>
        BY <2>1, <2>2, <3>1
      <3>3. b = currentBuffer
        BY <3>2 DEF PInv, LastQueued, Pushed
      <3>4. QED BY <3>3 DEF IInv, LocksOK
    <2>5. QED BY <2>3, <2>4
  <1>3. QED BY <1>1, <1>2, InitPaced, Invariance, PTL DEF Spec

-----------------------------------------------------------------------------
(***************************************************************************)
(* Framebuffer handles, of which the buffers that are posted come.  For a  *)
(* panel with any room and any number of handles, one thread's calls keep  *)
(* the mask and the handles in agreement.                                  *)
(* Its update of bufferMask is a load and a store: in between, what was    *)
(* loaded is what the mask still is, and the slot is free or no longer a   *)
(* handle's.  A mask with fewer than numBuffers bits leaves one of the     *)
(* framebuffer's own slots free, so that the first free one is within it.  *)
(***************************************************************************)

OneThread == \A t, u \in Threads : t = u

Handed == {h.slot : h \in handles}

FbTypes == /\ numBuffers \in Nat
           /\ bufferMask \subseteq Int
           /\ \A h \in handles : h.slot \in Int
           /\ pc \in [Threads ->
                      {"idle", "map", "read", "set", "store", "clear"}]
           /\ bufferMaskL \in [Threads -> SUBSET Int]
           /\ loaded \in [Threads -> SUBSET Int]
           /\ slot \in [Threads -> Int]

\* No two handles are for a slot, and all slots are within the framebuffer.
HandlesOK == /\ \A g, h \in handles : g.slot = h.slot => g = h
             /\ Handed \subseteq 0..(numBuffers - 1)

\* Nothing is handed out before the framebuffer is made, once and forever.
MadeOnce == /\ framebuffer = "null" => handles = {}
            /\ \A t \in Threads :
                 /\ pc[t] = "map" => framebuffer = "null"
                 /\ pc[t] \in {"read", "set", "store"} => framebuffer # "null"

\* The mask is that of the handles unless a bit is still to be cleared.
MaskOK == (\A t \in Threads : pc[t] # "clear") => bufferMask = Handed

\* What the thread has read is still so when it updates the mask.
ReadOK == \A t \in Threads :
    /\ pc[t] = "set" => /\ bufferMaskL[t] = bufferMask
                        /\ Cardinality(bufferMask) # numBuffers
    /\ pc[t] \in {"store", "clear"} => slot[t] \in 0..(numBuffers - 1) \ Handed
    /\ pc[t] = "store" => loaded[t] = Handed
    /\ pc[t] = "clear" => loaded[t] = Handed \cup {slot[t]}

FbInv == FbTypes /\ HandlesOK /\ MadeOnce /\ MaskOK /\ ReadOK

-----------------------------------------------------------------------------

\* No handles, no bits and no calls at the start.
LEMMA InitFbInv == AllocInit => FbInv
  <1> SUFFICES ASSUME AllocInit PROVE FbInv OBVIOUS
  <1>1. \A t \in Threads : pc[t] = "idle"
    BY DEF AllocInit
  <1>2. FbTypes
    BY DEF AllocInit, FbTypes
  <1>3. HandlesOK /\ MadeOnce /\ MaskOK /\ ReadOK
    BY <1>1 DEF AllocInit, HandlesOK, MadeOnce, MaskOK, ReadOK, Handed
  <1>4. QED BY <1>2, <1>3 DEF FbInv

\* Of the framebuffer's slots one is free, and the first is not after it
\* (gralloc_alloc_framebuffer_locked, the search).
LEMMA FirstFreeIsWithin ==
    ASSUME NEW n \in Nat, NEW mask \in SUBSET (0..(n - 1)),
           Cardinality(mask) # n, NEW i \in Nat, IsFirstFree(mask, i)
    PROVE  i \in 0..(n - 1)
  <1>1. Cardinality(0..(n - 1)) = n
    <2>1. n = 0 \/ 0 <= n - 1
      OBVIOUS
    <2>2. QED BY <2>1, FS_Interval, FS_EmptySet
  <1>2. PICK j \in 0..(n - 1) : j \notin mask
    BY <1>1
  <1>3. ~(j < i)
    <2>1. j \in 0..(i - 1) => j \in mask
      BY DEF IsFirstFree
    <2>2. QED BY <1>2, <2>1
  <1>4. QED BY <1>2, <1>3

\* A call that begins to allocate has read nothing yet.
LEMMA FbAllocKeeps ==
    ASSUME OneThread, FbInv, NEW t \in Threads, Alloc(t) PROVE FbInv'
  <1>1. FbTypes'
    BY DEF FbInv, FbTypes, Alloc, Goto
  <1>2. \A u \in Threads : /\ pc[u] = "idle"
                           /\ pc'[u] \in {"map", "read"}
                           /\ pc'[u] = "map" <=> framebuffer = "null"
    BY DEF OneThread, FbInv, FbTypes, Alloc, Goto
  <1>3. HandlesOK' /\ MadeOnce' /\ MaskOK' /\ ReadOK'
    BY <1>2 DEF FbInv, HandlesOK, MadeOnce, MaskOK, ReadOK, Handed, Alloc
  <1>4. QED BY <1>1, <1>3 DEF FbInv

\* The framebuffer is made while there are no handles, and whether or not it
\* can be mapped the mask begins empty.
LEMMA MapKeeps ==
    ASSUME OneThread, FbInv, NEW t \in Threads,
           MapSucceeds(t) \/ MapFailsEarly(t) \/ MapFailsLate(t)
    PROVE  FbInv'
  <1>1. handles = {} /\ handles' = {} /\ bufferMask = {} /\ bufferMask' = {}
    <2>1. \A u \in Threads : pc[u] # "clear"
      BY DEF OneThread, MapSucceeds, MapFailsEarly, MapFailsLate
    <2>2. handles = {}
      BY DEF FbInv, MadeOnce, MapSucceeds, MapFailsEarly,
             MapFailsLate
    <2>3. bufferMask = {}
      BY <2>1, <2>2 DEF FbInv, MaskOK, Handed
    <2>4. QED BY <2>2, <2>3 DEF MapSucceeds, MapFailsEarly,
                                MapFailsLate
  <1>2. \A u \in Threads :
            pc'[u] = "idle" \/ (pc'[u] = "read" /\ framebuffer' = "mapped")
    BY DEF OneThread, FbInv, FbTypes, MapSucceeds, MapFailsEarly,
           MapFailsLate, Return, Goto
  <1>3. numBuffers' \in Nat
    BY DEF FbInv, FbTypes, MapSucceeds, MapFailsEarly, MapFailsLate
  <1>4. FbTypes'
    BY <1>1, <1>3 DEF FbInv, FbTypes, MapSucceeds, MapFailsEarly,
           MapFailsLate, Return, Goto
  <1>5. HandlesOK' /\ MadeOnce' /\ MaskOK' /\ ReadOK'
    BY <1>1, <1>2 DEF HandlesOK, MadeOnce, MaskOK, ReadOK, Handed
  <1>6. QED BY <1>4, <1>5 DEF FbInv

\* The mask that was read is not full.
LEMMA ReadMaskKeeps ==
    ASSUME OneThread, FbInv, NEW t \in Threads, ReadMask(t) PROVE FbInv'
  <1>1. CASE numBuffers = 1 \/ Cardinality(bufferMask) = numBuffers
    <2>1. Return(t) /\ pc[t] = "read"
      BY <1>1 DEF ReadMask
    <2>2. UNCHANGED <<framebuffer, numBuffers, bufferMask, handles>>
      BY DEF ReadMask
    <2>3. FbTypes'
      BY <2>1, <2>2 DEF FbInv, FbTypes, Return, Goto
    <2>4. \A u \in Threads : pc[u] = "read" /\ pc'[u] = "idle"
      BY <2>1 DEF OneThread, FbInv, FbTypes, Return, Goto
    <2>5. HandlesOK' /\ MadeOnce' /\ MaskOK' /\ ReadOK'
      BY <2>2, <2>4 DEF FbInv, HandlesOK, MadeOnce, MaskOK, ReadOK, Handed
    <2>6. QED BY <2>3, <2>5 DEF FbInv
  <1>2. CASE ~(numBuffers = 1 \/ Cardinality(bufferMask) = numBuffers)
    <2>1. /\ bufferMaskL' = [bufferMaskL EXCEPT ![t] = bufferMask]
          /\ pc' = [pc EXCEPT ![t] = "set"] /\ pc[t] = "read"
          /\ UNCHANGED <<loaded, slot>>
      BY <1>2 DEF ReadMask, Goto
    <2>2. UNCHANGED <<framebuffer, numBuffers, bufferMask, handles>>
      BY DEF ReadMask
    <2>3. FbTypes'
      BY <2>1, <2>2 DEF FbInv, FbTypes
    <2>4. \A u \in Threads : /\ pc[u] = "read" /\ pc'[u] = "set"
                             /\ bufferMaskL'[u] = bufferMask
      BY <2>1 DEF OneThread, FbInv, FbTypes
    <2>5. HandlesOK' /\ MadeOnce' /\ MaskOK' /\ ReadOK'
      BY <1>2, <2>2, <2>4 DEF FbInv, HandlesOK, MadeOnce, MaskOK, ReadOK,
                              Handed
    <2>6. QED BY <2>3, <2>5 DEF FbInv
  <1>3. QED BY <1>1, <1>2

\* The slot that was found is in the framebuffer and no handle's.
LEMMA LoadToSetKeeps ==
    ASSUME OneThread, FbInv, NEW t \in Threads, LoadToSet(t) PROVE FbInv'
  <1>1. PICK i \in 0..MaxBuffers : /\ IsFirstFree(bufferMaskL[t], i)
                                   /\ slot' = [slot EXCEPT ![t] = i]
    BY DEF LoadToSet
  <1>2. bufferMask = Handed /\ bufferMaskL[t] = Handed
    BY DEF OneThread, FbInv, MaskOK, ReadOK, LoadToSet
  <1>3. i \in Nat
    BY <1>1
  <1>4. i \in 0..(numBuffers - 1) \ Handed
    <2>1. /\ numBuffers \in Nat /\ Handed \in SUBSET (0..(numBuffers - 1))
          /\ Cardinality(Handed) # numBuffers
      BY <1>2 DEF FbInv, FbTypes, HandlesOK, ReadOK, LoadToSet
    <2>2. IsFirstFree(Handed, i) /\ i \notin Handed
      BY <1>1, <1>2 DEF IsFirstFree
    <2>3. QED BY <1>3, <2>1, <2>2, FirstFreeIsWithin
  <1>5. FbTypes'
    BY <1>1, <1>3 DEF FbInv, FbTypes, LoadToSet, Goto, module
  <1>6. \A u \in Threads : /\ pc'[u] = "store" /\ pc[u] = "set"
                           /\ loaded'[u] = bufferMask /\ slot'[u] = i
    BY <1>1 DEF OneThread, FbInv, FbTypes, LoadToSet, Goto
  <1>7. HandlesOK' /\ MadeOnce' /\ MaskOK' /\ ReadOK'
    BY <1>2, <1>4, <1>6 DEF FbInv, HandlesOK, MadeOnce, MaskOK, ReadOK,
                            Handed, LoadToSet, module
  <1>8. QED BY <1>5, <1>7 DEF FbInv

\* The new handle's slot was no other handle's.
LEMMA StoreSetKeeps ==
    ASSUME OneThread, FbInv, NEW t \in Threads, StoreSet(t) PROVE FbInv'
  <1>1. PICK id : handles' = handles \cup {[id |-> id, slot |-> slot[t]]}
    BY DEF StoreSet
  <1>2. Handed' = Handed \cup {slot[t]}
    <2> DEFINE new == [id |-> id, slot |-> slot[t]]
    <2>1. handles' = handles \cup {new} /\ new.slot = slot[t]
      BY <1>1
    <2> HIDE DEF new
    <2>2. QED BY <2>1 DEF Handed
  <1>3. /\ slot[t] \in 0..(numBuffers - 1) /\ slot[t] \notin Handed
        /\ loaded[t] = Handed
    BY DEF FbInv, ReadOK, StoreSet
  <1>4. framebuffer # "null"
    BY DEF FbInv, MadeOnce, StoreSet
  <1>5. \A u \in Threads : pc'[u] = "idle"
    BY DEF OneThread, FbInv, FbTypes, StoreSet, Return, Goto
  <1>6. \A g \in handles' : g \in handles \/
                             g = [id |-> id, slot |-> slot[t]]
    BY <1>1
  <1>7. FbTypes'
    BY <1>1, <1>3 DEF FbInv, FbTypes, StoreSet, Return, Goto
  <1>8. HandlesOK'
    <2>1. \A g \in handles : g.slot # slot[t]
      BY <1>3 DEF Handed
    <2>2. \A g, h \in handles' : g.slot = h.slot => g = h
      BY <1>6, <2>1 DEF FbInv, HandlesOK
    <2>3. Handed' \subseteq 0..(numBuffers' - 1)
      BY <1>2, <1>3 DEF FbInv, HandlesOK, StoreSet
    <2>4. QED BY <2>2, <2>3 DEF HandlesOK
  <1>9. MadeOnce' /\ MaskOK' /\ ReadOK'
    BY <1>2, <1>3, <1>4, <1>5 DEF MadeOnce, MaskOK, ReadOK, StoreSet
  <1>10. QED BY <1>7, <1>8, <1>9 DEF FbInv

\* A handle that is freed was the only one for its slot.
LEMMA LoadToClearKeeps ==
    ASSUME OneThread, FbInv, NEW t \in Threads, LoadToClear(t) PROVE FbInv'
  <1>1. PICK h \in handles : /\ handles' = handles \ {h}
                             /\ slot' = [slot EXCEPT ![t] = h.slot]
    BY DEF LoadToClear
  <1>2. Handed' = Handed \ {h.slot} /\ h.slot \in Handed
    BY <1>1 DEF FbInv, HandlesOK, Handed
  <1>3. bufferMask = Handed
    BY DEF OneThread, FbInv, MaskOK, LoadToClear
  <1>4. h.slot \in Int
    BY DEF FbInv, FbTypes
  <1>5. FbTypes'
    BY <1>1, <1>4 DEF FbInv, FbTypes, LoadToClear, Goto
  <1>6. \A u \in Threads : /\ pc'[u] = "clear" /\ u = t
                           /\ loaded'[u] = bufferMask /\ slot'[u] = h.slot
    BY <1>1 DEF OneThread, FbInv, FbTypes, LoadToClear, Goto
  <1>7. HandlesOK' /\ MadeOnce' /\ MaskOK'
    BY <1>1, <1>2, <1>3, <1>6 DEF FbInv, HandlesOK, MadeOnce, MaskOK,
                                  LoadToClear
  <1>8. ReadOK'
    <2>1. h.slot \in 0..(numBuffers - 1) /\ numBuffers' = numBuffers
      BY <1>2 DEF FbInv, HandlesOK, LoadToClear
    <2>2. Handed = Handed' \cup {h.slot} /\ h.slot \notin Handed'
      BY <1>2
    <2>3. QED BY <1>3, <1>6, <2>1, <2>2 DEF ReadOK
  <1>9. QED BY <1>5, <1>7, <1>8 DEF FbInv

\* The bit that is cleared is the one that was a handle's too much.
LEMMA StoreClearKeeps ==
    ASSUME OneThread, FbInv, NEW t \in Threads, StoreClear(t) PROVE FbInv'
  <1>1. bufferMask' = Handed
    BY DEF FbInv, ReadOK, StoreClear
  <1>2. FbTypes'
    BY DEF FbInv, FbTypes, StoreClear, Return, Goto
  <1>3. \A u \in Threads : pc'[u] = "idle"
    BY DEF OneThread, FbInv, FbTypes, StoreClear, Return, Goto
  <1>4. HandlesOK' /\ MadeOnce' /\ MaskOK' /\ ReadOK'
    BY <1>1, <1>3 DEF FbInv, HandlesOK, MadeOnce, MaskOK, ReadOK, Handed,
                      StoreClear
  <1>5. QED BY <1>2, <1>4 DEF FbInv

\* With the calls of one thread, the mask tells at every return which slots
\* are out, all within the framebuffer, and no slot is out twice: also after
\* a failure to map the framebuffer (gralloc_alloc_framebuffer, free_impl).
THEOREM SlotsAlwaysAgree == ASSUME OneThread PROVE AllocSpec => []SlotsAgree
  <1>1. FbInv /\ [AllocNext]_allocVars => FbInv'
    <2> SUFFICES ASSUME FbInv, [AllocNext]_allocVars PROVE FbInv' OBVIOUS
    <2>1. CASE UNCHANGED allocVars
      BY <2>1 DEF FbInv, FbTypes, HandlesOK, MadeOnce, MaskOK, ReadOK, Handed,
                  allocVars
    <2>2. ASSUME NEW t \in Threads,
                 Alloc(t) \/ LoadToClear(t) \/ InCall(t)
          PROVE  FbInv'
      BY <2>2, FbAllocKeeps, MapKeeps, ReadMaskKeeps, LoadToSetKeeps,
         StoreSetKeeps, LoadToClearKeeps, StoreClearKeeps DEF InCall
    <2>3. QED BY <2>1, <2>2 DEF AllocNext
  <1>2. FbInv => SlotsAgree
    BY DEF FbInv, FbTypes, HandlesOK, MaskOK, Handed, SlotsAgree,
           MaskAgrees, HandlesApart
  <1>3. QED BY <1>1, <1>2, InitFbInv, PTL DEF AllocSpec

-----------------------------------------------------------------------------
(***************************************************************************)
(* The blitter, for any jobs, regions, transforms and lengths of the list. *)
(* Two questions are kept apart.  Which rectangles have been drawn is a    *)
(* matter of the loop: the requests drawn or waiting match the rectangles  *)
(* returned so far one to one (Follows), except for empty ones.  What a    *)
(* request draws is a matter of set_rects, whose unsigned fields wrap: a   *)
(* request the driver carries out has none that did (LengthIsTrue), since  *)
(* no image is as large as half the range of an int.                       *)
(***************************************************************************)

\* The request each rectangle of the region comes to, and the requests of the
\* stretch so far that are not lost, in their order.
Clipped(i) == intersect(Whole(job.dst), region[i])
Plan == [i \in DOMAIN region |-> Request(job, Clipped(i))]
Planned == {Plan[i] : i \in DOMAIN region}
Sent == IF stage = "loop" THEN drawn \o list ELSE drawn

StretchTypes ==
    /\ stage \in {"idle", "loop", "done"} /\ next \in 0 .. Len(region)
    /\ region \in Seq(Rects)
    /\ drawn \in Seq(Planned) /\ list \in Seq(Planned)
    /\ stage # "idle" => job \in Requestable

\* The rectangles of the region do not overlap.
Apart ==
    \A i, k \in DOMAIN region : i # k => Area(region[i]) \cap Area(region[k]) = {}

\* Nothing is drawn of a refused stretch, or before one, and the driver has
\* carried out only what it can.
Accepted ==
    /\ stage = "idle" => next = 0
    /\ stage = "idle" \/ status = "EINVAL" => drawn = <<>> /\ list = <<>>
    /\ stage # "idle" /\ status # "EINVAL" => ~Refused(job)
    /\ \A i \in DOMAIN drawn : Runs(drawn[i])

\* The requests belong to different rectangles, all of them among the first n,
\* and only an empty request is left out.
Nothing(req) == Empty(req.src_rect) \/ Empty(req.dst_rect)

AllReturned(s, plan, n) == \A i \in DOMAIN s : \E a \in 1 .. n : s[i] = plan[a]

NoneTwice(s, plan, n) ==
    \A i, k \in DOMAIN s : i # k =>
        \E a, b \in 1 .. n : a # b /\ s[i] = plan[a] /\ s[k] = plan[b]

NoneLeft(s, plan, n) ==
    \A a \in 1 .. n : ~Nothing(plan[a]) => \E i \in DOMAIN s : s[i] = plan[a]

Follows(s, plan, n) ==
    AllReturned(s, plan, n) /\ NoneTwice(s, plan, n) /\ NoneLeft(s, plan, n)

CopybitInv ==
    /\ StretchTypes /\ Apart /\ Accepted
    /\ status = "ok" => Follows(Sent, Plan, next)
    /\ Done => next = Len(region)

-----------------------------------------------------------------------------

\* No request follows no rectangle.
LEMMA NoneFollows == \A plan : Follows(<<>>, plan, 0)
  BY DEF Follows, AllReturned, NoneTwice, NoneLeft

\* A request added for the next rectangle keeps the correspondence.
LEMMA AppendFollows ==
    ASSUME NEW S, NEW s \in Seq(S), NEW plan, NEW n \in Nat,
           plan[n + 1] \in S, Follows(s, plan, n)
    PROVE  Follows(Append(s, plan[n + 1]), plan, n + 1)
<1> DEFINE t == Append(s, plan[n + 1])
<1>1. /\ DOMAIN t = 1 .. Len(s) + 1 /\ DOMAIN s = 1 .. Len(s) /\ Len(s) \in Nat
      /\ \A i \in DOMAIN s : t[i] = s[i]
      /\ t[Len(s) + 1] = plan[n + 1]
  OBVIOUS
<1> HIDE DEF t
<1>2. \A i \in DOMAIN t : i \in DOMAIN s \/ i = Len(s) + 1
  BY <1>1
<1>3. /\ \A a \in 1 .. n : a \in 1 .. n + 1 /\ a # n + 1
      /\ n + 1 \in 1 .. n + 1
      /\ \A a \in 1 .. n + 1 : a \in 1 .. n \/ a = n + 1
  OBVIOUS
<1>4. AllReturned(t, plan, n + 1)
  BY <1>1, <1>2, <1>3 DEF AllReturned, Follows
<1>5. NoneTwice(t, plan, n + 1)
  <2> SUFFICES ASSUME NEW i \in DOMAIN t, NEW k \in DOMAIN t, i # k
               PROVE  \E a, b \in 1 .. n + 1 :
                         a # b /\ t[i] = plan[a] /\ t[k] = plan[b]
    BY DEF NoneTwice
  <2>1. CASE i \in DOMAIN s /\ k \in DOMAIN s
    BY <2>1, <1>1, <1>3 DEF Follows, NoneTwice
  <2>2. CASE i \in DOMAIN s /\ k = Len(s) + 1
    BY <2>2, <1>1, <1>3 DEF Follows, AllReturned
  <2>3. CASE i = Len(s) + 1 /\ k \in DOMAIN s
    BY <2>3, <1>1, <1>3 DEF Follows, AllReturned
  <2> QED
    BY <2>1, <2>2, <2>3, <1>2
<1>6. NoneLeft(t, plan, n + 1)
  <2> SUFFICES ASSUME NEW a \in 1 .. n + 1, ~Nothing(plan[a])
               PROVE  \E i \in DOMAIN t : t[i] = plan[a]
    BY DEF NoneLeft
  <2>1. CASE a \in 1 .. n
    <3>1. PICK i \in DOMAIN s : s[i] = plan[a]
      BY <2>1 DEF Follows, NoneLeft
    <3> QED
      BY <3>1, <1>1
  <2>2. CASE a = n + 1
    BY <2>2, <1>1
  <2> QED
    BY <2>1, <2>2, <1>3
<1> QED
  BY <1>4, <1>5, <1>6 DEF Follows, t

\* So does an empty request that is skipped.
LEMMA SkipFollows ==
    ASSUME NEW s, NEW plan, NEW n \in Nat,
           Nothing(plan[n + 1]), Follows(s, plan, n)
    PROVE  Follows(s, plan, n + 1)
<1>1. /\ \A a \in 1 .. n : a \in 1 .. n + 1
      /\ \A a \in 1 .. n + 1 : a \in 1 .. n \/ a = n + 1
  OBVIOUS
<1> QED
  BY <1>1 DEF Follows, AllReturned, NoneTwice, NoneLeft

\* A list that the driver has carried out whole has been drawn, behind the rest.
LEMMA AppendToBoth ==
    ASSUME NEW S, NEW s \in Seq(S), NEW t \in Seq(S), NEW e \in S
    PROVE  s \o Append(t, e) = Append(s \o t, e)
<1>1. /\ Append(t, e) \in Seq(S) /\ Len(Append(t, e)) = Len(t) + 1
      /\ \A i \in 1 .. Len(t) : Append(t, e)[i] = t[i]
      /\ Append(t, e)[Len(t) + 1] = e
      /\ Len(s) \in Nat /\ Len(t) \in Nat
  OBVIOUS
<1>2. /\ s \o t \in Seq(S) /\ Len(s \o t) = Len(s) + Len(t)
      /\ \A i \in 1 .. Len(s) + Len(t) :
             (s \o t)[i] = IF i <= Len(s) THEN s[i] ELSE t[i - Len(s)]
  BY ConcatProperties
<1>3. /\ s \o Append(t, e) \in Seq(S)
      /\ Len(s \o Append(t, e)) = Len(s) + Len(t) + 1
      /\ \A i \in 1 .. Len(s) + Len(t) + 1 :
             (s \o Append(t, e))[i]
                 = IF i <= Len(s) THEN s[i] ELSE Append(t, e)[i - Len(s)]
  BY <1>1, ConcatProperties
<1> DEFINE long == s \o Append(t, e)
           both == s \o t
<1>4. /\ Append(both, e) \in Seq(S) /\ Len(Append(both, e)) = Len(s) + Len(t) + 1
      /\ \A i \in 1 .. Len(s) + Len(t) : Append(both, e)[i] = both[i]
      /\ Append(both, e)[Len(s) + Len(t) + 1] = e
  <2> HIDE DEF both
  <2>1. both \in Seq(S) /\ Len(both) = Len(s) + Len(t)
    BY <1>2 DEF both
  <2> QED
    BY <2>1, <1>1
<1>5. ASSUME NEW i \in 1 .. Len(long) PROVE long[i] = Append(both, e)[i]
  <2>1. i \in 1 .. Len(s) + Len(t) + 1
    BY <1>3
  <2>2. CASE i <= Len(s)
    BY <2>1, <2>2, <1>1, <1>2, <1>3, <1>4
  <2>3. CASE ~(i <= Len(s)) /\ i <= Len(s) + Len(t)
    <3>1. i - Len(s) \in 1 .. Len(t) /\ i \in 1 .. Len(s) + Len(t)
      BY <2>1, <2>3, <1>1
    <3> QED
      BY <2>1, <2>3, <3>1, <1>1, <1>2, <1>3, <1>4
  <2>4. CASE i = Len(s) + Len(t) + 1
    <3>1. i - Len(s) = Len(t) + 1 /\ ~(i <= Len(s))
      BY <2>4, <1>1
    <3> QED
      BY <2>1, <2>4, <3>1, <1>1, <1>3, <1>4
  <2> QED
    BY <2>1, <2>2, <2>3, <2>4, <1>1
<1> QED
  BY <1>3, <1>4, <1>5, SeqEqual

\* The driver draws requests that it can carry out, and all of them on success.
LEMMA BlitDraws ==
    ASSUME NEW S, NEW reqs \in Seq(S), drawn \in Seq(S), msm_copybit(reqs),
           \A i \in DOMAIN drawn : Runs(drawn[i])
    PROVE  /\ drawn' \in Seq(S) /\ status' \in {"ok", "failed"}
           /\ \A i \in DOMAIN drawn' : Runs(drawn'[i])
           /\ status' = "ok" => drawn' = drawn \o reqs
<1>1. PICK n \in 0 .. Len(reqs) :
          /\ \A i \in 1 .. n : Runs(reqs[i])
          /\ drawn' = drawn \o SubSeq(reqs, 1, n)
          /\ status' = IF n = Len(reqs) THEN "ok" ELSE "failed"
  BY DEF msm_copybit
<1>2. \A i \in 1 .. n : reqs[i] \in S
  OBVIOUS
<1>3. /\ SubSeq(reqs, 1, n) \in Seq(S) /\ Len(SubSeq(reqs, 1, n)) = n
      /\ \A i \in 1 .. n : SubSeq(reqs, 1, n)[i] = reqs[i]
  BY <1>2, SubSeqProperties
<1>4. /\ drawn' \in Seq(S) /\ Len(drawn') = Len(drawn) + n
      /\ \A i \in 1 .. Len(drawn) + n :
             drawn'[i] = IF i <= Len(drawn) THEN drawn[i] ELSE reqs[i - Len(drawn)]
  BY <1>1, <1>3, ConcatProperties
<1>5. ASSUME NEW i \in DOMAIN drawn' PROVE Runs(drawn'[i])
  <2>1. i \in 1 .. Len(drawn) + n /\ Len(drawn) \in Nat /\ n \in Nat
    BY <1>4
  <2>2. CASE i <= Len(drawn)
    BY <2>1, <2>2, <1>4
  <2>3. CASE ~(i <= Len(drawn))
    <3>1. i - Len(drawn) \in 1 .. n /\ drawn'[i] = reqs[i - Len(drawn)]
      BY <2>1, <2>3, <1>4
    <3> QED
      BY <3>1, <1>1
  <2> QED
    BY <2>2, <2>3
<1>6. ASSUME status' = "ok" PROVE drawn' = drawn \o reqs
  BY <1>1, <1>6, SubSeqFull
<1> QED
  BY <1>1, <1>4, <1>5, <1>6

-----------------------------------------------------------------------------

LEMMA InitCopybit == CopybitInit => CopybitInv
<1> SUFFICES ASSUME CopybitInit PROVE CopybitInv
  OBVIOUS
<1>1. /\ region = <<>> /\ drawn = <<>> /\ list = <<>> /\ next = 0
      /\ stage = "idle"
  BY DEF CopybitInit
<1>2. StretchTypes
  BY <1>1 DEF StretchTypes
<1>3. Apart /\ Accepted
  BY <1>1 DEF Apart, Accepted
<1>4. Follows(Sent, Plan, next)
  BY <1>1, NoneFollows DEF Sent
<1> QED
  BY <1>1, <1>2, <1>3, <1>4 DEF CopybitInv, Done

\* Between two stretches only the device and its parameters change.
LEMMA IdleKeeps ==
    ASSUME CopybitInv, stage = "idle",
           UNCHANGED <<stage, job, region, next, list, status, drawn>>
    PROVE  CopybitInv'
<1>1. drawn = <<>> /\ list = <<>> /\ next = 0
  BY DEF CopybitInv, Accepted
<1>2. StretchTypes'
  BY <1>1 DEF CopybitInv, StretchTypes
<1>3. Apart' /\ Accepted'
  BY <1>1 DEF CopybitInv, Apart, Accepted
<1>4. Follows(Sent', Plan', next')
  BY <1>1, NoneFollows DEF Sent
<1> QED
  BY <1>1, <1>2, <1>3, <1>4 DEF CopybitInv, Done

LEMMA StretchKeeps ==
    ASSUME CopybitInv, NEW j \in Requestable, NEW rects \in Regions, Stretch(j, rects)
    PROVE  CopybitInv'
<1>1. /\ job' = j /\ region' = rects /\ next' = 0 /\ drawn' = <<>> /\ list' = <<>>
      /\ stage' \in {"loop", "done"}
      /\ stage' = "done" => status' = "EINVAL"
      /\ status' # "EINVAL" => ~Refused(j)
      /\ mAlpha' = mAlpha
  BY DEF Stretch
<1>2. StretchTypes'
  BY <1>1, CopybitAssumption DEF StretchTypes
<1>3. Apart'
  BY <1>1, CopybitAssumption DEF Apart
<1>4. Accepted'
  BY <1>1 DEF Accepted, Refused
<1>5. Follows(Sent', Plan', next')
  <2>1. Sent' = <<>>
    BY <1>1 DEF Sent
  <2> QED
    BY <2>1, <1>1, NoneFollows
<1> QED
  BY <1>1, <1>2, <1>3, <1>4, <1>5 DEF CopybitInv, Done

LEMMA NextRectKeeps == ASSUME CopybitInv, NextRect PROVE CopybitInv'
<1> DEFINE req == Request(job, intersect(Whole(job.dst), region[next + 1]))
<1>1. /\ stage = "loop" /\ status = "ok" /\ next < Len(region)
      /\ next' = next + 1
      /\ UNCHANGED <<opened, mFlags, mAlpha, stage, job, region>>
      /\ Len(region) \in Nat /\ next \in 0 .. Len(region)
      /\ DOMAIN region = 1 .. Len(region)
  BY DEF NextRect, CopybitInv, StretchTypes
<1>2. next + 1 \in DOMAIN region /\ next' \in 0 .. Len(region) /\ next \in Nat
  BY <1>1
<1>3. Plan[next + 1] = req
  BY <1>2 DEF Plan, Clipped
<1>4. Plan' = Plan /\ Planned' = Planned
  BY <1>1 DEF Plan, Planned, Clipped, Request
<1>5. req \in Planned
  BY <1>2, <1>3 DEF Planned
<1>6. IF Nothing(req) THEN UNCHANGED <<list, drawn, status>> ELSE Add(req)
  BY DEF NextRect, Nothing
<1> HIDE DEF req
<1>7. /\ drawn \in Seq(Planned) /\ list \in Seq(Planned)
      /\ \A i \in DOMAIN drawn : Runs(drawn[i])
      /\ Follows(drawn \o list, Plan, next)
  BY <1>1 DEF CopybitInv, StretchTypes, Accepted, Sent
<1>8. /\ drawn' \in Seq(Planned) /\ list' \in Seq(Planned)
      /\ status' # "EINVAL"
      /\ \A i \in DOMAIN drawn' : Runs(drawn'[i])
      /\ status' = "ok" => Follows(drawn' \o list', Plan, next + 1)
  <2>1. CASE Nothing(req)
    BY <2>1, <1>1, <1>2, <1>3, <1>6, <1>7, SkipFollows
  <2>2. CASE ~Nothing(req)
    <3>1. Append(list, req) \in Seq(Planned)
      BY <1>5, <1>7
    <3>2. drawn \o Append(list, req) = Append(drawn \o list, req)
      BY <1>5, <1>7, AppendToBoth
    <3>3. drawn \o list \in Seq(Planned)
      BY <1>7, ConcatProperties
    <3>4. Follows(drawn \o Append(list, req), Plan, next + 1)
      BY <3>2, <3>3, <1>2, <1>3, <1>5, <1>7, AppendFollows
    <3>5. CASE Len(list) + 1 = MaxCount
      <4>1. list' = <<>> /\ msm_copybit(Append(list, req))
        BY <3>5, <2>2, <1>6 DEF Add
      <4>2. /\ drawn' \in Seq(Planned) /\ status' \in {"ok", "failed"}
            /\ \A i \in DOMAIN drawn' : Runs(drawn'[i])
            /\ status' = "ok" => drawn' = drawn \o Append(list, req)
        BY <4>1, <3>1, <1>7, BlitDraws
      <4>3. list' \in Seq(Planned) /\ drawn' \o list' = drawn'
        BY <4>1, <4>2, ConcatEmptySeq
      <4> QED
        BY <4>2, <4>3, <3>4
    <3>6. CASE Len(list) + 1 # MaxCount
      BY <3>6, <2>2, <3>1, <3>4, <1>1, <1>6, <1>7 DEF Add
    <3> QED
      BY <3>5, <3>6
  <2> QED
    BY <2>1, <2>2
<1>9. StretchTypes'
  BY <1>1, <1>2, <1>4, <1>8 DEF CopybitInv, StretchTypes
<1>10. Apart'
  BY <1>1 DEF CopybitInv, Apart
<1>11. Accepted'
  <2>1. (\A i \in DOMAIN drawn : Runs(drawn[i]))'
    BY <1>1, <1>8 DEF Runs
  <2>2. ~Refused(job)'
    BY <1>1 DEF CopybitInv, Accepted, Refused
  <2> QED
    BY <2>1, <2>2, <1>1, <1>8 DEF Accepted
<1>12. status' = "ok" => Follows(Sent', Plan', next')
  BY <1>1, <1>4, <1>8 DEF Sent
<1> QED
  BY <1>1, <1>9, <1>10, <1>11, <1>12 DEF CopybitInv, Done

LEMMA FinishKeeps == ASSUME CopybitInv, Finish PROVE CopybitInv'
<1>1. /\ stage = "loop" /\ stage' = "done"
      /\ status # "ok" \/ next = Len(region)
      /\ UNCHANGED <<opened, mFlags, mAlpha, job, region, next, list>>
      /\ IF status = "ok" /\ list # <<>>
         THEN msm_copybit(list) ELSE UNCHANGED <<drawn, status>>
  BY DEF Finish
<1>2. Plan' = Plan /\ Planned' = Planned
  BY <1>1 DEF Plan, Planned, Clipped, Request
<1>3. /\ drawn \in Seq(Planned) /\ list \in Seq(Planned)
      /\ \A i \in DOMAIN drawn : Runs(drawn[i])
      /\ status = "ok" => Follows(drawn \o list, Plan, next)
  BY <1>1 DEF CopybitInv, StretchTypes, Accepted, Sent
<1>4. /\ drawn' \in Seq(Planned)
      /\ \A i \in DOMAIN drawn' : Runs(drawn'[i])
      /\ status' = "ok" => status = "ok" /\ drawn' = drawn \o list
      /\ status = "EINVAL" <=> status' = "EINVAL"
      /\ status = "EINVAL" => drawn' = drawn
  <2>1. CASE status = "ok" /\ list # <<>>
    BY <2>1, <1>1, <1>3, BlitDraws
  <2>2. CASE status = "ok" /\ list = <<>>
    <3>1. drawn \o list = drawn
      BY <2>2, <1>3, ConcatEmptySeq
    <3> QED
      BY <2>2, <3>1, <1>1, <1>3
  <2>3. CASE status # "ok"
    BY <2>3, <1>1, <1>3
  <2> QED
    BY <2>1, <2>2, <2>3
<1>5. StretchTypes'
  BY <1>1, <1>2, <1>3, <1>4 DEF CopybitInv, StretchTypes
<1>6. Apart'
  BY <1>1 DEF CopybitInv, Apart
<1>7. Accepted'
  <2>1. (\A i \in DOMAIN drawn : Runs(drawn[i]))'
    BY <1>1, <1>4 DEF Runs
  <2>2. status' # "EINVAL" => ~Refused(job)'
    BY <1>1, <1>4 DEF CopybitInv, Accepted, Refused
  <2>3. status' = "EINVAL" => drawn' = <<>> /\ list' = <<>>
    BY <1>1, <1>4 DEF CopybitInv, Accepted
  <2> QED
    BY <2>1, <2>2, <2>3, <1>1 DEF Accepted
<1>8. status' = "ok" => Follows(Sent', Plan', next')
  BY <1>1, <1>2, <1>3, <1>4 DEF Sent
<1> QED
  BY <1>1, <1>4, <1>5, <1>6, <1>7, <1>8 DEF CopybitInv, Done

LEMMA ReturnKeeps == ASSUME CopybitInv, StretchReturns PROVE CopybitInv'
<1>1. /\ region' = <<>> /\ drawn' = <<>> /\ list' = <<>> /\ next' = 0
      /\ stage' = "idle"
  BY DEF StretchReturns
<1>2. StretchTypes'
  BY <1>1 DEF StretchTypes
<1>3. Apart' /\ Accepted'
  BY <1>1 DEF Apart, Accepted
<1>4. Follows(Sent', Plan', next')
  BY <1>1, NoneFollows DEF Sent
<1> QED
  BY <1>1, <1>2, <1>3, <1>4 DEF CopybitInv, Done

THEOREM CopybitInvariance == CopybitSpec => []CopybitInv
<1>1. ASSUME CopybitInv, [CopybitNext]_copybitVars PROVE CopybitInv'
  <2>1. CASE Open \/ close_copybit \/ SetRotation \/ SetTransform \/ SetDither
             \/ SetPlaneAlpha
    <3>1. /\ stage = "idle"
          /\ UNCHANGED <<stage, job, region, next, list, status, drawn>>
      BY <2>1 DEF Open, close_copybit, SetRotation, SetTransform, SetDither,
                  SetPlaneAlpha, SetFlags
    <3> QED
      BY <1>1, <3>1, IdleKeeps
  <2>2. CASE \E j \in Jobs, rects \in Regions : Stretch(j, rects) \/ Blit(j, rects)
    <3>1. PICK j \in Jobs, rects \in Regions : Stretch(j, rects) \/ Blit(j, rects)
      BY <2>2
    <3>2. j \in Requestable
      BY CopybitAssumption
    <3>3. CASE Stretch(j, rects)
      BY <1>1, <3>2, <3>3, StretchKeeps
    <3>4. CASE Blit(j, rects)
      <4> DEFINE whole == [j EXCEPT !.dst_rect = Whole(j.dst),
                                    !.src_rect = Whole(j.src)]
      <4>1. Whole(j.dst) \in Rects /\ Whole(j.src) \in Rects
        <5>1. Sides \subseteq Ints /\ 0 \in Ints
          BY CopybitAssumption DEF Sides, Ints
        <5>2. /\ j.dst.w \in Sides /\ j.dst.h \in Sides
              /\ j.src.w \in Sides /\ j.src.h \in Sides
          BY <3>2 DEF Requestable, Images
        <5> QED
          BY <5>1, <5>2 DEF Rects, Whole
      <4>2. whole \in Requestable
        BY <3>2, <4>1 DEF Requestable
      <4>3. Stretch(whole, rects)
        BY <3>4 DEF Blit
      <4> QED
        BY <1>1, <4>2, <4>3, StretchKeeps
    <3> QED
      BY <3>1, <3>3, <3>4
  <2>3. CASE NextRect
    BY <1>1, <2>3, NextRectKeeps
  <2>4. CASE Finish
    BY <1>1, <2>4, FinishKeeps
  <2>5. CASE StretchReturns
    BY <1>1, <2>5, ReturnKeeps
  <2>6. CASE UNCHANGED copybitVars
    <3>1. Plan' = Plan /\ Planned' = Planned /\ Sent' = Sent
      BY <2>6 DEF copybitVars, Plan, Planned, Clipped, Request, Sent
    <3>2. StretchTypes' /\ Apart'
      BY <1>1, <2>6, <3>1 DEF copybitVars, CopybitInv, StretchTypes, Apart
    <3>3. Accepted'
      BY <1>1, <2>6 DEF copybitVars, CopybitInv, Accepted, Refused, Runs
    <3> QED
      BY <1>1, <2>6, <3>1, <3>2, <3>3 DEF copybitVars, CopybitInv, Done
  <2> QED
    BY <1>1, <2>1, <2>2, <2>3, <2>4, <2>5, <2>6 DEF CopybitNext
<1> QED
  BY InitCopybit, <1>1, PTL DEF CopybitSpec

-----------------------------------------------------------------------------

\* The part of a rectangle that lies in the image and the destination.
Clip(j, rect) == intersect(intersect(Whole(j.dst), rect), j.dst_rect)

\* The edges of a rectangle.
LEMMA EdgesAreInts ==
    /\ Ints \subseteq Int /\ Sides \subseteq Nat /\ Sides \subseteq Ints /\ 0 \in Ints
    /\ \A rect \in Rects : /\ rect.l \in Int /\ rect.t \in Int
                          /\ rect.r \in Int /\ rect.b \in Int
<1>1. /\ Ints \subseteq Int /\ Sides \subseteq Nat /\ Sides \subseteq Ints /\ 0 \in Ints
  BY CopybitAssumption DEF Ints, Sides
<1> QED
  BY <1>1 DEF Rects

\* A field of an mdp_rect keeps a length, and wraps a negative one.
LEMMA UintKeeps == ASSUME NEW i \in 0 .. Modulus - 1 PROVE Uint(i) = i
<1>1. Modulus \in Nat /\ Modulus > 0 /\ i \in Nat /\ i < Modulus
  BY CopybitAssumption
<1>2. \A m, k \in Nat : k < m => k % m = k
  OBVIOUS
<1> QED
  BY <1>1, <1>2 DEF Uint

LEMMA UintWraps ==
    ASSUME NEW i \in -Modulus .. -1 PROVE Uint(i) = i + Modulus
<1>1. Modulus \in Nat /\ Modulus > 0 /\ i \in Int /\ -Modulus <= i /\ i < 0
  BY CopybitAssumption
<1>2. \A m \in Nat, k \in Int : -m <= k /\ k < 0 => k % m = k + m
  OBVIOUS
<1> QED
  BY <1>1, <1>2 DEF Uint

\* What the driver accepts between two edges is a length: a wrapped one would
\* lead out of every image that was not refused.
LEMMA LengthIsTrue ==
    ASSUME NEW from \in Ints, NEW to \in Ints, NEW limit \in Nat,
           from >= 0, limit <= MaxDimension,
           Uint(to - from) > 0, Uint(from) + Uint(to - from) <= limit
    PROVE  from < to /\ Uint(from) = from /\ Uint(to - from) = to - from
<1>1. /\ Modulus \in Nat /\ MaxDimension \in Nat /\ 2 * MaxDimension < Modulus
      /\ from \in Int /\ to \in Int /\ from < Modulus /\ to < Modulus
      /\ to + Modulus > limit
  BY CopybitAssumption DEF Ints
<1>2. Uint(from) = from
  BY <1>1, UintKeeps
<1>3. CASE to < from
  <2>1. to - from \in -Modulus .. -1
    BY <1>1, <1>3 DEF Ints
  <2>2. Uint(to - from) = to - from + Modulus
    BY <2>1, UintWraps
  <2> QED
    BY <2>2, <1>1, <1>2
<1>4. CASE ~(to < from)
  <2>1. to - from \in 0 .. Modulus - 1
    BY <1>1, <1>4
  <2>2. Uint(to - from) = to - from
    BY <2>1, UintKeeps
  <2> QED
    BY <2>2, <1>1, <1>2
<1> QED
  BY <1>3, <1>4

\* The clip is a rectangle of ints in the image, the destination and the given one.
LEMMA ClipWithin ==
    ASSUME NEW j \in Requestable, NEW rect \in Rects
    PROVE  /\ Clip(j, rect) \in Rects
           /\ Clip(j, rect).l >= 0 /\ Clip(j, rect).t >= 0
           /\ Clip(j, rect).l >= j.dst_rect.l /\ Clip(j, rect).r <= j.dst_rect.r
           /\ Clip(j, rect).t >= j.dst_rect.t /\ Clip(j, rect).b <= j.dst_rect.b
           /\ Area(Clip(j, rect))
                  = Area(rect) \cap Area(Whole(j.dst)) \cap Area(j.dst_rect)
<1>1. /\ Sides \subseteq Ints /\ 0 \in Ints /\ Ints \subseteq Int
      /\ Sides \subseteq Nat
  BY EdgesAreInts
<1>2. j.dst.w \in Sides /\ j.dst.h \in Sides /\ j.dst_rect \in Rects
  BY DEF Requestable, Images
<1> DEFINE d == j.dst_rect
           c == Clip(j, rect)
<1>3. /\ c.l = max(max(0, rect.l), d.l) /\ c.t = max(max(0, rect.t), d.t)
      /\ c.r = min(min(j.dst.w, rect.r), d.r) /\ c.b = min(min(j.dst.h, rect.b), d.b)
      /\ c = [l |-> c.l, t |-> c.t, r |-> c.r, b |-> c.b]
  BY DEF Clip, intersect, Whole
<1>4. /\ d.l \in Ints /\ d.t \in Ints /\ d.r \in Ints /\ d.b \in Ints
      /\ rect.l \in Ints /\ rect.t \in Ints /\ rect.r \in Ints /\ rect.b \in Ints
  BY <1>2 DEF Rects
<1> HIDE DEF c, d
<1>5. c.l \in Ints /\ c.t \in Ints /\ c.r \in Ints /\ c.b \in Ints
  BY <1>1, <1>2, <1>3, <1>4 DEF max, min
<1>6. /\ c.l >= 0 /\ c.t >= 0 /\ c.l >= d.l /\ c.r <= d.r /\ c.t >= d.t /\ c.b <= d.b
  BY <1>1, <1>2, <1>3, <1>4 DEF max, min
<1>7. \A x, y \in Int :
          /\ c.l <= x <=> 0 <= x /\ rect.l <= x /\ d.l <= x
          /\ c.t <= y <=> 0 <= y /\ rect.t <= y /\ d.t <= y
          /\ x <= c.r - 1 <=> x <= j.dst.w - 1 /\ x <= rect.r - 1 /\ x <= d.r - 1
          /\ y <= c.b - 1 <=> y <= j.dst.h - 1 /\ y <= rect.b - 1 /\ y <= d.b - 1
  BY <1>1, <1>2, <1>3, <1>4 DEF max, min
<1>8. /\ c.l .. c.r - 1
             = (rect.l .. rect.r - 1) \cap (0 .. j.dst.w - 1) \cap (d.l .. d.r - 1)
      /\ c.t .. c.b - 1
             = (rect.t .. rect.b - 1) \cap (0 .. j.dst.h - 1) \cap (d.t .. d.b - 1)
  BY <1>1, <1>2, <1>4, <1>5, <1>7
<1>9. Area(c) = Area(rect) \cap Area(Whole(j.dst)) \cap Area(d)
  BY <1>8 DEF Area, Whole
<1> QED
  BY <1>3, <1>5, <1>6, <1>9 DEF c, d, Rects

\* The sides of the images of a stretch that was not refused.
LEMMA SidesInBounds ==
    ASSUME NEW j \in Requestable, ~Refused(j)
    PROVE  /\ j.dst.w \in 0 .. MaxDimension /\ j.dst.h \in 0 .. MaxDimension
           /\ j.src.w \in 0 .. MaxDimension /\ j.src.h \in 0 .. MaxDimension
           /\ j.src_rect.l >= 0 /\ j.src_rect.r <= j.src.w
           /\ j.src_rect.t >= 0 /\ j.src_rect.b <= j.src.h
<1>1. /\ j.dst.w \in Sides /\ j.dst.h \in Sides /\ j.src.w \in Sides
      /\ j.src.h \in Sides /\ j.src_rect \in Rects
  BY DEF Requestable, Images
<1>2. /\ ~(max(j.src.w, j.src.h) > MaxDimension)
      /\ ~(max(j.dst.w, j.dst.h) > MaxDimension)
      /\ ~(j.src_rect.l < 0) /\ ~(j.src_rect.r > j.src.w)
      /\ ~(j.src_rect.t < 0) /\ ~(j.src_rect.b > j.src.h)
  BY DEF Refused
<1>3. MaxDimension \in Nat /\ Sides \subseteq Nat
  BY CopybitAssumption, EdgesAreInts
<1>4. /\ j.src_rect.l \in Int /\ j.src_rect.r \in Int
      /\ j.src_rect.t \in Int /\ j.src_rect.b \in Int
  BY <1>1, EdgesAreInts
<1>5. \A a, b \in Nat : ~(max(a, b) > MaxDimension)
          => a \in 0 .. MaxDimension /\ b \in 0 .. MaxDimension
  BY <1>3 DEF max
<1>6. /\ j.dst.w \in Nat /\ j.dst.h \in Nat /\ j.src.w \in Nat /\ j.src.h \in Nat
  BY <1>1, <1>3
<1>7. /\ j.dst.w \in 0 .. MaxDimension /\ j.dst.h \in 0 .. MaxDimension
      /\ j.src.w \in 0 .. MaxDimension /\ j.src.h \in 0 .. MaxDimension
  BY <1>2, <1>5, <1>6
<1>8. /\ j.src_rect.l >= 0 /\ j.src_rect.r <= j.src.w
      /\ j.src_rect.t >= 0 /\ j.src_rect.b <= j.src.h
  BY <1>2, <1>4, <1>6
<1> QED
  BY <1>7, <1>8

\* A request that the driver accepts on the destination's side draws the clip.
LEMMA DrawsTheClip ==
    ASSUME NEW j \in Requestable, ~Refused(j), NEW rect \in Rects,
           NEW req, req = Request(j, intersect(Whole(j.dst), rect)),
           Inside(req.dst_rect, j.dst)
    PROVE  /\ req.dst_rect = [x |-> Clip(j, rect).l, y |-> Clip(j, rect).t,
                              w |-> Clip(j, rect).r - Clip(j, rect).l,
                              h |-> Clip(j, rect).b - Clip(j, rect).t]
           /\ Clip(j, rect).l < Clip(j, rect).r /\ Clip(j, rect).t < Clip(j, rect).b
<1> DEFINE c == Clip(j, rect)
<1>1. req.dst_rect = [x |-> Uint(c.l), y |-> Uint(c.t),
                      w |-> Uint(c.r - c.l), h |-> Uint(c.b - c.t)]
  BY DEF Request, set_rects, Clip
<1>2. /\ c.l \in Ints /\ c.t \in Ints /\ c.r \in Ints /\ c.b \in Ints
      /\ c.l >= 0 /\ c.t >= 0
  BY ClipWithin DEF Rects
<1>3. /\ j.dst.w \in Nat /\ j.dst.w <= MaxDimension
      /\ j.dst.h \in Nat /\ j.dst.h <= MaxDimension
  BY SidesInBounds, CopybitAssumption
<1> HIDE DEF c
<1>4. /\ Uint(c.r - c.l) > 0 /\ Uint(c.l) + Uint(c.r - c.l) <= j.dst.w
      /\ Uint(c.b - c.t) > 0 /\ Uint(c.t) + Uint(c.b - c.t) <= j.dst.h
  BY <1>1 DEF Inside
<1>5. c.l < c.r /\ Uint(c.l) = c.l /\ Uint(c.r - c.l) = c.r - c.l
  BY <1>2, <1>3, <1>4, LengthIsTrue
<1>6. c.t < c.b /\ Uint(c.t) = c.t /\ Uint(c.b - c.t) = c.b - c.t
  BY <1>2, <1>3, <1>4, LengthIsTrue
<1> QED
  BY <1>1, <1>5, <1>6 DEF c

\* So its pixels are those of the rectangle that were asked for.
LEMMA DrawsTheArea ==
    ASSUME NEW j \in Requestable, ~Refused(j), NEW rect \in Rects,
           NEW req, req = Request(j, intersect(Whole(j.dst), rect)),
           Inside(req.dst_rect, j.dst)
    PROVE  Pixels(req.dst_rect)
               = Area(rect) \cap Area(Whole(j.dst)) \cap Area(j.dst_rect)
<1> DEFINE c == Clip(j, rect)
<1>1. /\ c.l \in Int /\ c.t \in Int /\ c.r \in Int /\ c.b \in Int
  BY ClipWithin, EdgesAreInts
<1>2. req.dst_rect = [x |-> c.l, y |-> c.t, w |-> c.r - c.l, h |-> c.b - c.t]
  BY DrawsTheClip
<1>3. Area(c) = Area(rect) \cap Area(Whole(j.dst)) \cap Area(j.dst_rect)
  BY ClipWithin
<1> HIDE DEF c
<1>4. c.l + (c.r - c.l) - 1 = c.r - 1 /\ c.t + (c.b - c.t) - 1 = c.b - 1
  BY <1>1
<1> QED
  BY <1>2, <1>3, <1>4 DEF Pixels, Area

\* A length that is scaled by no less than one stays a length.
LEMMA ScalesToLength ==
    ASSUME NEW a \in Nat, NEW mul \in Nat, NEW div \in Nat,
           0 < a, a <= div, div <= mul, mul <= MaxDimension
    PROVE  MULDIV(a, mul, div) > 0
<1>1. /\ MaxDimension \in Nat /\ Modulus \in Nat /\ 2 * MaxDimension < Modulus
      /\ MaxDimension * MaxDimension < Modulus
  BY CopybitAssumption
<1>2. Uint(a) = a /\ Uint(div) = div
  BY <1>1, UintKeeps
<1>3. CASE mul = div
  BY <1>2, <1>3 DEF MULDIV
<1>4. CASE mul # div
  <2>1. mul * a \in Nat /\ mul <= mul * a /\ div <= mul * a
    BY <1>1
  <2>2. mul * a <= mul * MaxDimension /\ mul * MaxDimension \in Nat
    BY <1>1
  <2>3. mul * MaxDimension <= MaxDimension * MaxDimension
    BY <1>1
  <2>4. mul * a \in 0 .. Modulus - 1
    BY <1>1, <2>1, <2>2, <2>3
  <2>5. MULDIV(a, mul, div) = (mul * a) \div div
    BY <1>2, <1>4, <2>4, UintKeeps DEF MULDIV
  <2>6. \A x \in Nat : div <= x => x \div div > 0
    OBVIOUS
  <2> QED
    BY <2>1, <2>5, <2>6
<1> QED
  BY <1>3, <1>4

\* What the request of a clip of some pixels asks of the driver, unless the
\* stretch magnifies.
LEMMA SomethingIsSomething ==
    ASSUME job \in Requestable, ~Refused(job), ~Magnified, NEW rect \in Rects,
           NEW req, req = Request(job, intersect(Whole(job.dst), rect)),
           Clip(job, rect).l < Clip(job, rect).r,
           Clip(job, rect).t < Clip(job, rect).b
    PROVE  ~Nothing(req)
<1> DEFINE c == Clip(job, rect)
           d == job.dst_rect
           s == job.src_rect
           width == s.r - s.l
           height == s.b - s.t
<1>1. /\ c.l \in Ints /\ c.t \in Ints /\ c.r \in Ints /\ c.b \in Ints
      /\ c.l >= 0 /\ c.t >= 0 /\ c.l >= d.l /\ c.r <= d.r /\ c.t >= d.t /\ c.b <= d.b
      /\ c.l < c.r /\ c.t < c.b
  BY ClipWithin DEF Rects
<1>2. Ints \subseteq Int /\ \A i \in Ints : i < Modulus
  BY CopybitAssumption DEF Ints
<1>3. /\ d.l \in Int /\ d.r \in Int /\ d.t \in Int /\ d.b \in Int
      /\ s.l \in Int /\ s.r \in Int /\ s.t \in Int /\ s.b \in Int
  BY <1>2 DEF Requestable, Rects
<1>4. width <= MaxDimension /\ height <= MaxDimension /\ MaxDimension \in Nat
  <2>1. /\ job.src.w \in 0 .. MaxDimension /\ job.src.h \in 0 .. MaxDimension
        /\ s.l >= 0 /\ s.r <= job.src.w /\ s.t >= 0 /\ s.b <= job.src.h
        /\ MaxDimension \in Nat
    BY SidesInBounds, CopybitAssumption
  <2> QED
    BY <2>1, <1>3
<1>5. IF Rot90 \in mFlags
      THEN d.b - d.t <= width /\ d.r - d.l <= height
      ELSE d.r - d.l <= width /\ d.b - d.t <= height
  BY <1>3 DEF Magnified
<1>6. /\ req.dst_rect.w = Uint(c.r - c.l) /\ req.dst_rect.h = Uint(c.b - c.t)
      /\ Rot90 \in mFlags =>
           /\ req.src_rect.w = MULDIV(c.b - c.t, width, d.b - d.t)
           /\ req.src_rect.h = MULDIV(c.r - c.l, height, d.r - d.l)
      /\ Rot90 \notin mFlags =>
           /\ req.src_rect.w = MULDIV(c.r - c.l, width, d.r - d.l)
           /\ req.src_rect.h = MULDIV(c.b - c.t, height, d.b - d.t)
  BY DEF Request, set_rects, Clip, Flipped, Scaled, Turned, Upright
<1> HIDE DEF c, d, s
<1>7. /\ c.r - c.l \in Nat /\ c.r - c.l > 0 /\ c.r - c.l <= d.r - d.l
      /\ c.b - c.t \in Nat /\ c.b - c.t > 0 /\ c.b - c.t <= d.b - d.t
      /\ c.r - c.l \in 0 .. Modulus - 1 /\ c.b - c.t \in 0 .. Modulus - 1
      /\ d.r - d.l \in Nat /\ d.b - d.t \in Nat
  <2>1. /\ c.l \in Int /\ c.t \in Int /\ c.r \in Int /\ c.b \in Int
        /\ c.r < Modulus /\ c.b < Modulus /\ Modulus \in Nat
    BY <1>1, <1>2, CopybitAssumption
  <2> QED
    BY <2>1, <1>1, <1>3
<1>8. req.dst_rect.w > 0 /\ req.dst_rect.h > 0
  BY <1>6, <1>7, UintKeeps
<1>9. req.src_rect.w > 0 /\ req.src_rect.h > 0
  <2>1. width \in Int /\ height \in Int
    BY <1>3
  <2> HIDE DEF width, height
  <2>2. CASE Rot90 \in mFlags
    <3>1. width \in Nat /\ height \in Nat /\ d.b - d.t <= width /\ d.r - d.l <= height
      BY <1>5, <1>7, <2>1, <2>2
    <3> QED
      BY <1>4, <1>6, <1>7, <2>2, <3>1, ScalesToLength
  <2>3. CASE Rot90 \notin mFlags
    <3>1. width \in Nat /\ height \in Nat /\ d.r - d.l <= width /\ d.b - d.t <= height
      BY <1>5, <1>7, <2>1, <2>3
    <3> QED
      BY <1>4, <1>6, <1>7, <2>3, <3>1, ScalesToLength
  <2> QED
    BY <2>2, <2>3
<1> QED
  BY <1>8, <1>9 DEF Nothing, Empty

\* A request of the stretch, and the rectangle it belongs to.
LEMMA PlannedRequest ==
    ASSUME CopybitInv, stage # "idle", NEW a \in 1 .. next
    PROVE  /\ a \in DOMAIN region /\ region[a] \in Rects
           /\ Plan[a] = Request(job, intersect(Whole(job.dst), region[a]))
  BY DEF CopybitInv, StretchTypes, Plan, Clipped

LEMMA InvCovers == CopybitInv => Covered
<1> SUFFICES ASSUME CopybitInv, Done
             PROVE  /\ \A i, k \in DOMAIN drawn : i # k =>
                         Pixels(drawn[i].dst_rect) \cap Pixels(drawn[k].dst_rect) = {}
                    /\ UNION {Pixels(drawn[i].dst_rect) : i \in DOMAIN drawn}
                          \subseteq Asked
                    /\ ~Magnified => Asked \subseteq
                          UNION {Pixels(drawn[i].dst_rect) : i \in DOMAIN drawn}
  BY DEF Covered
<1>1. /\ stage = "done" /\ status = "ok" /\ next = Len(region)
      /\ job \in Requestable /\ ~Refused(job)
      /\ Follows(drawn, Plan, next)
      /\ \A i \in DOMAIN drawn : Runs(drawn[i])
      /\ DOMAIN region = 1 .. next
  BY DEF CopybitInv, Done, StretchTypes, Accepted, Sent
<1>2. ASSUME NEW i \in DOMAIN drawn, NEW a \in 1 .. next, drawn[i] = Plan[a]
      PROVE  Pixels(drawn[i].dst_rect)
                 = Area(region[a]) \cap Area(Whole(job.dst)) \cap Area(job.dst_rect)
  <2>1. Inside(drawn[i].dst_rect, job.dst)
    BY <1>1 DEF Runs
  <2>2. /\ region[a] \in Rects
        /\ drawn[i] = Request(job, intersect(Whole(job.dst), region[a]))
    BY <1>1, <1>2, PlannedRequest
  <2> QED
    BY <1>1, <2>1, <2>2, DrawsTheArea
<1>6. \A p : p \in Asked <=> /\ \E a \in 1 .. next : p \in Area(region[a])
                             /\ p \in Area(Whole(job.dst)) /\ p \in Area(job.dst_rect)
  <2> DEFINE all == UNION {Area(region[i]) : i \in DOMAIN region}
  <2>1. \A p : p \in all <=> \E a \in DOMAIN region : p \in Area(region[a])
    OBVIOUS
  <2>2. Asked = all \cap Area(Whole(job.dst)) \cap Area(job.dst_rect)
    BY DEF Asked
  <2> HIDE DEF all
  <2> QED
    BY <2>1, <2>2, <1>1
<1>3. ASSUME NEW i \in DOMAIN drawn, NEW k \in DOMAIN drawn, i # k
      PROVE  Pixels(drawn[i].dst_rect) \cap Pixels(drawn[k].dst_rect) = {}
  <2>1. PICK a, b \in 1 .. next : a # b /\ drawn[i] = Plan[a] /\ drawn[k] = Plan[b]
    BY <1>1, <1>3 DEF Follows, NoneTwice
  <2>2. Area(region[a]) \cap Area(region[b]) = {}
    BY <2>1, <1>1 DEF CopybitInv, Apart
  <2>3. /\ Pixels(drawn[i].dst_rect) \subseteq Area(region[a])
        /\ Pixels(drawn[k].dst_rect) \subseteq Area(region[b])
    BY <2>1, <1>2
  <2> QED
    BY <2>2, <2>3
<1>4. ASSUME NEW i \in DOMAIN drawn PROVE Pixels(drawn[i].dst_rect) \subseteq Asked
  <2>1. PICK a \in 1 .. next : drawn[i] = Plan[a]
    BY <1>1 DEF Follows, AllReturned
  <2> QED
    BY <2>1, <1>2, <1>6
<1>5. ASSUME ~Magnified, NEW p \in Asked
      PROVE  \E i \in DOMAIN drawn : p \in Pixels(drawn[i].dst_rect)
  <2>1. PICK a \in 1 .. next : p \in Area(region[a])
    BY <1>5, <1>6
  <2>2. p \in Area(region[a]) \cap Area(Whole(job.dst)) \cap Area(job.dst_rect)
    BY <2>1, <1>5, <1>6
  <2>3. /\ region[a] \in Rects
        /\ Plan[a] = Request(job, intersect(Whole(job.dst), region[a]))
    BY <1>1, PlannedRequest
  <2> DEFINE c == Clip(job, region[a])
  <2>4. p \in Area(c)
    BY <1>1, <2>2, <2>3, ClipWithin
  <2>5. c.l \in Int /\ c.r \in Int /\ c.t \in Int /\ c.b \in Int
    <3>1. c \in Rects
      BY <1>1, <2>3, ClipWithin
    <3> HIDE DEF c
    <3> QED
      BY <3>1, EdgesAreInts
  <2>6. c.l < c.r /\ c.t < c.b
    <3> HIDE DEF c
    <3> QED
      BY <2>4, <2>5 DEF Area
  <2>7. ~Nothing(Plan[a])
    BY <1>1, <1>5, <2>3, <2>6, SomethingIsSomething
  <2>8. PICK i \in DOMAIN drawn : drawn[i] = Plan[a]
    BY <1>1, <2>7 DEF Follows, NoneLeft
  <2> QED
    BY <2>2, <2>8, <1>2
<1> QED
  BY <1>3, <1>4, <1>5

\* A stretch that returns success has drawn what was asked for, once, and
\* nothing else: for any region, any transform, any length of the lists.
THEOREM AlwaysCovered == CopybitSpec => []Covered
  BY CopybitInvariance, InvCovers, PTL

-----------------------------------------------------------------------------

\* The fields of the whole source, which an unscaled stretch does not multiply.
LEMMA UnscaledKeeps ==
    ASSUME NEW i \in 0 .. Modulus - 1, NEW mul PROVE MULDIV(i, mul, mul) = i
  BY UintKeeps DEF MULDIV

\* The first of a request's source columns, or rows, when the image is flipped.
FlipOf(flipped, side, from, length) ==
    IF flipped THEN side - (from + length) ELSE from

\* The source of a clip of an unscaled whole image: as far from its edges as
\* the clip is from those of the destination that they come to.
LEMMA SourceOfClip ==
    ASSUME job \in Requestable, ~Refused(job), NEW rect \in Rects,
           NEW req, req = Request(job, intersect(Whole(job.dst), rect)), Runs(req),
           job.src_rect = Whole(job.src), Unscaled(req),
           NEW x, NEW y, NEW w, NEW h,
           IF Rot90 \in mFlags
           THEN /\ x = Clip(job, rect).t - job.dst_rect.t
                /\ y = job.dst_rect.r - Clip(job, rect).r
                /\ w = Clip(job, rect).b - Clip(job, rect).t
                /\ h = Clip(job, rect).r - Clip(job, rect).l
           ELSE /\ x = Clip(job, rect).l - job.dst_rect.l
                /\ y = Clip(job, rect).t - job.dst_rect.t
                /\ w = Clip(job, rect).r - Clip(job, rect).l
                /\ h = Clip(job, rect).b - Clip(job, rect).t
    PROVE  /\ x \in Nat /\ y \in Nat /\ w \in Nat /\ h \in Nat
           /\ req.src_rect.x = FlipOf(FlipH \in mFlags, job.src.w, x, w)
           /\ req.src_rect.y = FlipOf(FlipV \in mFlags, job.src.h, y, h)
           /\ req.src_rect.w = w /\ req.src_rect.h = h
<1> DEFINE c == Clip(job, rect)
           d == job.dst_rect
           W == job.src.w
           H == job.src.h
<1>1. /\ c.l \in Int /\ c.t \in Int /\ c.r \in Int /\ c.b \in Int
      /\ c.l >= d.l /\ c.r <= d.r /\ c.t >= d.t /\ c.b <= d.b
  BY ClipWithin, EdgesAreInts
<1>2. c.l < c.r /\ c.t < c.b
  BY DrawsTheClip DEF Runs
<1>3. d.l \in Int /\ d.r \in Int /\ d.t \in Int /\ d.b \in Int
  <2>1. d \in Rects
    BY DEF Requestable
  <2> HIDE DEF d
  <2> QED
    BY <2>1, EdgesAreInts
<1>4. W \in 0 .. Modulus - 1 /\ H \in 0 .. Modulus - 1 /\ Modulus \in Nat
  <2>1. /\ W \in 0 .. MaxDimension /\ H \in 0 .. MaxDimension
        /\ MaxDimension \in Nat /\ Modulus \in Nat /\ MaxDimension < Modulus
    BY SidesInBounds, CopybitAssumption
  <2> QED
    BY <2>1
<1>5. /\ req.flags = mFlags
      /\ job.src_rect.l = 0 /\ job.src_rect.t = 0
      /\ job.src_rect.r = W /\ job.src_rect.b = H
  BY DEF Request, Whole
<1>6. IF Rot90 \in mFlags THEN d.b - d.t = W /\ d.r - d.l = H
                         ELSE d.r - d.l = W /\ d.b - d.t = H
  <2>1. Unclipped(req).dst_rect
            = [x |-> d.l, y |-> d.t, w |-> d.r - d.l, h |-> d.b - d.t]
    BY DEF Unclipped, Request
  <2> QED
    BY <1>5, <2>1 DEF Unscaled
<1> DEFINE from == IF Rot90 \in mFlags THEN Turned(d, job.src_rect, c)
                                      ELSE Upright(d, job.src_rect, c)
           scaled == Scaled(from, job.src_rect)
<1>7. req.src_rect = Flipped(scaled, mFlags, job.src)
  BY DEF Request, set_rects, Clip
<1> HIDE DEF c, d, W, H
<1>8. /\ x \in Nat /\ y \in Nat /\ w \in Nat /\ h \in Nat
      /\ x + w <= W /\ y + h <= H
  <2>1. CASE Rot90 \in mFlags
    BY <2>1, <1>1, <1>2, <1>3, <1>4, <1>6 DEF c, d
  <2>2. CASE Rot90 \notin mFlags
    BY <2>2, <1>1, <1>2, <1>3, <1>4, <1>6 DEF c, d
  <2> QED
    BY <2>1, <2>2
<1>9. /\ from.x = x /\ from.y = y /\ from.w = w /\ from.h = h
      /\ from.W = W /\ from.H = H
  <2>1. CASE Rot90 \in mFlags
    BY <2>1, <1>1, <1>3, <1>5, <1>6 DEF Turned, c, d
  <2>2. CASE Rot90 \notin mFlags
    BY <2>2, <1>1, <1>3, <1>5, <1>6 DEF Upright, c, d
  <2> QED
    BY <2>1, <2>2
<1> HIDE DEF from
<1>10. scaled = [x |-> x, w |-> w, y |-> y, h |-> h]
  <2>1. job.src_rect.r - job.src_rect.l = W /\ job.src_rect.b - job.src_rect.t = H
    BY <1>4, <1>5
  <2>2. /\ x \in 0 .. Modulus - 1 /\ w \in 0 .. Modulus - 1
        /\ y \in 0 .. Modulus - 1 /\ h \in 0 .. Modulus - 1
    BY <1>4, <1>8
  <2> QED
    BY <2>1, <2>2, <1>9, UnscaledKeeps DEF Scaled
<1> HIDE DEF scaled
<1>11. Uint(W - (x + w)) = W - (x + w) /\ Uint(H - (y + h)) = H - (y + h)
  <2>1. W - (x + w) \in 0 .. Modulus - 1 /\ H - (y + h) \in 0 .. Modulus - 1
    BY <1>4, <1>8
  <2> QED
    BY <2>1, UintKeeps
<1>12. /\ req.src_rect.x = FlipOf(FlipH \in mFlags, W, x, w)
       /\ req.src_rect.y = FlipOf(FlipV \in mFlags, H, y, h)
       /\ req.src_rect.w = w /\ req.src_rect.h = h
  BY <1>7, <1>10, <1>11 DEF Flipped, FlipOf, W, H
<1> QED
  BY <1>8, <1>12 DEF W, H

\* A column, or a row, of the source that is shown: counted from the piece's
\* edge or from the image's, it is the same one.
LEMMA SameColumn ==
    ASSUME NEW flip, NEW flags, NEW side \in Int, NEW from \in Int,
           NEW length \in Int, NEW i \in Int
    PROVE  FlipOf(flip \in flags, side, from, length)
                   + (IF flip \in flags THEN length - 1 - i ELSE i)
               = (IF flip \in flags THEN side - 1 - (from + i) ELSE from + i)
<1>1. CASE flip \in flags
  BY <1>1 DEF FlipOf
<1>2. CASE flip \notin flags
  BY <1>2 DEF FlipOf
<1> QED
  BY <1>1, <1>2

\* So each pixel of the piece shows what it would show in one piece.
LEMMA PieceShows ==
    ASSUME job \in Requestable, ~Refused(job), NEW rect \in Rects,
           NEW req, req = Request(job, intersect(Whole(job.dst), rect)), Runs(req),
           job.src_rect = Whole(job.src), Unscaled(req),
           NEW p \in Pixels(req.dst_rect)
    PROVE  Shown(req, p) = Shown(Unclipped(req), p)
<1> DEFINE c == Clip(job, rect)
           d == job.dst_rect
           W == job.src.w
           H == job.src.h
           whole == Unclipped(req)
           turned == Rot90 \in mFlags
<1>1. /\ c.l \in Int /\ c.t \in Int /\ c.r \in Int /\ c.b \in Int
      /\ d.l \in Int /\ d.r \in Int /\ d.t \in Int /\ d.b \in Int
  <2>1. c \in Rects /\ d \in Rects
    BY ClipWithin DEF Requestable
  <2> HIDE DEF c, d
  <2> QED
    BY <2>1, EdgesAreInts
<1>2. W \in Int /\ H \in Int
  BY SidesInBounds, CopybitAssumption
<1>3. /\ req.dst_rect = [x |-> c.l, y |-> c.t, w |-> c.r - c.l, h |-> c.b - c.t]
      /\ req.flags = mFlags
  BY DrawsTheClip DEF Runs, Request
<1>4. /\ whole.dst_rect = [x |-> d.l, y |-> d.t, w |-> d.r - d.l, h |-> d.b - d.t]
      /\ whole.src_rect = [x |-> 0, y |-> 0, w |-> W, h |-> H]
      /\ whole.flags = mFlags
  BY DEF Unclipped, Request
<1>5. p[1] \in Int /\ p[2] \in Int
  <2> HIDE DEF c
  <2> QED
    BY <1>1, <1>3 DEF Pixels
<1> DEFINE x == IF turned THEN c.t - d.t ELSE c.l - d.l
           y == IF turned THEN d.r - c.r ELSE c.t - d.t
           w == IF turned THEN c.b - c.t ELSE c.r - c.l
           h == IF turned THEN c.r - c.l ELSE c.b - c.t
           i == IF turned THEN p[2] - c.t ELSE p[1] - c.l
           k == IF turned THEN c.r - c.l - 1 - (p[1] - c.l) ELSE p[2] - c.t
<1>6. /\ x \in Nat /\ y \in Nat /\ w \in Nat /\ h \in Nat
      /\ req.src_rect.x = FlipOf(FlipH \in mFlags, W, x, w)
      /\ req.src_rect.y = FlipOf(FlipV \in mFlags, H, y, h)
      /\ req.src_rect.w = w /\ req.src_rect.h = h
  <2>1. IF turned
        THEN x = c.t - d.t /\ y = d.r - c.r /\ w = c.b - c.t /\ h = c.r - c.l
        ELSE x = c.l - d.l /\ y = c.t - d.t /\ w = c.r - c.l /\ h = c.b - c.t
    OBVIOUS
  <2> HIDE DEF x, y, w, h
  <2> QED
    BY <2>1, SourceOfClip
<1> HIDE DEF c, d, W, H, whole
<1>7. /\ i \in Int /\ k \in Int
      /\ x + i = IF turned THEN p[2] - d.t ELSE p[1] - d.l
      /\ y + k = IF turned THEN d.r - d.l - 1 - (p[1] - d.l) ELSE p[2] - d.t
  <2>1. CASE turned
    BY <2>1, <1>1, <1>5
  <2>2. CASE ~turned
    BY <2>2, <1>1, <1>5
  <2> QED
    BY <2>1, <2>2
<1>8. Shown(req, p) =
          <<FlipOf(FlipH \in mFlags, W, x, w)
                + (IF FlipH \in mFlags THEN w - 1 - i ELSE i),
            FlipOf(FlipV \in mFlags, H, y, h)
                + (IF FlipV \in mFlags THEN h - 1 - k ELSE k)>>
  <2> HIDE DEF x, y, w, h
  <2>1. CASE turned
    BY <2>1, <1>3, <1>6 DEF Shown
  <2>2. CASE ~turned
    BY <2>2, <1>3, <1>6 DEF Shown
  <2> QED
    BY <2>1, <2>2
<1>9. Shown(whole, p) =
          <<IF FlipH \in mFlags THEN W - 1 - (x + i) ELSE x + i,
            IF FlipV \in mFlags THEN H - 1 - (y + k) ELSE y + k>>
  <2> HIDE DEF x, y, i, k
  <2>1. x + i \in Int /\ y + k \in Int
    BY <1>6, <1>7
  <2>2. CASE turned
    BY <2>1, <2>2, <1>2, <1>4, <1>7 DEF Shown
  <2>3. CASE ~turned
    BY <2>1, <2>3, <1>2, <1>4, <1>7 DEF Shown
  <2> QED
    BY <2>2, <2>3
<1> HIDE DEF x, y, w, h, i, k
<1>10. /\ FlipOf(FlipH \in mFlags, W, x, w)
               + (IF FlipH \in mFlags THEN w - 1 - i ELSE i)
             = (IF FlipH \in mFlags THEN W - 1 - (x + i) ELSE x + i)
       /\ FlipOf(FlipV \in mFlags, H, y, h)
               + (IF FlipV \in mFlags THEN h - 1 - k ELSE k)
             = (IF FlipV \in mFlags THEN H - 1 - (y + k) ELSE y + k)
  BY <1>2, <1>6, <1>7, SameColumn
<1> QED
  BY <1>8, <1>9, <1>10 DEF whole

\* The requests of a stretch were made for its rectangles, and it was accepted.
LEMMA RequestsArePlanned ==
    ASSUME CopybitInv, NEW req \in Requests
    PROVE  /\ job \in Requestable /\ ~Refused(job)
           /\ \E rect \in Rects : req = Request(job, intersect(Whole(job.dst), rect))
<1>1. drawn \in Seq(Planned) /\ list \in Seq(Planned) /\ region \in Seq(Rects)
  BY DEF CopybitInv, StretchTypes
<1>2. req \in Planned /\ (drawn # <<>> \/ list # <<>>)
  BY <1>1 DEF Requests
<1>3. stage # "idle" /\ status # "EINVAL"
  BY <1>2 DEF CopybitInv, Accepted
<1>4. PICK a \in DOMAIN region : req = Plan[a]
  BY <1>2 DEF Planned
<1>5. /\ region[a] \in Rects
      /\ req = Request(job, intersect(Whole(job.dst), region[a]))
  BY <1>1, <1>4 DEF Plan, Clipped
<1> QED
  BY <1>3, <1>5 DEF CopybitInv, StretchTypes, Accepted

LEMMA InvIsExact == CopybitInv => ClipExact
<1> SUFFICES ASSUME CopybitInv, NEW req \in Requests,
                    job.src_rect = Whole(job.src), Unscaled(req), Runs(req),
                    NEW p \in Pixels(req.dst_rect)
             PROVE  Shown(req, p) = Shown(Unclipped(req), p)
  BY DEF ClipExact
<1>1. /\ job \in Requestable /\ ~Refused(job)
      /\ \E rect \in Rects : req = Request(job, intersect(Whole(job.dst), rect))
  BY RequestsArePlanned
<1> QED
  BY <1>1, PieceShows

\* However a stretch of a whole image is cut into rectangles, flipped or
\* turned, each piece shows at each pixel what the stretch would in one piece.
THEOREM AlwaysClipExact == CopybitSpec => []ClipExact
  BY CopybitInvariance, InvIsExact, PTL
==============================================================================
