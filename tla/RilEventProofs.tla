--------------------------- MODULE RilEventProofs ---------------------------
(***************************************************************************)
(* Proofs about RilEvent, for any timers, descriptors, threads, delays and *)
(* sizes of the watch table: timers fire in the order of their times, and  *)
(* select sleeps past nothing.                                             *)
(*                                                                         *)
(* The argument: the timer list is sorted and names allocated timers only; *)
(* what processTimeouts moves to pending_list is due before what it leaves *)
(* and before what is armed later; the pointer firePending keeps is the    *)
(* head of pending_list or known to be stale; and whoever changes what the *)
(* loop has read on its way to select writes to the wakeup pipe.           *)
(***************************************************************************)
EXTENDS RilEvent, FiniteSetTheorems, SequenceTheorems, WellFoundedInduction,
        TLAPS

\* t is in neither list; and no timer that is in one is due before it.
Unlinked(t) == /\ \A i \in DOMAIN timer_list : timer_list[i] # t
               /\ \A i \in DOMAIN pending_list : pending_list[i] # t
FirstOfAll(t) ==
    /\ \A i \in DOMAIN timer_list : timeout[t] <= timeout[timer_list[i]]
    /\ \A i \in DOMAIN pending_list : pending_list[i] \in Timers
          => timeout[t] <= timeout[pending_list[i]]

\* The timer list is in the order of the times, no timer is in it twice.
TimersOK ==
    /\ \A i \in DOMAIN timer_list : timer_list[i] \in live
    /\ \A i, j \in DOMAIN timer_list : i < j =>
          /\ timer_list[i] # timer_list[j]
          /\ timeout[timer_list[i]] <= timeout[timer_list[j]]

\* So are the timers of pending_list, which are due, and none of them is in the
\* timer list, or due after one that is.
PendingOK ==
    /\ \A i \in DOMAIN pending_list : pending_list[i] \in Timers =>
          /\ pending_list[i] \in live
          /\ timeout[pending_list[i]] < now
          /\ \A k \in DOMAIN timer_list :
                /\ timer_list[k] # pending_list[i]
                /\ timeout[pending_list[i]] <= timeout[timer_list[k]]
    /\ \A i, j \in DOMAIN pending_list :
          i < j /\ pending_list[i] \in Timers /\ pending_list[j] \in Timers =>
             /\ pending_list[i] # pending_list[j]
             /\ timeout[pending_list[i]] <= timeout[pending_list[j]]

\* The timer that firePending has unlinked and calls.
InHand(t) == /\ t \in live /\ timeout[t] < now
             /\ Unlinked(t) /\ FirstOfAll(t)
InHandOK == /\ loop = "free" => ev \in Timers
            /\ loop \in {"call", "free"} /\ ev \in Timers => InHand(ev)

\* p is where the pending list begins, unless that event was freed.
HeadOfPending(p) == \/ p = Freed
                    \/ p = Sentinel /\ pending_list = <<>>
                    \/ pending_list # <<>> /\ p = pending_list[1]

\* firePending leaves nothing behind, and the pointer it keeps is the head.
WalkOK == /\ loop \in {"prepare", "calc", "select", "timeouts"} =>
                pending_list = <<>>
          /\ loop = "take" => HeadOfPending(ev)
          /\ loop \in {"call", "free"} => HeadOfPending(next)

\* nfds is above every watched descriptor.
WatchOK == \A w \in readFds : w < nfds

\* What was copied and read on the way to select is still so, or the loop will
\* be woken up.
CalcOK == loop = "calc" =>
    \/ Awoken
    \/ /\ rfds = readFds
       /\ \/ ev = Freed
          \/ ev = Sentinel /\ timer_list = <<>>
          \/ /\ ev \in Timers
             /\ \A i \in DOMAIN timer_list :
                   timeout[ev] <= timeout[timer_list[i]]

\* The lists and the table; and what the loop knows of them.
Inner == TypeOK /\ TimersOK /\ PendingOK /\ InHandOK /\ WalkOK /\ WatchOK
IInv == Inner /\ CalcOK /\ SelectCovers

-----------------------------------------------------------------------------
(* Numbers and lists *)

\* The order of the natural numbers, as a relation.
Less == {p \in Nat \X Nat : p[1] < p[2]}

LEMMA LessIsWellFounded == IsWellFoundedOn(Less, Nat)
  BY NatLessThanWellFounded DEF OpToRel, Less

\* A set of natural numbers that is not empty has a least element.
LEMMA MinIsLeast ==
    ASSUME NEW S \in SUBSET Nat, S # {}
    PROVE  Min(S) \in S /\ \A n \in S : Min(S) <= n
  <1>1. \E m \in S : \A n \in S : <<n, m>> \notin Less
    BY LessIsWellFounded, WFMin, Zenon
  <1>2. PICK m \in S : \A n \in S : <<n, m>> \notin Less BY <1>1
  <1>3. \A n \in S : ~(n < m) BY <1>2 DEF Less
  <1>4. \A n \in S : m <= n BY <1>3
  <1>5. QED BY <1>4 DEF Min

\* A set of natural numbers with a bound has a greatest element.
LEMMA MaxIsGreatest ==
    ASSUME NEW S \in SUBSET Nat, S # {}, NEW b \in Nat, \A n \in S : n <= b
    PROVE  Max(S) \in S /\ \A n \in S : n <= Max(S)
  <1> DEFINE D == {b - n : n \in S}
  <1>1. D \in SUBSET Nat /\ D # {} OBVIOUS
  <1>2. Min(D) \in D /\ \A d \in D : Min(D) <= d
    BY <1>1, MinIsLeast
  <1>3. PICK m \in S : Min(D) = b - m BY <1>2
  <1>4. \A n \in S : n <= m
    <2> TAKE n \in S
    <2>1. b - m <= b - n BY <1>2, <1>3
    <2>2. QED BY <2>1
  <1>5. QED BY <1>4 DEF Max

\* The first index that is among the chosen ones, or the one behind the end.
LEMMA FirstIndex ==
    ASSUME NEW n \in Nat, NEW I \in SUBSET (1..n)
    PROVE  LET m == Min({n + 1} \cup I)
           IN  /\ m \in 1..(n + 1)
               /\ m <= n => m \in I
               /\ \A i \in I : m <= i
  <1> DEFINE T == {n + 1} \cup I
             m == Min(T)
  <1>1. T \in SUBSET Nat /\ T # {} OBVIOUS
  <1> HIDE DEF T
  <1>2. m \in T /\ \A i \in T : m <= i BY <1>1, MinIsLeast
  <1> HIDE DEF m
  <1>3. m \in 1..(n + 1) /\ (m <= n => m \in I) /\ \A i \in I : m <= i
    BY <1>2 DEF T
  <1>4. QED BY <1>3 DEF m, T

\* Where the elements of a list are after an insertion.
LEMMA Inserted ==
    ASSUME NEW S, NEW s \in Seq(S), NEW p \in 1..(Len(s) + 1), NEW e \in S
    PROVE  /\ InsertAt(s, p, e) \in Seq(S)
           /\ Len(InsertAt(s, p, e)) = Len(s) + 1
           /\ \A i \in 1..(Len(s) + 1) :
                 InsertAt(s, p, e)[i] = IF i < p THEN s[i]
                                        ELSE IF i = p THEN e ELSE s[i - 1]
  <1> DEFINE a == SubSeq(s, 1, p - 1)
             b == SubSeq(s, p, Len(s))
  <1>1. /\ a \in Seq(S) /\ Len(a) = p - 1
        /\ \A i \in 1..(p - 1) : a[i] = s[i]
    BY SubSeqProperties, LenProperties
  <1>2. /\ b \in Seq(S) /\ Len(b) = Len(s) - p + 1
        /\ \A i \in 1..(Len(s) - p + 1) : b[i] = s[p + i - 1]
    BY SubSeqProperties, LenProperties
  <1>3. <<e>> \in Seq(S) /\ Len(<<e>>) = 1 /\ <<e>>[1] = e
    OBVIOUS
  <1> HIDE DEF a, b
  <1>4. /\ a \o <<e>> \in Seq(S) /\ Len(a \o <<e>>) = p
        /\ \A i \in 1..p : (a \o <<e>>)[i] = IF i < p THEN s[i] ELSE e
    BY <1>1, <1>3, ConcatProperties
  <1>5. /\ (a \o <<e>>) \o b \in Seq(S)
        /\ Len((a \o <<e>>) \o b) = Len(s) + 1
        /\ \A i \in 1..(Len(s) + 1) :
              ((a \o <<e>>) \o b)[i] = IF i < p THEN s[i]
                                       ELSE IF i = p THEN e ELSE s[i - 1]
    BY <1>2, <1>4, ConcatProperties, LenProperties
  <1>6. QED BY <1>5 DEF InsertAt, a, b

\* s is r without some of its elements.
Sublist(s, r) ==
    \E f \in [DOMAIN s -> DOMAIN r] :
        /\ \A i, j \in DOMAIN s : i < j => f[i] < f[j]
        /\ \A i \in DOMAIN s : s[i] = r[f[i]]

LEMMA Itself == ASSUME NEW S, NEW s \in Seq(S) PROVE Sublist(s, s)
  <1> DEFINE f == [i \in DOMAIN s |-> i]
  <1>1. f \in [DOMAIN s -> DOMAIN s] OBVIOUS
  <1>2. QED BY <1>1 DEF Sublist

\* removeFromList unlinks the event wherever it is.
LEMMA Unlinks ==
    ASSUME NEW S, NEW s \in Seq(S), NEW t,
           \A i, j \in DOMAIN s : i # j => s[i] # s[j] \/ s[i] # t
    PROVE  /\ Without(s, t) \in Seq(S)
           /\ Sublist(Without(s, t), s)
           /\ \A i \in DOMAIN Without(s, t) : Without(s, t)[i] # t
           /\ t \notin ToSet(s) => Without(s, t) = s
           /\ s # <<>> /\ s[1] # t => /\ Without(s, t) # <<>>
                                      /\ Without(s, t)[1] = s[1]
  <1>1. CASE t \notin ToSet(s)
    BY <1>1, Itself DEF Without, ToSet
  <1>2. CASE t \in ToSet(s)
    <2> DEFINE k == CHOOSE i \in DOMAIN s : s[i] = t
               r == Without(s, t)
               f == [i \in DOMAIN r |-> IF i < k THEN i ELSE i + 1]
    <2>1. k \in DOMAIN s /\ s[k] = t BY <1>2 DEF ToSet
    <2>2. r = SubSeq(s, 1, k - 1) \o SubSeq(s, k + 1, Len(s))
      BY <1>2 DEF Without, RemoveAt
    <2>3. Len(s) \in Nat /\ DOMAIN s = 1..Len(s) /\ s \in [1..Len(s) -> S]
      BY LenProperties
    <2> HIDE DEF k, r
    <2>4. /\ SubSeq(s, 1, k - 1) \in Seq(S)
          /\ Len(SubSeq(s, 1, k - 1)) = k - 1
          /\ \A i \in 1..(k - 1) : SubSeq(s, 1, k - 1)[i] = s[i]
      BY <2>1, <2>3, SubSeqProperties
    <2>5. /\ SubSeq(s, k + 1, Len(s)) \in Seq(S)
          /\ Len(SubSeq(s, k + 1, Len(s))) = Len(s) - k
          /\ \A i \in 1..(Len(s) - k) :
                SubSeq(s, k + 1, Len(s))[i] = s[k + i]
      <3>1. /\ k + 1 \in Int /\ Len(s) \in Int
            /\ \A i \in (k + 1)..Len(s) : s[i] \in S
        BY <2>1, <2>3
      <3>2. /\ Len(s) - (k + 1) + 1 = Len(s) - k
            /\ (IF k + 1 <= Len(s) THEN Len(s) - (k + 1) + 1 ELSE 0)
                  = Len(s) - k
        BY <2>1, <2>3
      <3>3. /\ SubSeq(s, k + 1, Len(s)) \in Seq(S)
            /\ Len(SubSeq(s, k + 1, Len(s))) = Len(s) - k
            /\ \A i \in 1..(Len(s) - k) :
                  SubSeq(s, k + 1, Len(s))[i] = s[k + 1 + i - 1]
        BY <3>1, <3>2, SubSeqProperties
      <3>4. \A i \in 1..(Len(s) - k) : k + 1 + i - 1 = k + i
        BY <2>1, <2>3
      <3>5. QED BY <3>3, <3>4
    <2>6. /\ r \in Seq(S) /\ Len(r) = Len(s) - 1
          /\ \A i \in 1..(Len(s) - 1) :
                r[i] = IF i < k THEN s[i] ELSE s[i + 1]
      <3> DEFINE a == SubSeq(s, 1, k - 1)
                 b == SubSeq(s, k + 1, Len(s))
      <3>1. /\ a \in Seq(S) /\ Len(a) = k - 1
            /\ \A i \in 1..(k - 1) : a[i] = s[i]
        BY <2>4
      <3>2. /\ b \in Seq(S) /\ Len(b) = Len(s) - k
            /\ \A i \in 1..(Len(s) - k) : b[i] = s[k + i]
        BY <2>5
      <3>3. r = a \o b BY <2>2
      <3> HIDE DEF a, b
      <3>4. /\ a \o b \in Seq(S) /\ Len(a \o b) = Len(a) + Len(b)
            /\ \A i \in 1..(Len(a) + Len(b)) :
                  (a \o b)[i] = IF i <= Len(a) THEN a[i] ELSE b[i - Len(a)]
        BY <3>1, <3>2, ConcatProperties
      <3>5. Len(a) + Len(b) = Len(s) - 1 BY <2>1, <2>3, <3>1, <3>2
      <3>6. ASSUME NEW i \in 1..(Len(s) - 1)
            PROVE  (a \o b)[i] = IF i < k THEN s[i] ELSE s[i + 1]
        <4>1. CASE i < k
          BY <2>1, <2>3, <3>1, <3>2, <3>4, <3>5, <4>1
        <4>2. CASE ~(i < k)
          <5>1. i - (k - 1) \in 1..(Len(s) - k) /\ k + (i - (k - 1)) = i + 1
            BY <2>1, <2>3, <4>2
          <5>2. (a \o b)[i] = b[i - (k - 1)]
            BY <2>1, <2>3, <3>1, <3>4, <3>5, <4>2
          <5>3. QED BY <3>2, <4>2, <5>1, <5>2
        <4>3. QED BY <4>1, <4>2
      <3>7. QED BY <3>3, <3>4, <3>5, <3>6
    <2>7. DOMAIN r = 1..(Len(s) - 1) BY <2>6, LenProperties
    <2>8. /\ f \in [DOMAIN r -> DOMAIN s]
          /\ \A i, j \in DOMAIN r : i < j => f[i] < f[j]
          /\ \A i \in DOMAIN r : r[i] = s[f[i]] /\ f[i] # k
      BY <2>1, <2>3, <2>6, <2>7
    <2>9. Sublist(r, s) BY <2>8 DEF Sublist
    <2>10. \A i \in DOMAIN r : r[i] # t BY <2>1, <2>8
    <2>11. s # <<>> /\ s[1] # t => r # <<>> /\ r[1] = s[1]
      <3> SUFFICES ASSUME s # <<>>, s[1] # t PROVE r # <<>> /\ r[1] = s[1]
        OBVIOUS
      <3>1. k # 1 /\ 1 \in DOMAIN r BY <2>1, <2>3, <2>7
      <3>2. QED BY <2>1, <2>3, <2>6, <2>7, <3>1
    <2>12. QED BY <1>2, <2>6, <2>9, <2>10, <2>11 DEF r
  <1>3. QED BY <1>1, <1>2

-----------------------------------------------------------------------------
(* The lists of timers *)

\* Where the lists get shorter, and the timers that stay keep their times, what
\* holds of them still does.
StillThere == /\ Sublist(timer_list', timer_list)
              /\ Sublist(pending_list', pending_list)
              /\ \A t \in live : ~Unlinked(t)' =>
                    t \in live' /\ timeout'[t] = timeout[t]
              /\ now <= now'

LEMMA Shorter ==
    ASSUME TypeOK, TypeOK', TimersOK, PendingOK, StillThere
    PROVE  TimersOK' /\ PendingOK'
  <1>1. PICK f \in [DOMAIN timer_list' -> DOMAIN timer_list] :
          /\ \A i, j \in DOMAIN timer_list' : i < j => f[i] < f[j]
          /\ \A i \in DOMAIN timer_list' : timer_list'[i] = timer_list[f[i]]
    BY DEF StillThere, Sublist
  <1>2. PICK g \in [DOMAIN pending_list' -> DOMAIN pending_list] :
          /\ \A i, j \in DOMAIN pending_list' : i < j => g[i] < g[j]
          /\ \A i \in DOMAIN pending_list' :
                pending_list'[i] = pending_list[g[i]]
    BY DEF StillThere, Sublist
  <1>3. \A i \in DOMAIN timer_list' :
           /\ timer_list'[i] \in live'
           /\ timeout'[timer_list'[i]] = timeout[timer_list[f[i]]]
    BY <1>1 DEF StillThere, Unlinked, TimersOK
  <1>4. \A i \in DOMAIN pending_list' : pending_list'[i] \in Timers =>
           /\ pending_list'[i] \in live'
           /\ timeout'[pending_list'[i]] = timeout[pending_list[g[i]]]
    BY <1>2 DEF StillThere, Unlinked, PendingOK
  <1>5. TimersOK' BY <1>1, <1>3 DEF TimersOK
  <1>6. \A i \in DOMAIN pending_list' : pending_list'[i] \in Timers =>
           timeout'[pending_list'[i]] < now'
    <2> SUFFICES ASSUME NEW i \in DOMAIN pending_list',
                        pending_list'[i] \in Timers
                 PROVE  timeout'[pending_list'[i]] < now'
      OBVIOUS
    <2>1. timeout'[pending_list'[i]] < now BY <1>2, <1>4 DEF PendingOK
    <2>2. /\ timeout'[pending_list'[i]] \in 0..MaxTime
          /\ now \in 0..MaxTime /\ now' \in 0..MaxTime
      BY DEF TypeOK
    <2>3. QED BY <2>1, <2>2, EventAssumption DEF StillThere
  <1>7. PendingOK' BY <1>1, <1>2, <1>3, <1>4, <1>6 DEF PendingOK
  <1>8. QED BY <1>5, <1>7

LEMMA InHandShorter ==
    ASSUME TypeOK, TypeOK', TimersOK, PendingOK, StillThere,
           NEW t \in Timers, InHand(t), t \in live', timeout'[t] = timeout[t]
    PROVE  InHand(t)'
  <1>1. PICK f \in [DOMAIN timer_list' -> DOMAIN timer_list] :
          \A i \in DOMAIN timer_list' : timer_list'[i] = timer_list[f[i]]
    BY DEF StillThere, Sublist
  <1>2. PICK g \in [DOMAIN pending_list' -> DOMAIN pending_list] :
          \A i \in DOMAIN pending_list' : pending_list'[i] = pending_list[g[i]]
    BY DEF StillThere, Sublist
  <1>3. \A i \in DOMAIN timer_list' :
           timeout'[timer_list'[i]] = timeout[timer_list[f[i]]]
    BY <1>1 DEF StillThere, Unlinked, TimersOK
  <1>4. \A i \in DOMAIN pending_list' : pending_list'[i] \in Timers =>
           timeout'[pending_list'[i]] = timeout[pending_list[g[i]]]
    BY <1>2 DEF StillThere, Unlinked, PendingOK
  <1>5. Unlinked(t)' BY <1>1, <1>2 DEF InHand, Unlinked
  <1>6. FirstOfAll(t)' BY <1>1, <1>2, <1>3, <1>4 DEF InHand, FirstOfAll
  <1>7. timeout'[t] < now'
    <2>1. /\ timeout[t] \in 0..MaxTime
          /\ now \in 0..MaxTime /\ now' \in 0..MaxTime
      BY DEF TypeOK
    <2>2. QED BY <2>1, EventAssumption DEF InHand, StillThere
  <1>8. QED BY <1>5, <1>6, <1>7 DEF InHand

\* The address of a new timer is not in use.
LEMMA NewIsFree ==
    ASSUME live \subseteq Timers, live # Timers
    PROVE  NewTimer \in Timers /\ NewTimer \notin live
  BY DEF NewTimer

\* ril_timer_add puts the timer where the earlier ones end.
LEMMA Place ==
    ASSUME TypeOK, TimersOK, NEW at \in Nat
    PROVE  /\ PlaceFor(at) \in 1..(Len(timer_list) + 1)
           /\ \A i \in DOMAIN timer_list :
                 /\ i < PlaceFor(at) => timeout[timer_list[i]] < at
                 /\ i >= PlaceFor(at) => timeout[timer_list[i]] >= at
  <1> DEFINE n == Len(timer_list)
             I == {i \in DOMAIN timer_list : timeout[timer_list[i]] >= at}
             m == Min({n + 1} \cup I)
  <1>1. n \in Nat /\ DOMAIN timer_list = 1..n BY LenProperties DEF TypeOK
  <1>2. \A i \in DOMAIN timer_list : timeout[timer_list[i]] \in Nat
    <2> TAKE i \in DOMAIN timer_list
    <2>1. timer_list[i] \in Timers BY DEF TypeOK, TimersOK
    <2>2. QED BY <2>1, EventAssumption DEF TypeOK
  <1>3. I \in SUBSET (1..n) BY <1>1
  <1> HIDE DEF n
  <1>4. m \in 1..(n + 1) /\ (m <= n => m \in I) /\ \A i \in I : m <= i
    BY <1>1, <1>3, FirstIndex
  <1> HIDE DEF m
  <1>5. ASSUME NEW i \in DOMAIN timer_list, i < m
        PROVE  timeout[timer_list[i]] < at
    BY <1>1, <1>2, <1>4, <1>5
  <1>6. ASSUME NEW i \in DOMAIN timer_list, i >= m
        PROVE  timeout[timer_list[i]] >= at
    <2>1. m \in DOMAIN timer_list /\ timeout[timer_list[m]] >= at
      BY <1>1, <1>4, <1>6
    <2>2. timeout[timer_list[m]] <= timeout[timer_list[i]]
      BY <1>1, <1>2, <1>6, <2>1 DEF TimersOK
    <2>3. QED BY <1>2, <2>1, <2>2
  <1>7. PlaceFor(at) = m BY DEF PlaceFor, m, n
  <1>8. QED BY <1>4, <1>5, <1>6, <1>7 DEF n

\* What a new timer changes.
LEMMA Added ==
    ASSUME TypeOK, TimersOK, PendingOK, NEW d \in Delays,
           TimerAdd(NewTimer, d), UNCHANGED <<pending_list, now>>
    PROVE  /\ timer_list' \in Seq(Timers) /\ live' \subseteq Timers
           /\ timeout' \in [Timers -> 0..MaxTime]
           /\ TimersOK' /\ PendingOK'
           /\ \A t \in Timers : InHand(t) => InHand(t)'
  <1> DEFINE x == NewTimer
             at == now + d
             p == PlaceFor(at)
             n == Len(timer_list)
  <1>1. x \in Timers /\ x \notin live BY NewIsFree DEF TypeOK, TimerAdd
  <1>2. n \in Nat /\ DOMAIN timer_list = 1..n BY LenProperties DEF TypeOK
  <1>3. now \in Nat /\ d \in Nat /\ at \in Nat /\ at \in 0..MaxTime
    BY EventAssumption DEF TypeOK, TimerAdd
  <1>4. /\ p \in 1..(n + 1)
        /\ \A i \in 1..n : /\ i < p => timeout[timer_list[i]] < at
                           /\ i >= p => timeout[timer_list[i]] >= at
    BY <1>2, <1>3, Place
  <1>5. /\ live' = live \cup {x}
        /\ timeout' = [timeout EXCEPT ![x] = at]
        /\ timer_list' = InsertAt(timer_list, p, x)
    BY DEF TimerAdd
  <1> HIDE DEF p, x
  <1>6. /\ timer_list' \in Seq(Timers) /\ Len(timer_list') = n + 1
        /\ \A i \in 1..(n + 1) :
              timer_list'[i] = IF i < p THEN timer_list[i]
                               ELSE IF i = p THEN x ELSE timer_list[i - 1]
    <2>1. timer_list \in Seq(Timers) BY DEF TypeOK
    <2> DEFINE r == InsertAt(timer_list, p, x)
    <2>2. p \in 1..(Len(timer_list) + 1) BY <1>4
    <2>3. /\ r \in Seq(Timers) /\ Len(r) = Len(timer_list) + 1
          /\ \A i \in 1..(Len(timer_list) + 1) :
                r[i] = IF i < p THEN timer_list[i]
                       ELSE IF i = p THEN x ELSE timer_list[i - 1]
      BY <1>1, <2>1, <2>2, Inserted
    <2> HIDE DEF r
    <2>4. timer_list' = r BY <1>5 DEF r
    <2>5. QED BY <2>3, <2>4
  <1>7. DOMAIN timer_list' = 1..(n + 1) BY <1>2, <1>6, LenProperties
  <1>8. live' \subseteq Timers BY <1>1, <1>5 DEF TypeOK
  <1>9. timeout' \in [Timers -> 0..MaxTime] BY <1>3, <1>5 DEF TypeOK
  <1>10. timeout'[x] = at /\ \A t \in live : timeout'[t] = timeout[t]
    BY <1>1, <1>5 DEF TypeOK
  <1>11. \A t \in live : timeout[t] \in Nat
    BY EventAssumption DEF TypeOK
  <1> HIDE DEF at, n
  <1>12. \A i \in 1..n : timer_list[i] \in live BY <1>2 DEF TimersOK
  <1>13. \A i, j \in 1..n : i < j =>
           /\ timer_list[i] # timer_list[j]
           /\ timeout[timer_list[i]] <= timeout[timer_list[j]]
    BY <1>2 DEF TimersOK
  <1>14. \A i \in 1..(n + 1) : timer_list'[i] \in live'
    BY <1>2, <1>4, <1>5, <1>6, <1>12
  <1>15. ASSUME NEW i \in 1..(n + 1), NEW j \in 1..(n + 1), i < j
         PROVE  /\ timer_list'[i] # timer_list'[j]
                /\ timeout'[timer_list'[i]] <= timeout'[timer_list'[j]]
    <2>1. CASE j < p
      BY <1>2, <1>4, <1>6, <1>10, <1>12, <1>13, <1>15, <2>1
    <2>2. CASE j = p
      <3>1. i \in 1..n /\ i < p BY <1>2, <1>4, <1>15, <2>2
      <3>2. timer_list'[i] = timer_list[i] /\ timer_list'[j] = x
        BY <1>4, <1>6, <2>2, <3>1
      <3>3. timeout[timer_list[i]] < at /\ timer_list[i] \in live
        BY <1>4, <1>12, <3>1
      <3>4. QED BY <1>1, <1>3, <1>10, <1>11, <3>2, <3>3
    <2>3. CASE j > p
      <3>1. j - 1 \in 1..n /\ timer_list'[j] = timer_list[j - 1]
            /\ timer_list[j - 1] \in live
        BY <1>2, <1>4, <1>6, <1>12, <2>3
      <3>2. CASE i < p
        <4>1. i \in 1..n /\ i < j - 1 /\ timer_list'[i] = timer_list[i]
          BY <1>2, <1>4, <1>6, <2>3, <3>2
        <4>2. QED BY <1>10, <1>12, <1>13, <3>1, <4>1
      <3>3. CASE i = p
        <4>1. timer_list'[i] = x /\ timeout[timer_list[j - 1]] >= at
          BY <1>2, <1>4, <1>6, <2>3, <3>1, <3>3
        <4>2. QED BY <1>1, <1>3, <1>10, <1>11, <3>1, <4>1
      <3>4. CASE i > p
        <4>1. i - 1 \in 1..n /\ i - 1 < j - 1
              /\ timer_list'[i] = timer_list[i - 1]
          BY <1>2, <1>4, <1>6, <1>15, <3>4
        <4>2. QED BY <1>10, <1>12, <1>13, <3>1, <4>1
      <3>5. QED BY <1>4, <3>2, <3>3, <3>4
    <2>4. QED BY <1>4, <2>1, <2>2, <2>3
  <1>16. TimersOK' BY <1>7, <1>14, <1>15 DEF TimersOK
  <1>17. \A i \in 1..(n + 1) :
            timer_list'[i] = x \/ \E k \in 1..n : timer_list'[i] = timer_list[k]
    <2> TAKE i \in 1..(n + 1)
    <2>1. CASE i < p BY <1>2, <1>4, <1>6, <2>1
    <2>2. CASE i = p BY <1>6, <2>2
    <2>3. CASE i > p
      <3>1. i - 1 \in 1..n BY <1>2, <1>4, <2>3
      <3>2. timer_list'[i] = timer_list[i - 1] BY <1>4, <1>6, <2>3
      <3>3. QED BY <3>1, <3>2
    <2>4. QED BY <1>4, <2>1, <2>2, <2>3
  <1>18. ASSUME NEW t \in live, timeout[t] < now,
                \A k \in 1..n : /\ timer_list[k] # t
                                /\ timeout[t] <= timeout[timer_list[k]]
         PROVE  \A i \in 1..(n + 1) :
                   /\ timer_list'[i] # t
                   /\ timeout'[t] <= timeout'[timer_list'[i]]
    <2> TAKE i \in 1..(n + 1)
    <2>1. CASE timer_list'[i] = x
      <3>1. now <= at BY <1>3 DEF at
      <3>2. QED BY <1>1, <1>3, <1>10, <1>11, <1>18, <2>1, <3>1
    <2>2. ASSUME NEW k \in 1..n, timer_list'[i] = timer_list[k]
          PROVE  /\ timer_list'[i] # t
                 /\ timeout'[t] <= timeout'[timer_list'[i]]
      BY <1>10, <1>12, <1>18, <2>2
    <2>3. QED BY <1>17, <2>1, <2>2
  <1>19. PendingOK'
    <2>1. ASSUME NEW i \in DOMAIN pending_list', pending_list'[i] \in Timers
          PROVE  /\ pending_list'[i] \in live'
                 /\ timeout'[pending_list'[i]] < now'
                 /\ \A k \in DOMAIN timer_list' :
                       /\ timer_list'[k] # pending_list'[i]
                       /\ timeout'[pending_list'[i]] <= timeout'[timer_list'[k]]
      BY <1>2, <1>5, <1>7, <1>10, <1>18, <2>1 DEF PendingOK
    <2>2. QED BY <1>10, <2>1 DEF PendingOK
  <1>20. ASSUME NEW t \in Timers, InHand(t) PROVE InHand(t)'
    <2>1. /\ t \in live /\ timeout[t] < now
          /\ \A k \in 1..n : /\ timer_list[k] # t
                             /\ timeout[t] <= timeout[timer_list[k]]
      BY <1>2, <1>20 DEF InHand, Unlinked, FirstOfAll
    <2>2. \A i \in 1..(n + 1) : /\ timer_list'[i] # t
                                /\ timeout'[t] <= timeout'[timer_list'[i]]
      BY <1>18, <2>1
    <2>3. \A i \in DOMAIN pending_list' :
             /\ pending_list'[i] # t
             /\ pending_list'[i] \in Timers =>
                  timeout'[t] <= timeout'[pending_list'[i]]
      BY <1>10, <1>20, <2>1 DEF InHand, Unlinked, FirstOfAll, PendingOK
    <2>4. QED BY <1>5, <1>7, <1>10, <2>1, <2>2, <2>3
              DEF InHand, Unlinked, FirstOfAll
  <1>21. QED BY <1>6, <1>8, <1>9, <1>16, <1>19, <1>20

-----------------------------------------------------------------------------
(* The watch table *)

WatchTypeOK == watch_table \in [Indices -> Fds \cup {None}] /\ nfds \in Nat

\* Descriptors are numbers, None is not.
LEMMA FdsAreNumbers ==
    /\ Fds \subseteq Nat /\ None \notin Fds
    /\ \A w \in Fds : w \notin Timers
    /\ Wakeup \in Fds /\ Listen \in Fds /\ Debug \in Fds
    /\ CommandFds \subseteq Fds
  BY EventAssumption DEF Fds

\* ril_event_add keeps nfds above the descriptors.
LEMMA WatchAdded ==
    ASSUME WatchTypeOK, WatchOK, NEW w \in Fds, EventAdd(w)
    PROVE  WatchTypeOK' /\ WatchOK'
  <1>1. w \in Nat /\ nfds \in Nat /\ \A x \in Fds : x \in Nat
    BY FdsAreNumbers DEF WatchTypeOK
  <1>2. CASE UNCHANGED watch
    BY <1>2 DEF WatchTypeOK, WatchOK, readFds, watch
  <1>3. CASE ~UNCHANGED watch
    <2>1. PICK k : watch_table' = [watch_table EXCEPT ![k] = w]
      BY <1>3 DEF EventAdd
    <2>2. nfds' = IF w >= nfds THEN w + 1 ELSE nfds
      BY <1>3 DEF EventAdd
    <2>3. nfds' \in Nat /\ nfds <= nfds' /\ w < nfds'
      BY <1>1, <2>2
    <2>4. \A i \in Indices : watch_table'[i] \in {w, watch_table[i]}
      BY <2>1 DEF WatchTypeOK
    <2>5. watch_table' \in [Indices -> Fds \cup {None}]
      BY <2>1 DEF WatchTypeOK
    <2>6. \A x \in readFds' : x = w \/ x \in readFds
      BY <2>4 DEF readFds
    <2>7. readFds \subseteq Fds BY DEF readFds, WatchTypeOK
    <2>8. \A x \in readFds' : x < nfds'
      <3> TAKE x \in readFds'
      <3>1. CASE x = w BY <2>3, <3>1
      <3>2. CASE x \in readFds
        <4>1. x \in Nat /\ x < nfds BY <1>1, <2>7, <3>2 DEF WatchOK
        <4>2. QED BY <1>1, <2>3, <4>1
      <3>3. QED BY <2>6, <3>1, <3>2
    <2>9. QED BY <2>3, <2>5, <2>8 DEF WatchTypeOK, WatchOK
  <1>4. QED BY <1>2, <1>3

\* nfds as it is when w leaves the table.
NfdsWithout(w) == IF w + 1 = nfds THEN NfdsOf(Unwatched(w)) ELSE nfds

LEMMA UnwatchedWatched ==
    ASSUME WatchTypeOK, WatchOK, NEW w \in Fds
    PROVE  /\ Unwatched(w) \in [Indices -> Fds \cup {None}]
           /\ NfdsWithout(w) \in Nat
           /\ \A i \in Indices : Unwatched(w)[i] # None =>
                 Unwatched(w)[i] < NfdsWithout(w)
  <1> DEFINE table == Unwatched(w)
             S == {0} \cup ({table[i] : i \in Indices} \ {None})
  <1>1. table \in [Indices -> Fds \cup {None}]
    BY DEF Unwatched, WatchTypeOK
  <1>2. \A i \in Indices : table[i] # None =>
           table[i] \in Fds /\ table[i] < nfds
    BY DEF Unwatched, WatchTypeOK, WatchOK, readFds
  <1> HIDE DEF table
  <1>3. CASE w + 1 # nfds
    BY <1>1, <1>2, <1>3 DEF NfdsWithout, WatchTypeOK, table
  <1>4. CASE w + 1 = nfds
    <2>1. w \in Nat /\ \A x \in Fds : x \in Nat BY FdsAreNumbers
    <2>2. S \in SUBSET Nat /\ S # {}
      <3>1. \A i \in Indices : table[i] # None => table[i] \in Nat
        BY <1>2, <2>1
      <3>2. QED BY <3>1
    <2>3. \A x \in S : x <= w BY <1>2, <1>4, <2>1
    <2> HIDE DEF S
    <2>4. Max(S) \in S /\ \A x \in S : x <= Max(S)
      BY <2>1, <2>2, <2>3, MaxIsGreatest
    <2>5. Max(S) \in Nat /\ NfdsWithout(w) = 1 + Max(S)
      BY <1>4, <2>2, <2>4 DEF NfdsWithout, NfdsOf, S, table
    <2>6. \A i \in Indices : table[i] # None => table[i] \in S
      BY DEF S
    <2>7. \A i \in Indices : table[i] # None => table[i] < 1 + Max(S)
      <3> TAKE i \in Indices
      <3> HAVE table[i] # None
      <3>1. table[i] \in Nat /\ table[i] <= Max(S) BY <2>2, <2>4, <2>6
      <3>2. QED BY <2>5, <3>1
    <2>8. QED BY <1>1, <2>5, <2>7 DEF table
  <1>5. QED BY <1>3, <1>4

\* removeWatch
LEMMA WatchRemoved ==
    ASSUME WatchTypeOK, WatchOK, NEW w \in Fds,
           watch_table' = Unwatched(w), nfds' = NfdsWithout(w)
    PROVE  WatchTypeOK' /\ WatchOK'
  BY UnwatchedWatched DEF WatchTypeOK, WatchOK, readFds

\* ril_event_del and ril_event_add
LEMMA WatchReplaced ==
    ASSUME WatchTypeOK, WatchOK, NEW w \in Fds, NEW x \in Fds,
           EventReplace(w, x)
    PROVE  WatchTypeOK' /\ WatchOK'
  <1>1. x \in Nat /\ \A y \in Fds : y \in Nat BY FdsAreNumbers
  <1>2. PICK k : watch_table' = [Unwatched(w) EXCEPT ![k] = x]
    BY DEF EventReplace
  <1>3. nfds' = IF x >= NfdsWithout(w) THEN x + 1 ELSE NfdsWithout(w)
    BY DEF EventReplace, NfdsWithout
  <1>4. /\ Unwatched(w) \in [Indices -> Fds \cup {None}]
        /\ NfdsWithout(w) \in Nat
        /\ \A i \in Indices : Unwatched(w)[i] # None =>
              Unwatched(w)[i] < NfdsWithout(w)
    BY UnwatchedWatched
  <1>5. watch_table' \in [Indices -> Fds \cup {None}] BY <1>2, <1>4
  <1>6. nfds' \in Nat /\ x < nfds' /\ NfdsWithout(w) <= nfds'
    BY <1>1, <1>3, <1>4
  <1>7. \A i \in Indices : watch_table'[i] \in {x, Unwatched(w)[i]}
    BY <1>2, <1>4
  <1>8. \A i \in Indices : watch_table'[i] # None => watch_table'[i] < nfds'
    <2> TAKE i \in Indices
    <2> HAVE watch_table'[i] # None
    <2>1. CASE watch_table'[i] = x BY <1>6, <2>1
    <2>2. CASE watch_table'[i] = Unwatched(w)[i]
      <3>1. /\ Unwatched(w)[i] \in Nat
            /\ Unwatched(w)[i] < NfdsWithout(w)
        BY <1>1, <1>4, <2>2
      <3>2. QED BY <1>4, <1>6, <2>2, <3>1
    <2>3. QED BY <1>7, <2>1, <2>2
  <1>9. QED BY <1>5, <1>6, <1>8 DEF WatchTypeOK, WatchOK, readFds

-----------------------------------------------------------------------------
(* The steps and the lists *)

\* A step that does not touch the lists.
LEMMA ListsRest ==
    ASSUME TimersOK, PendingOK, UNCHANGED <<timers, pending_list, now>>
    PROVE  /\ TimersOK' /\ PendingOK'
           /\ \A t \in Timers : InHand(t) => InHand(t)'
  BY DEF TimersOK, PendingOK, InHand, Unlinked, FirstOfAll, timers

LEMMA WatchRests ==
    ASSUME WatchOK, UNCHANGED watch PROVE WatchOK'
  BY DEF WatchOK, readFds, watch

\* The names of the pointers that are no event.
LEMMA NoEvents ==
    /\ Sentinel \notin Timers \cup Fds /\ Freed \notin Timers \cup Fds
    /\ Sentinel # Freed
  BY EventAssumption DEF Sentinel, Freed

\* The steps to and around select do not touch the lists.
LEMMA PrepareInner == ASSUME Inner, Prepare PROVE Inner'
  <1>1. TimersOK' /\ PendingOK' /\ WatchOK'
    BY ListsRest, WatchRests DEF Inner, Prepare
  <1>2. rfds' \subseteq Fds BY DEF Inner, TypeOK, Prepare, readFds
  <1>3. ev' \in Pointers
    BY HeadTailProperties DEF Inner, TypeOK, Prepare, Pointers
  <1>4. TypeOK'
    BY <1>2, <1>3 DEF Inner, TypeOK, Prepare, timers, watch, others
  <1>5. InHandOK' /\ WalkOK' BY DEF Inner, InHandOK, WalkOK, Prepare
  <1>6. QED BY <1>1, <1>4, <1>5 DEF Inner

LEMMA EnterSelectInner == ASSUME Inner, EnterSelect PROVE Inner'
  <1>1. TimersOK' /\ PendingOK' /\ WatchOK'
    BY ListsRest, WatchRests DEF Inner, EnterSelect
  <1>2. until' \in 0..Forever
    <2>1. MaxTime \in Nat /\ now \in 0..MaxTime
      BY EventAssumption DEF Inner, TypeOK
    <2>2. CASE until' \in {0, Forever} BY <2>1, <2>2 DEF Forever
    <2>3. CASE ev \in Timers /\ until' = now + TimeLeft(timeout[ev])
      <3>1. timeout[ev] \in 0..MaxTime BY <2>3 DEF Inner, TypeOK
      <3>2. QED BY <2>1, <2>3, <3>1 DEF Forever, TimeLeft
    <2>4. QED BY <2>2, <2>3 DEF EnterSelect
  <1>3. ev' \in Pointers /\ loop' \in {"select", "crashed"}
    BY DEF EnterSelect, Pointers
  <1>4. TypeOK'
    BY <1>2, <1>3 DEF Inner, TypeOK, EnterSelect, timers, watch, others
  <1>5. InHandOK' /\ WalkOK'
    BY <1>3 DEF Inner, InHandOK, WalkOK, EnterSelect
  <1>6. QED BY <1>1, <1>4, <1>5 DEF Inner

LEMMA SelectReturnsInner == ASSUME Inner, SelectReturns PROVE Inner'
  <1>1. TimersOK' /\ PendingOK' /\ WatchOK'
    BY ListsRest, WatchRests DEF Inner, SelectReturns
  <1>2. until' \in 0..Forever
    BY EventAssumption DEF SelectReturns, Forever
  <1>3. TypeOK'
    BY <1>2 DEF Inner, TypeOK, SelectReturns, timers, watch, others
  <1>4. InHandOK' /\ WalkOK' BY DEF Inner, InHandOK, WalkOK, SelectReturns
  <1>5. QED BY <1>1, <1>3, <1>4 DEF Inner

\* firePending begins with the head, and ends with nothing left.
LEMMA FirstInner == ASSUME Inner, First PROVE Inner'
  <1>1. TimersOK' /\ PendingOK' /\ WatchOK'
    BY ListsRest, WatchRests DEF Inner, First
  <1>2. pending_list # <<>> =>
          ev' = pending_list[1] /\ ev' \in Timers \cup Fds
    BY HeadTailProperties DEF Inner, TypeOK, First
  <1>3. TypeOK'
    BY <1>2 DEF Inner, TypeOK, First, Pointers, timers, watch, others
  <1>4. InHandOK' /\ WalkOK'
    BY <1>2 DEF Inner, InHandOK, WalkOK, HeadOfPending, First
  <1>5. QED BY <1>1, <1>3, <1>4 DEF Inner

LEMMA NoneLeftInner == ASSUME Inner, NoneLeft PROVE Inner'
  <1>1. TimersOK' /\ PendingOK' /\ WatchOK'
    BY ListsRest, WatchRests DEF Inner, NoneLeft
  <1>2. TypeOK'
    BY DEF Inner, TypeOK, NoneLeft, Pointers, timers, watch, others
  <1>3. pending_list = <<>>
    BY NoEvents, LenProperties
       DEF Inner, TypeOK, WalkOK, HeadOfPending, NoneLeft
  <1>4. InHandOK' /\ WalkOK' BY <1>3 DEF Inner, InHandOK, WalkOK, NoneLeft
  <1>5. QED BY <1>1, <1>2, <1>4 DEF Inner

\* Everything that has expired is due before what has not.
LEMMA ProcessTimeoutsInner == ASSUME Inner, ProcessTimeouts PROVE Inner'
  <1> DEFINE l == Len(timer_list)
             I == {i \in DOMAIN timer_list : timeout[timer_list[i]] >= now}
             m == Min({l + 1} \cup I)
  <1>1. /\ l \in Nat /\ DOMAIN timer_list = 1..l
        /\ timer_list \in [1..l -> Timers]
    BY LenProperties DEF Inner, TypeOK
  <1>2. \A i \in 1..l : /\ timer_list[i] \in live
                        /\ timeout[timer_list[i]] \in Nat
    <2>1. \A t \in Timers : timeout[t] \in Nat
      BY EventAssumption DEF Inner, TypeOK
    <2>2. QED BY <1>1, <2>1 DEF Inner, TimersOK
  <1>3. now \in Nat BY EventAssumption DEF Inner, TypeOK
  <1>4. \A i, j \in 1..l : i < j =>
           /\ timer_list[i] # timer_list[j]
           /\ timeout[timer_list[i]] <= timeout[timer_list[j]]
    BY <1>1 DEF Inner, TimersOK
  <1>5. /\ pending_list' = pending_list \o SubSeq(timer_list, 1, m - 1)
        /\ timer_list' = SubSeq(timer_list, m, l)
    <2>1. /\ pending_list' = pending_list \o SubSeq(timer_list, 1, m - 1)
          /\ timer_list' = SubSeq(timer_list, (m - 1) + 1, l)
      BY DEF ProcessTimeouts
    <2>2. {l + 1} \cup I \in SUBSET Nat /\ {l + 1} \cup I # {}
      BY <1>1
    <2>3. m \in Nat BY <2>2, MinIsLeast
    <2>4. (m - 1) + 1 = m BY <2>3
    <2>5. QED BY <2>1, <2>4
  <1>6. I \in SUBSET (1..l) BY <1>1
  <1> HIDE DEF l
  <1>7. m \in 1..(l + 1) /\ (m <= l => m \in I) /\ \A i \in I : m <= i
    BY <1>1, <1>6, FirstIndex
  <1> HIDE DEF m
  <1>8. \A i \in 1..l : i < m => timeout[timer_list[i]] < now
    BY <1>1, <1>2, <1>3, <1>7
  <1>9. /\ SubSeq(timer_list, 1, m - 1) \in Seq(Timers)
        /\ Len(SubSeq(timer_list, 1, m - 1)) = m - 1
        /\ \A i \in 1..(m - 1) : SubSeq(timer_list, 1, m - 1)[i] = timer_list[i]
    BY <1>1, <1>7, SubSeqProperties
  <1>10. /\ timer_list' \in Seq(Timers) /\ Len(timer_list') = l - m + 1
         /\ \A i \in 1..(l - m + 1) : timer_list'[i] = timer_list[m + i - 1]
    <2>1. m \in Int /\ l \in Int /\ \A i \in m..l : timer_list[i] \in Timers
      BY <1>1, <1>7
    <2>2. /\ SubSeq(timer_list, m, l) \in Seq(Timers)
          /\ Len(SubSeq(timer_list, m, l)) = IF m <= l THEN l - m + 1 ELSE 0
          /\ \A i \in 1..(l - m + 1) :
                SubSeq(timer_list, m, l)[i] = timer_list[m + i - 1]
      BY <2>1, SubSeqProperties
    <2>3. (IF m <= l THEN l - m + 1 ELSE 0) = l - m + 1 BY <1>1, <1>7
    <2>4. QED BY <1>5, <2>2, <2>3
  <1>11. pending_list = <<>>
    BY DEF Inner, WalkOK, ProcessTimeouts
  <1>12. pending_list' = SubSeq(timer_list, 1, m - 1)
    BY <1>5, <1>9, <1>11, ConcatEmptySeq
  <1>13. /\ DOMAIN timer_list' = 1..(l - m + 1)
         /\ DOMAIN pending_list' = 1..(m - 1)
    BY <1>9, <1>10, <1>12, LenProperties
  <1>14. UNCHANGED <<timeout, live, now>> BY DEF ProcessTimeouts
  <1>15. \A i \in 1..(l - m + 1) : m + i - 1 \in 1..l /\ m <= m + i - 1
    BY <1>1, <1>7
  <1>16. \A i, j \in 1..(l - m + 1) : i < j => m + i - 1 < m + j - 1
    BY <1>1, <1>7
  <1>17. TimersOK'
    <2>1. \A i \in 1..(l - m + 1) : timer_list'[i] \in live
      BY <1>2, <1>10, <1>15
    <2>2. ASSUME NEW i \in 1..(l - m + 1), NEW j \in 1..(l - m + 1), i < j
          PROVE  /\ timer_list'[i] # timer_list'[j]
                 /\ timeout[timer_list'[i]] <= timeout[timer_list'[j]]
      <3>1. /\ m + i - 1 \in 1..l /\ m + j - 1 \in 1..l
            /\ m + i - 1 < m + j - 1
        BY <1>15, <1>16, <2>2
      <3>2. /\ timer_list[m + i - 1] # timer_list[m + j - 1]
            /\ timeout[timer_list[m + i - 1]] <= timeout[timer_list[m + j - 1]]
        BY <1>4, <3>1
      <3>3. QED BY <1>10, <3>2
    <2>3. QED BY <1>13, <1>14, <2>1, <2>2 DEF TimersOK
  <1>18. \A i \in 1..(m - 1) : i \in 1..l /\ i < m
    BY <1>1, <1>7
  <1>19. \A i \in 1..(m - 1) : \A k \in 1..(l - m + 1) : i < m + k - 1
    BY <1>1, <1>7
  <1>20. PendingOK'
    <2>1. \A i \in 1..(m - 1) : /\ pending_list'[i] = timer_list[i]
                                /\ timer_list[i] \in live
                                /\ timeout[timer_list[i]] < now
      BY <1>2, <1>8, <1>9, <1>12, <1>18
    <2>2. \A i \in 1..(m - 1) : \A k \in 1..(l - m + 1) :
             /\ timer_list'[k] # pending_list'[i]
             /\ timeout[pending_list'[i]] <= timeout[timer_list'[k]]
      BY <1>4, <1>10, <1>15, <1>18, <1>19, <2>1
    <2>3. \A i, j \in 1..(m - 1) : i < j =>
             /\ pending_list'[i] # pending_list'[j]
             /\ timeout[pending_list'[i]] <= timeout[pending_list'[j]]
      BY <1>4, <1>18, <2>1
    <2>4. QED BY <1>13, <1>14, <2>1, <2>2, <2>3 DEF PendingOK
  <1>21. pending_list' \in Seq(Timers \cup Fds)
    <2>1. \A i \in 1..(m - 1) : timer_list[i] \in Timers \cup Fds
      BY <1>1, <1>18
    <2>2. QED BY <1>7, <1>12, <2>1, SubSeqProperties
  <1>22. TypeOK'
    BY <1>10, <1>21 DEF Inner, TypeOK, ProcessTimeouts, watch, others
  <1>23. InHandOK' /\ WalkOK' /\ WatchOK'
    BY WatchRests DEF Inner, InHandOK, WalkOK, ProcessTimeouts
  <1>24. QED BY <1>17, <1>20, <1>22, <1>23 DEF Inner

\* The events of descriptors are no timers.
LEMMA ProcessReadReadiesInner == ASSUME Inner, ProcessReadReadies PROVE Inner'
  <1>1. PICK order \in Increasing(Readies) :
           pending_list' = pending_list \o
                              [k \in DOMAIN order |-> watch_table[order[k]]]
    BY DEF ProcessReadReadies
  <1> DEFINE r == [k \in DOMAIN order |-> watch_table[order[k]]]
             l == Len(pending_list)
             c == Cardinality(Readies)
  <1>2. c \in Nat
    <2>1. IsFiniteSet(Indices) BY FS_Interval, EventAssumption DEF Indices
    <2>2. Readies \subseteq Indices BY DEF Readies
    <2>3. IsFiniteSet(Readies) BY <2>1, <2>2, FS_Subset
    <2>4. QED BY <2>3, FS_CardinalityType
  <1>3. order \in [1..c -> Readies] BY DEF Increasing
  <1>4. \A k \in 1..c : watch_table[order[k]] \in Fds
    BY <1>3 DEF Readies, Inner, TypeOK
  <1>5. r \in [1..c -> Fds] BY <1>3, <1>4
  <1>6. r \in Seq(Fds) BY <1>2, <1>5
  <1>7. Len(r) = c BY <1>2, <1>5, <1>6, LenProperties
  <1> HIDE DEF r, c
  <1>8. /\ pending_list \in Seq(Timers \cup Fds) /\ r \in Seq(Timers \cup Fds)
        /\ l \in Nat /\ DOMAIN pending_list = 1..l
    BY <1>6, LenProperties DEF Inner, TypeOK
  <1>9. /\ pending_list' \in Seq(Timers \cup Fds)
        /\ Len(pending_list') = l + c
        /\ \A i \in 1..(l + c) :
              pending_list'[i] = IF i <= l THEN pending_list[i] ELSE r[i - l]
    BY <1>1, <1>7, <1>8, ConcatProperties DEF r
  <1>10. DOMAIN pending_list' = 1..(l + c) BY <1>9, LenProperties
  <1> HIDE DEF l
  <1>11. \A i \in 1..(l + c) : pending_list'[i] \in Timers =>
            i \in 1..l /\ pending_list'[i] = pending_list[i]
    <2> TAKE i \in 1..(l + c)
    <2>1. CASE i <= l BY <1>2, <1>8, <1>9, <2>1
    <2>2. CASE i > l
      <3>1. i - l \in 1..c BY <1>2, <1>8, <2>2
      <3>2. pending_list'[i] \in Fds BY <1>5, <1>8, <1>9, <2>2, <3>1
      <3>3. QED BY <3>2, FdsAreNumbers
    <2>3. QED BY <1>8, <2>1, <2>2
  <1>12. UNCHANGED <<timers, now>> BY DEF ProcessReadReadies
  <1>13. TimersOK' BY <1>12 DEF Inner, TimersOK, timers
  <1>14. PendingOK'
    BY <1>8, <1>10, <1>11, <1>12 DEF Inner, PendingOK, timers
  <1>15. WatchTypeOK' /\ WatchOK'
    <2>1. WatchTypeOK /\ WatchOK BY DEF Inner, TypeOK, WatchTypeOK
    <2>2. CASE UNCHANGED watch
      BY <2>1, <2>2, WatchRests DEF WatchTypeOK, watch
    <2>3. CASE /\ watch_table' = Unwatched(Listen)
               /\ nfds' = NfdsWithout(Listen)
      BY <2>1, <2>3, WatchRemoved, FdsAreNumbers
    <2>4. QED BY <2>2, <2>3 DEF ProcessReadReadies, NfdsWithout
  <1>16. TypeOK'
    BY <1>9, <1>15
       DEF Inner, TypeOK, ProcessReadReadies, WatchTypeOK, timers, others
  <1>17. InHandOK' /\ WalkOK'
    BY DEF InHandOK, WalkOK, ProcessReadReadies
  <1>18. QED BY <1>13, <1>14, <1>15, <1>16, <1>17 DEF Inner

\* The head of pending_list is unlinked and called.
LEMMA TakeInner == ASSUME Inner, Take PROVE Inner'
  <1>1. CASE ev = Freed
    <2>1. UNCHANGED <<timers, pending_list, now, watch>> /\ loop' = "crashed"
      BY <1>1 DEF Take
    <2>2. TimersOK' /\ PendingOK' /\ WatchOK'
      BY <2>1, ListsRest, WatchRests DEF Inner
    <2>3. TypeOK'
      BY <1>1 DEF Inner, TypeOK, Take, timers, watch, others
    <2>4. InHandOK' /\ WalkOK' BY <2>1 DEF InHandOK, WalkOK
    <2>5. QED BY <2>2, <2>3, <2>4 DEF Inner
  <1>2. CASE ev # Freed
    <2>1. /\ pending_list # <<>> /\ ev = pending_list[1]
          /\ pending_list \in Seq(Timers \cup Fds)
      BY <1>2 DEF Inner, TypeOK, WalkOK, HeadOfPending, Take
    <2>2. /\ pending_list' = Tail(pending_list) /\ loop' = "call"
          /\ next' = IF Len(pending_list) = 1 THEN Sentinel
                     ELSE pending_list[2]
          /\ UNCHANGED <<timers, now, ev, watch>>
      BY <1>2 DEF Take
    <2>3. /\ Len(pending_list) \in Nat \ {0}
          /\ DOMAIN pending_list = 1..Len(pending_list)
      BY <2>1, LenProperties, EmptySeq
    <2>4. /\ pending_list' \in Seq(Timers \cup Fds)
          /\ Len(pending_list') = Len(pending_list) - 1
          /\ \A i \in 1..Len(pending_list') :
                pending_list'[i] = pending_list[i + 1]
      BY <2>1, <2>2, HeadTailProperties
    <2>5. DOMAIN pending_list' = 1..(Len(pending_list) - 1)
      BY <2>4, LenProperties
    <2>6. /\ Len(pending_list) = 1 => pending_list' = <<>>
          /\ Len(pending_list) # 1 => /\ 2 \in 1..Len(pending_list)
                                      /\ pending_list' # <<>>
                                      /\ pending_list'[1] = pending_list[2]
      <3>1. CASE Len(pending_list) = 1
        BY <2>4, <3>1, EmptySeq
      <3>2. CASE Len(pending_list) # 1
        <4>1. /\ 2 \in 1..Len(pending_list)
              /\ 1 \in 1..(Len(pending_list) - 1)
          BY <2>3, <3>2
        <4>2. QED BY <2>4, <2>5, <3>2, <4>1
      <3>3. QED BY <3>1, <3>2
    <2>7. /\ HeadOfPending(next)'
          /\ next' \in Timers \cup Fds \cup {Sentinel}
      BY <2>1, <2>2, <2>3, <2>6, LenProperties DEF HeadOfPending
    <2>8. TypeOK'
      BY <2>2, <2>4, <2>7
         DEF Inner, TypeOK, Take, Pointers, timers, watch, others
    <2>9. StillThere
      <3> DEFINE f == [i \in DOMAIN pending_list' |-> i + 1]
      <3>1. /\ f \in [DOMAIN pending_list' -> DOMAIN pending_list]
            /\ \A i, j \in DOMAIN pending_list' : i < j => f[i] < f[j]
            /\ \A i \in DOMAIN pending_list' :
                  pending_list'[i] = pending_list[f[i]]
        BY <2>3, <2>4, <2>5
      <3>2. Sublist(pending_list', pending_list) BY <3>1 DEF Sublist
      <3>3. Sublist(timer_list', timer_list)
        BY <2>2, Itself DEF Inner, TypeOK, timers
      <3>4. now <= now' BY <2>2, EventAssumption DEF Inner, TypeOK
      <3>5. QED BY <2>2, <3>2, <3>3, <3>4 DEF StillThere, timers
    <2>10. TimersOK' /\ PendingOK'
      BY <2>8, <2>9, Shorter DEF Inner
    <2>11. ASSUME ev \in Timers PROVE InHand(ev)'
      <3>1. 1 \in DOMAIN pending_list BY <2>3
      <3>2. /\ ev \in live /\ timeout[ev] < now
            /\ \A k \in DOMAIN timer_list :
                  /\ timer_list[k] # ev
                  /\ timeout[ev] <= timeout[timer_list[k]]
            /\ \A j \in DOMAIN pending_list :
                  1 < j /\ pending_list[j] \in Timers =>
                     /\ ev # pending_list[j]
                     /\ timeout[ev] <= timeout[pending_list[j]]
        BY <2>1, <2>11, <3>1 DEF Inner, PendingOK
      <3>3. \A i \in DOMAIN pending_list' :
               /\ i + 1 \in DOMAIN pending_list /\ 1 < i + 1
               /\ pending_list'[i] = pending_list[i + 1]
        BY <2>3, <2>4, <2>5
      <3>4. QED BY <2>2, <2>11, <3>2, <3>3
                DEF InHand, Unlinked, FirstOfAll, timers
    <2>12. InHandOK' BY <2>2, <2>11 DEF InHandOK
    <2>13. WalkOK' BY <2>2, <2>7 DEF WalkOK
    <2>14. WatchOK' BY <2>2, WatchRests DEF Inner
    <2>15. QED BY <2>8, <2>10, <2>12, <2>13, <2>14 DEF Inner
  <1>3. QED BY <1>1, <1>2

\* The timer in hand stays allocated while its callback may arm another.
LEMMA CallTimerInner == ASSUME Inner, CallTimer PROVE Inner'
  <1>1. mine' \in [Vendors -> Timers \cup {None, Freed}]
    BY DEF Inner, TypeOK, CallTimer
  <1>2. /\ timer_list' \in Seq(Timers) /\ live' \subseteq Timers
        /\ timeout' \in [Timers -> 0..MaxTime]
        /\ TimersOK' /\ PendingOK'
        /\ \A t \in Timers : InHand(t) => InHand(t)'
    <2>1. CASE UNCHANGED timers
      BY <2>1, ListsRest DEF Inner, TypeOK, CallTimer, timers
    <2>2. CASE \E d \in Delays : TimerAdd(NewTimer, d)
      BY <2>2, Added DEF Inner, CallTimer
    <2>3. QED BY <2>1, <2>2 DEF CallTimer
  <1>3. TypeOK' BY <1>1, <1>2 DEF Inner, TypeOK, CallTimer, watch
  <1>4. ev \in Timers /\ InHand(ev)'
    BY <1>2 DEF Inner, InHandOK, CallTimer
  <1>5. InHandOK' BY <1>4 DEF InHandOK, CallTimer, InHand
  <1>6. WalkOK' BY DEF Inner, WalkOK, HeadOfPending, CallTimer
  <1>7. WatchOK' BY WatchRests DEF Inner, CallTimer
  <1>8. QED BY <1>2, <1>3, <1>5, <1>6, <1>7 DEF Inner

\* A block that is freed is in no list.
LEMMA FreeTimerInner == ASSUME Inner, FreeTimer PROVE Inner'
  <1>1. mine' \in [Vendors -> Timers \cup {None, Freed}]
    BY DEF Inner, TypeOK, FreeTimer
  <1>2. /\ ev \in Timers /\ Unlinked(ev)
        /\ UNCHANGED <<timer_list, pending_list, now, watch>>
        /\ live' = live \ {ev} /\ timeout' = [timeout EXCEPT ![ev] = 0]
        /\ loop' = "take" /\ ev' = next
    BY DEF Inner, InHandOK, InHand, FreeTimer, Called
  <1>3. timeout' \in [Timers -> 0..MaxTime]
    <2>1. 0 \in 0..MaxTime BY EventAssumption
    <2>2. QED BY <1>2, <2>1 DEF Inner, TypeOK
  <1>4. TypeOK'
    BY <1>1, <1>2, <1>3 DEF Inner, TypeOK, FreeTimer, Called, Pointers, watch
  <1>5. StillThere
    <2>1. Sublist(timer_list', timer_list)
      BY <1>2, Itself DEF Inner, TypeOK
    <2>2. Sublist(pending_list', pending_list)
      BY <1>2, Itself DEF Inner, TypeOK
    <2>3. now <= now' BY <1>2, EventAssumption DEF Inner, TypeOK
    <2>4. \A t \in live : ~Unlinked(t)' => t # ev
      BY <1>2 DEF Unlinked
    <2>5. QED BY <1>2, <2>1, <2>2, <2>3, <2>4 DEF StillThere, Inner, TypeOK
  <1>6. TimersOK' /\ PendingOK' BY <1>4, <1>5, Shorter DEF Inner
  <1>7. InHandOK' BY <1>2 DEF InHandOK
  <1>8. WalkOK'
    BY <1>2 DEF Inner, WalkOK, HeadOfPending, FreeTimer
  <1>9. WatchOK' BY <1>2, WatchRests DEF Inner
  <1>10. QED BY <1>4, <1>6, <1>7, <1>8, <1>9 DEF Inner

\* The callbacks of descriptors touch no list of timers.
LEMMA CallFdInner ==
    ASSUME Inner, CallPersistent \/ CallListen \/ CallCommands
    PROVE  Inner'
  <1>1. /\ loop = "call" /\ loop' = "take" /\ ev' = next /\ next' = None
        /\ ready' = ready \ {ev}
        /\ UNCHANGED <<timers, pending_list, now, rfds, until, others>>
    BY DEF CallPersistent, CallListen, CallCommands, Called
  <1>2. TimersOK' /\ PendingOK' BY <1>1, ListsRest DEF Inner
  <1>3. WatchTypeOK' /\ WatchOK'
    <2>1. WatchTypeOK /\ WatchOK BY DEF Inner, TypeOK, WatchTypeOK
    <2>2. CASE UNCHANGED watch
      BY <2>1, <2>2, WatchRests DEF WatchTypeOK, watch
    <2>3. CASE \E w \in CommandFds \cup {Listen} : EventAdd(w)
      BY <2>1, <2>3, WatchAdded, FdsAreNumbers
    <2>4. CASE ev \in CommandFds /\ EventReplace(ev, Listen)
      BY <2>1, <2>4, WatchReplaced, FdsAreNumbers
    <2>5. QED BY <2>2, <2>3, <2>4 DEF CallPersistent, CallListen, CallCommands
  <1>4. TypeOK'
    BY <1>1, <1>3 DEF Inner, TypeOK, WatchTypeOK, Pointers, timers, others
  <1>5. InHandOK' BY <1>1 DEF InHandOK
  <1>6. WalkOK' BY <1>1 DEF Inner, WalkOK, HeadOfPending
  <1>7. QED BY <1>2, <1>3, <1>4, <1>5, <1>6 DEF Inner

LEMMA RequestTimedInner ==
    ASSUME Inner, NEW v \in Vendors, RequestTimed(v) PROVE Inner'
  <1>1. PICK d \in Delays : TimerAdd(NewTimer, d) BY DEF RequestTimed
  <1>2. /\ timer_list' \in Seq(Timers) /\ live' \subseteq Timers
        /\ timeout' \in [Timers -> 0..MaxTime]
        /\ TimersOK' /\ PendingOK'
        /\ \A t \in Timers : InHand(t) => InHand(t)'
    BY <1>1, Added DEF Inner, RequestTimed
  <1>3. NewTimer \in Timers BY <1>1, NewIsFree DEF Inner, TypeOK, TimerAdd
  <1>4. mine' \in [Vendors -> Timers \cup {None, Freed}]
    BY <1>3 DEF Inner, TypeOK, RequestTimed
  <1>5. pc' \in [Vendors -> {"idle", "trigger", "delete"}]
    BY DEF Inner, TypeOK, RequestTimed, Goto
  <1>6. TypeOK' BY <1>2, <1>4, <1>5 DEF Inner, TypeOK, RequestTimed, watch
  <1>7. InHandOK' BY <1>2 DEF Inner, InHandOK, RequestTimed, InHand
  <1>8. WalkOK' BY DEF Inner, WalkOK, HeadOfPending, RequestTimed
  <1>9. WatchOK' BY WatchRests DEF Inner, RequestTimed
  <1>10. QED BY <1>2, <1>6, <1>7, <1>8, <1>9 DEF Inner

\* What wakes the loop up, and what arrives, is not in the lists.
LEMMA QuietInner ==
    ASSUME Inner,
           \/ \E v \in Vendors : RemoveTimed(v) \/ Trigger(v)
           \/ Register \/ \E w \in Fds : DataArrives(w)
    PROVE  Inner'
  <1>1. UNCHANGED <<timers, pending_list, now, loop, rfds, until, ev, next,
                    mine>>
    BY DEF RemoveTimed, Trigger, Register, AddEvent, WakeUp, DataArrives,
           others
  <1>2. /\ TimersOK' /\ PendingOK'
        /\ \A t \in Timers : InHand(t) => InHand(t)'
    BY <1>1, ListsRest DEF Inner
  <1>3. WatchTypeOK' /\ WatchOK'
    <2>1. WatchTypeOK /\ WatchOK BY DEF Inner, TypeOK, WatchTypeOK
    <2>2. CASE UNCHANGED watch
      BY <2>1, <2>2, WatchRests DEF WatchTypeOK, watch
    <2>3. CASE \E w \in Fds : EventAdd(w)
      BY <2>1, <2>3, WatchAdded
    <2>4. QED BY <2>2, <2>3, FdsAreNumbers
              DEF RemoveTimed, Trigger, Register, AddEvent, WakeUp, DataArrives
  <1>4. pc' \in [Vendors -> {"idle", "trigger", "delete"}]
    BY DEF Inner, TypeOK, RemoveTimed, Trigger, Register, AddEvent, WakeUp,
           DataArrives, Goto, others
  <1>5. ready' \subseteq Fds
    BY FdsAreNumbers DEF Inner, TypeOK, RemoveTimed, Trigger, Register,
           AddEvent, WakeUp, DataArrives
  <1>6. register' \in {"listen", "wake_listen", "debug", "wake_debug", "done"}
    BY DEF Inner, TypeOK, RemoveTimed, Trigger, Register, AddEvent, WakeUp,
           DataArrives, others
  <1>7. TypeOK'
    BY <1>1, <1>3, <1>4, <1>5, <1>6 DEF Inner, TypeOK, WatchTypeOK, timers
  <1>8. InHandOK' BY <1>1, <1>2 DEF Inner, InHandOK, InHand
  <1>9. WalkOK' BY <1>1 DEF Inner, WalkOK, HeadOfPending
  <1>10. QED BY <1>2, <1>3, <1>7, <1>8, <1>9 DEF Inner

LEMMA TickInner == ASSUME Inner, Tick PROVE Inner'
  <1>1. now \in Nat /\ now' = now + 1 /\ now' \in 0..MaxTime
    BY EventAssumption DEF Inner, TypeOK, Tick
  <1>2. TypeOK'
    BY <1>1 DEF Inner, TypeOK, Tick, timers, watch, others
  <1>3. StillThere
    <2>1. Sublist(timer_list', timer_list)
      BY Itself DEF Inner, TypeOK, Tick, timers
    <2>2. Sublist(pending_list', pending_list)
      BY Itself DEF Inner, TypeOK, Tick
    <2>3. now <= now' BY <1>1
    <2>4. QED BY <2>1, <2>2, <2>3 DEF StillThere, Tick, timers
  <1>4. TimersOK' /\ PendingOK' BY <1>2, <1>3, Shorter DEF Inner
  <1>5. InHandOK'
    BY <1>2, <1>3, InHandShorter
       DEF Inner, InHandOK, InHand, Tick, timers
  <1>6. WalkOK' BY DEF Inner, WalkOK, HeadOfPending, Tick
  <1>7. WatchOK' BY WatchRests DEF Inner, Tick
  <1>8. QED BY <1>2, <1>4, <1>5, <1>6, <1>7 DEF Inner

\* An event is unlinked from the list it is in, and the pointers to it are
\* known to be stale.
LEMMA TimerDeleteInner ==
    ASSUME Inner, NEW v \in Vendors, TimerDelete(v) PROVE Inner'
  <1> DEFINE t == mine[v]
  <1>1. t \in Timers \cup {None, Freed} BY DEF Inner, TypeOK
  <1>2. /\ mine' \in [Vendors -> Timers \cup {None, Freed}]
        /\ pc' \in [Vendors -> {"idle", "trigger", "delete"}]
    BY DEF Inner, TypeOK, TimerDelete, Goto
  <1>3. WatchOK' BY WatchRests DEF Inner, TimerDelete
  <1>4. CASE ~Linked(t)
    <2>1. /\ UNCHANGED <<timers, pending_list, now, ev, next>>
          /\ loop' \in {loop, "crashed"}
      BY <1>4 DEF TimerDelete
    <2>2. /\ TimersOK' /\ PendingOK'
          /\ \A x \in Timers : InHand(x) => InHand(x)'
      BY <2>1, ListsRest DEF Inner
    <2>3. TypeOK'
      BY <1>2, <2>1 DEF Inner, TypeOK, TimerDelete, timers, watch
    <2>4. InHandOK' BY <2>1, <2>2 DEF Inner, InHandOK, InHand
    <2>5. WalkOK' BY <2>1 DEF Inner, WalkOK, HeadOfPending
    <2>6. QED BY <1>3, <2>2, <2>3, <2>4, <2>5 DEF Inner
  <1>5. CASE Linked(t)
    <2>1. /\ timer_list' = Without(timer_list, t)
          /\ pending_list' = Without(pending_list, t)
          /\ live' = live \ {t} /\ timeout' = [timeout EXCEPT ![t] = 0]
          /\ ev' = IF ev = t THEN Freed ELSE ev
          /\ next' = IF next = t THEN Freed ELSE next
          /\ UNCHANGED <<loop, now, watch>>
      BY <1>5 DEF TimerDelete
    <2>2. t \in Timers
      <3>1. \A i \in DOMAIN timer_list : timer_list[i] \in Timers
        BY DEF Inner, TypeOK
      <3>2. \A i \in DOMAIN pending_list : pending_list[i] \in Timers \cup Fds
        BY DEF Inner, TypeOK
      <3>3. t \in Timers \cup Fds BY <1>5, <3>1, <3>2 DEF Linked, ToSet
      <3>4. QED BY <1>1, <3>3, NoEvents, FdsAreNumbers
    <2>3. /\ timer_list \in Seq(Timers) /\ pending_list \in Seq(Timers \cup Fds)
          /\ DOMAIN timer_list = 1..Len(timer_list)
          /\ DOMAIN pending_list = 1..Len(pending_list)
          /\ Len(timer_list) \in Nat /\ Len(pending_list) \in Nat
      BY LenProperties DEF Inner, TypeOK
    <2> HIDE DEF t
    <2>4. \A i, j \in DOMAIN timer_list : i # j =>
             timer_list[i] # timer_list[j]
      <3> TAKE i, j \in DOMAIN timer_list
      <3> HAVE i # j
      <3>1. i < j \/ j < i BY <2>3
      <3>2. QED BY <3>1 DEF Inner, TimersOK
    <2>5. \A i, j \in DOMAIN pending_list : i # j =>
             pending_list[i] # pending_list[j] \/ pending_list[i] # t
      <3> TAKE i, j \in DOMAIN pending_list
      <3> HAVE i # j
      <3>1. i < j \/ j < i BY <2>3
      <3>2. QED BY <2>2, <3>1 DEF Inner, PendingOK
    <2>6. /\ timer_list' \in Seq(Timers)
          /\ Sublist(timer_list', timer_list)
          /\ \A i \in DOMAIN timer_list' : timer_list'[i] # t
      <3> DEFINE r == Without(timer_list, t)
      <3>1. /\ r \in Seq(Timers) /\ Sublist(r, timer_list)
            /\ \A i \in DOMAIN r : r[i] # t
        BY <2>3, <2>4, Unlinks
      <3>2. QED BY <2>1, <3>1
    <2>7. /\ pending_list' \in Seq(Timers \cup Fds)
          /\ Sublist(pending_list', pending_list)
          /\ \A i \in DOMAIN pending_list' : pending_list'[i] # t
          /\ t \notin ToSet(pending_list) => pending_list' = pending_list
          /\ pending_list # <<>> /\ pending_list[1] # t =>
                pending_list' # <<>> /\ pending_list'[1] = pending_list[1]
      <3> DEFINE r == Without(pending_list, t)
      <3>1. /\ r \in Seq(Timers \cup Fds) /\ Sublist(r, pending_list)
            /\ \A i \in DOMAIN r : r[i] # t
            /\ t \notin ToSet(pending_list) => r = pending_list
            /\ pending_list # <<>> /\ pending_list[1] # t =>
                  r # <<>> /\ r[1] = pending_list[1]
        BY <2>3, <2>5, Unlinks
      <3>2. QED BY <2>1, <3>1
    <2>8. timeout' \in [Timers -> 0..MaxTime]
      <3>1. 0 \in 0..MaxTime BY EventAssumption
      <3>2. QED BY <2>1, <2>2, <3>1 DEF Inner, TypeOK
    <2>9. ev' \in Pointers /\ next' \in Pointers
      BY <2>1 DEF Inner, TypeOK, Pointers
    <2>10. TypeOK'
      BY <1>2, <2>1, <2>6, <2>7, <2>8, <2>9
         DEF Inner, TypeOK, TimerDelete, watch
    <2>11. StillThere
      <3>1. now <= now' BY <2>1, EventAssumption DEF Inner, TypeOK
      <3>2. \A x \in live : ~Unlinked(x)' => x # t
        BY <2>6, <2>7 DEF Unlinked
      <3>3. QED BY <2>1, <2>6, <2>7, <3>1, <3>2
                DEF StillThere, Inner, TypeOK
    <2>12. TimersOK' /\ PendingOK' BY <2>10, <2>11, Shorter DEF Inner
    <2>13. ASSUME loop \in {"call", "free"}, ev \in Timers
           PROVE  ev' = ev /\ InHand(ev)'
      <3>1. InHand(ev) BY <2>13 DEF Inner, InHandOK
      <3>2. ev # t BY <1>5, <3>1 DEF InHand, Unlinked, Linked, ToSet
      <3>3. ev' = ev /\ ev \in live' /\ timeout'[ev] = timeout[ev]
        BY <2>1, <2>13, <3>1, <3>2 DEF InHand, Inner, TypeOK
      <3> DEFINE e == ev
      <3>4. e \in Timers /\ InHand(e) /\ e \in live' /\ timeout'[e] = timeout[e]
        BY <2>13, <3>1, <3>3
      <3>5. ev' = ev BY <3>3
      <3>6. \A x \in Timers : InHand(x) /\ x \in live'
                                /\ timeout'[x] = timeout[x] => InHand(x)'
        BY <2>10, <2>11, InHandShorter DEF Inner
      <3>7. QED BY <3>4, <3>5, <3>6 DEF InHand, Unlinked, FirstOfAll
    <2>14. InHandOK'
      <3>1. ev' \in Timers => ev \in Timers BY <2>1, NoEvents
      <3>2. QED BY <2>1, <2>13, <3>1 DEF Inner, InHandOK
    <2>15. ASSUME NEW p, HeadOfPending(p)
           PROVE  \/ /\ p = t
                     /\ pending_list # <<>>
                  \/ p # t /\ \/ p = Freed
                              \/ p = Sentinel /\ pending_list' = <<>>
                              \/ pending_list' # <<>> /\ p = pending_list'[1]
      <3>1. CASE p = Freed BY <2>2, <3>1, NoEvents
      <3>2. CASE p = Sentinel /\ pending_list = <<>>
        <4>1. t \notin ToSet(pending_list) BY <3>2 DEF ToSet
        <4>2. QED BY <2>2, <2>7, <3>2, <4>1, NoEvents
      <3>3. CASE pending_list # <<>> /\ p = pending_list[1]
        BY <2>7, <3>3
      <3>4. QED BY <2>15, <3>1, <3>2, <3>3 DEF HeadOfPending
    <2>16. HeadOfPending(ev) => HeadOfPending(ev)'
      BY <2>1, <2>15 DEF HeadOfPending
    <2>17. HeadOfPending(next) => HeadOfPending(next)'
      BY <2>1, <2>15 DEF HeadOfPending
    <2>18. pending_list = <<>> => pending_list' = <<>>
      <3> HAVE pending_list = <<>>
      <3>1. t \notin ToSet(pending_list) BY DEF ToSet
      <3>2. QED BY <2>7, <3>1
    <2>19. WalkOK' BY <2>1, <2>16, <2>17, <2>18 DEF Inner, WalkOK
    <2>20. QED BY <1>3, <2>10, <2>12, <2>14, <2>19 DEF Inner
  <1>6. QED BY <1>4, <1>5

\* Every step keeps the lists and the table in order.
LEMMA NextInner == Inner /\ [Next]_vars => Inner'
  <1> SUFFICES ASSUME Inner, [Next]_vars PROVE Inner' OBVIOUS
  <1>1. CASE LoopStep
    BY <1>1, PrepareInner, EnterSelectInner, SelectReturnsInner,
       ProcessTimeoutsInner, ProcessReadReadiesInner, FirstInner,
       NoneLeftInner, TakeInner, CallTimerInner, FreeTimerInner, CallFdInner
       DEF LoopStep
  <1>2. ASSUME NEW v \in Vendors,
               RequestTimed(v) \/ RemoveTimed(v) \/ VendorStep(v)
        PROVE  Inner'
    BY <1>2, RequestTimedInner, QuietInner, TimerDeleteInner DEF VendorStep
  <1>3. CASE UNCHANGED vars
    <2>1. TimersOK' /\ PendingOK' /\ WatchOK'
      BY <1>3, ListsRest, WatchRests DEF Inner, vars, timers, watch
    <2>2. TypeOK' BY <1>3 DEF Inner, TypeOK, vars
    <2>3. InHandOK' /\ WalkOK'
      BY <1>3 DEF Inner, InHandOK, InHand, Unlinked, FirstOfAll, WalkOK,
                  HeadOfPending, vars
    <2>4. QED BY <2>1, <2>2, <2>3 DEF Inner
  <1>4. QED BY <1>1, <1>2, <1>3, QuietInner, TickInner DEF Next

-----------------------------------------------------------------------------
(* The way into select *)

\* calcNextTimeout reads the first timer, which is the earliest.
LEMMA PrepareCovers ==
    ASSUME Inner, Prepare PROVE CalcOK' /\ SelectCovers'
  <1>1. /\ loop' = "calc" /\ rfds' = readFds
        /\ ev' = IF timer_list = <<>> THEN Sentinel ELSE Head(timer_list)
        /\ UNCHANGED <<timer_list, timeout, watch_table>>
    BY DEF Prepare, timers, watch
  <1>2. ASSUME timer_list # <<>>
        PROVE  /\ ev' \in Timers
               /\ \A i \in DOMAIN timer_list :
                     timeout[ev'] <= timeout[timer_list[i]]
    <2>1. /\ timer_list \in Seq(Timers) /\ Len(timer_list) \in Nat \ {0}
          /\ DOMAIN timer_list = 1..Len(timer_list)
      BY <1>2, LenProperties, EmptySeq DEF Inner, TypeOK
    <2>2. ev' = timer_list[1] /\ 1 \in DOMAIN timer_list /\ ev' \in Timers
      BY <1>1, <1>2, <2>1, HeadTailProperties
    <2>3. timeout[ev'] \in Nat
      BY <2>2, EventAssumption DEF Inner, TypeOK
    <2>4. \A i \in DOMAIN timer_list :
             timeout[ev'] <= timeout[timer_list[i]]
      <3> TAKE i \in DOMAIN timer_list
      <3>1. CASE i = 1 BY <2>2, <2>3, <3>1
      <3>2. CASE 1 < i BY <2>2, <3>2 DEF Inner, TimersOK
      <3>3. QED BY <2>1, <3>1, <3>2
    <2>5. QED BY <2>2, <2>4
  <1>3. CalcOK' BY <1>1, <1>2 DEF CalcOK, readFds
  <1>4. SelectCovers' BY <1>1 DEF SelectCovers
  <1>5. QED BY <1>3, <1>4

\* select ends when the timer that was read is due, and no descriptor is
\* beyond nfds.
LEMMA EnterSelectCovers ==
    ASSUME Inner, CalcOK, EnterSelect PROVE CalcOK' /\ SelectCovers'
  <1>1. /\ loop = "calc" /\ loop' \in {"select", "crashed"}
        /\ rfds' = {w \in rfds : w < nfds}
        /\ UNCHANGED <<timers, watch, now, ready, others>>
    BY DEF EnterSelect
  <1>2. Awoken => Awoken' BY <1>1 DEF Awoken, others
  <1>3. rfds = readFds => readFds' \subseteq rfds'
    BY <1>1 DEF Inner, WatchOK, readFds, watch
  <1>4. ASSUME ev \in Timers, loop' = "select",
               \A i \in DOMAIN timer_list :
                  timeout[ev] <= timeout[timer_list[i]]
        PROVE  \A t \in ToSet(timer_list)' : until' <= Larger(timeout[t], now)'
    <2>1. until' = now + TimeLeft(timeout[ev])
      BY <1>4, NoEvents DEF EnterSelect
    <2>2. \A t \in Timers : timeout[t] \in Nat
      BY EventAssumption DEF Inner, TypeOK
    <2>3. now \in Nat BY EventAssumption DEF Inner, TypeOK
    <2>4. ASSUME NEW i \in DOMAIN timer_list
          PROVE  until' <= Larger(timeout[timer_list[i]], now)
      <3>1. timer_list[i] \in Timers BY DEF Inner, TypeOK
      <3>2. /\ timeout[ev] \in Nat /\ timeout[timer_list[i]] \in Nat
            /\ timeout[ev] <= timeout[timer_list[i]]
        BY <1>4, <2>2, <3>1
      <3>3. QED BY <2>1, <2>3, <3>2 DEF Larger, TimeLeft
    <2>5. QED BY <1>1, <2>4 DEF ToSet, Larger, timers
  <1>5. timer_list = <<>> => ToSet(timer_list)' = {}
    BY <1>1 DEF ToSet, timers
  <1>6. loop' = "select" => ev # Freed BY NoEvents DEF EnterSelect
  <1>7. SelectCovers'
    BY <1>1, <1>2, <1>3, <1>4, <1>5, <1>6 DEF CalcOK, SelectCovers
  <1>8. CalcOK' BY <1>1 DEF CalcOK
  <1>9. QED BY <1>7, <1>8

\* Whoever changes what the loop has read wakes it up.
LEMMA WakersCover ==
    ASSUME Inner, CalcOK, SelectCovers,
           \/ \E v \in Vendors : RequestTimed(v) \/ RemoveTimed(v) \/ Trigger(v)
           \/ Register \/ \E w \in Fds : DataArrives(w)
    PROVE  CalcOK' /\ SelectCovers'
  <1>1. CASE \/ \E v \in Vendors : RequestTimed(v) \/ Trigger(v)
             \/ Register
    <2>1. Awoken'
      BY <1>1 DEF RequestTimed, Trigger, Register, AddEvent, WakeUp, Goto,
                  Awoken, Inner, TypeOK
    <2>2. QED BY <2>1 DEF CalcOK, SelectCovers
  <1>2. CASE \/ \E v \in Vendors : RemoveTimed(v)
             \/ \E w \in Fds : DataArrives(w)
    <2>1. UNCHANGED <<timers, watch, now, loop, rfds, until, ev, register>>
      BY <1>2 DEF RemoveTimed, DataArrives, others
    <2>2. Awoken => Awoken'
      BY <1>2 DEF RemoveTimed, DataArrives, Goto, Awoken, Inner, TypeOK, others
    <2>3. QED
      BY <2>1, <2>2 DEF CalcOK, SelectCovers, readFds, Larger, timers, watch
  <1>3. QED BY <1>1, <1>2

\* A timer that goes may only leave the select too short.
LEMMA TimerDeleteCovers ==
    ASSUME Inner, CalcOK, SelectCovers, NEW v \in Vendors, TimerDelete(v),
           Inner'
    PROVE  CalcOK' /\ SelectCovers'
  <1> DEFINE t == mine[v]
  <1>1. /\ loop' \in {loop, "crashed"}
        /\ UNCHANGED <<watch, now, ready, rfds, until, register>>
    BY DEF TimerDelete
  <1>2. Awoken => Awoken'
    BY DEF TimerDelete, Goto, Awoken, Inner, TypeOK
  <1>3. CASE ~Linked(t)
    <2>1. UNCHANGED <<timers, ev>> BY <1>3 DEF TimerDelete
    <2>2. QED
      BY <1>1, <1>2, <2>1
         DEF CalcOK, SelectCovers, readFds, Larger, timers, watch
  <1>4. CASE Linked(t)
    <2>1. /\ timer_list' = Without(timer_list, t)
          /\ timeout' = [timeout EXCEPT ![t] = 0]
          /\ ev' = IF ev = t THEN Freed ELSE ev
      BY <1>4 DEF TimerDelete
    <2>2. /\ timer_list \in Seq(Timers)
          /\ DOMAIN timer_list = 1..Len(timer_list)
          /\ Len(timer_list) \in Nat
      BY LenProperties DEF Inner, TypeOK
    <2> HIDE DEF t
    <2>3. \A i, j \in DOMAIN timer_list : i # j =>
             timer_list[i] # timer_list[j]
      <3> TAKE i, j \in DOMAIN timer_list
      <3> HAVE i # j
      <3>1. i < j \/ j < i BY <2>2
      <3>2. QED BY <3>1 DEF Inner, TimersOK
    <2>4. /\ Sublist(timer_list', timer_list)
          /\ \A i \in DOMAIN timer_list' : timer_list'[i] # t
      BY <2>1, <2>2, <2>3, Unlinks
    <2>5. PICK f \in [DOMAIN timer_list' -> DOMAIN timer_list] :
             \A i \in DOMAIN timer_list' : timer_list'[i] = timer_list[f[i]]
      BY <2>4 DEF Sublist
    <2>6. \A i \in DOMAIN timer_list' :
             timeout'[timer_list'[i]] = timeout[timer_list[f[i]]]
      <3> TAKE i \in DOMAIN timer_list'
      <3>1. timer_list[f[i]] \in Timers /\ timer_list[f[i]] # t
        BY <2>2, <2>4, <2>5 DEF Inner, TypeOK
      <3>2. QED BY <2>1, <2>5, <3>1 DEF Inner, TypeOK
    <2>7. ev \in Timers /\ ev # t => ev' = ev /\ timeout'[ev] = timeout[ev]
      BY <2>1 DEF Inner, TypeOK
    <2>8. timer_list = <<>> => timer_list' = <<>>
      <3> HAVE timer_list = <<>>
      <3>1. t \notin ToSet(timer_list) BY DEF ToSet
      <3>2. QED BY <2>1, <3>1 DEF Without
    <2>9. t # Sentinel
      <3>1. t \in Timers \cup {None, Freed} BY DEF t, Inner, TypeOK
      <3>2. QED BY <3>1, EventAssumption DEF Sentinel, Freed
    <2>10. CalcOK'
      <3>1. CASE loop = "calc" /\ ~Awoken
        <4>1. readFds' = readFds BY <1>1 DEF readFds, watch
        <4>2. CASE ev = Freed \/ ev = t
          BY <1>1, <2>1, <3>1, <4>1, <4>2 DEF CalcOK
        <4>3. CASE ev = Sentinel /\ timer_list = <<>>
          BY <1>1, <2>1, <2>8, <2>9, <3>1, <4>1, <4>3 DEF CalcOK
        <4>4. CASE /\ ev \in Timers /\ ev # t
                   /\ \A i \in DOMAIN timer_list :
                         timeout[ev] <= timeout[timer_list[i]]
          <5>1. \A i \in DOMAIN timer_list' :
                   timeout'[ev'] <= timeout'[timer_list'[i]]
            BY <2>5, <2>6, <2>7, <4>4
          <5>2. QED BY <1>1, <2>7, <3>1, <4>1, <4>4, <5>1 DEF CalcOK
        <4>5. QED BY <3>1, <4>2, <4>3, <4>4 DEF CalcOK
      <3>2. CASE loop # "calc" \/ Awoken
        BY <1>1, <1>2, <3>2 DEF CalcOK
      <3>3. QED BY <3>1, <3>2
    <2>11. SelectCovers'
      <3>1. CASE loop = "select" /\ ~Awoken
        <4>1. readFds' \subseteq rfds'
          BY <1>1, <3>1 DEF SelectCovers, readFds, watch
        <4>2. \A i \in DOMAIN timer_list :
                 until <= Larger(timeout[timer_list[i]], now)
          BY <3>1 DEF SelectCovers, ToSet
        <4>3. \A i \in DOMAIN timer_list' :
                 until' <= Larger(timeout'[timer_list'[i]], now')
          BY <1>1, <2>5, <2>6, <4>2 DEF Larger
        <4>4. QED BY <3>1, <4>1, <4>3 DEF SelectCovers, ToSet
      <3>2. CASE loop # "select" \/ Awoken
        BY <1>1, <1>2, <3>2 DEF SelectCovers
      <3>3. QED BY <3>1, <3>2
    <2>12. QED BY <2>10, <2>11
  <1>5. QED BY <1>3, <1>4

\* Time goes on, and what is due is due.
LEMMA TickCovers ==
    ASSUME Inner, CalcOK, SelectCovers, Tick PROVE CalcOK' /\ SelectCovers'
  <1>1. /\ now \in Nat /\ now' = now + 1 /\ until \in Nat
        /\ \A t \in Timers : timeout[t] \in Nat
        /\ UNCHANGED <<timers, watch, ready, loop, rfds, until, ev, others>>
    BY EventAssumption DEF Inner, TypeOK, Tick, Forever
  <1>2. Awoken' <=> Awoken BY <1>1 DEF Awoken, others
  <1>3. CalcOK' BY <1>1, <1>2 DEF CalcOK, readFds, timers, watch
  <1>4. ASSUME NEW t \in ToSet(timer_list), until <= Larger(timeout[t], now)
        PROVE  until <= Larger(timeout[t], now')
    <2>1. timeout[t] \in Nat BY <1>1 DEF ToSet, Inner, TypeOK
    <2>2. QED BY <1>1, <1>4, <2>1 DEF Larger
  <1>5. SelectCovers'
    BY <1>1, <1>2, <1>4 DEF SelectCovers, readFds, Larger, timers, watch
  <1>6. QED BY <1>3, <1>5

LEMMA NextCovers ==
    Inner /\ CalcOK /\ SelectCovers /\ [Next]_vars => CalcOK' /\ SelectCovers'
  <1> SUFFICES ASSUME Inner, CalcOK, SelectCovers, [Next]_vars
               PROVE  CalcOK' /\ SelectCovers'
    OBVIOUS
  <1>1. CASE LoopStep /\ ~Prepare /\ ~EnterSelect
    <2>1. loop' \notin {"calc", "select"}
      BY <1>1 DEF LoopStep, SelectReturns, ProcessTimeouts,
           ProcessReadReadies, First, NoneLeft, Take, CallTimer, FreeTimer,
           CallPersistent, CallListen, CallCommands, Called
    <2>2. QED BY <2>1 DEF CalcOK, SelectCovers
  <1>2. CASE UNCHANGED vars
    BY <1>2 DEF CalcOK, SelectCovers, Awoken, readFds, Larger, vars
  <1>3. ASSUME NEW v \in Vendors, TimerDelete(v) PROVE CalcOK' /\ SelectCovers'
    BY <1>3, NextInner, TimerDeleteCovers
  <1>4. QED
    BY <1>1, <1>2, <1>3, PrepareCovers, EnterSelectCovers, WakersCover,
       TickCovers DEF Next, LoopStep, VendorStep

-----------------------------------------------------------------------------
(* What is proved *)

LEMMA InitIInv == Init => IInv
  <1> SUFFICES ASSUME Init PROVE IInv OBVIOUS
  <1>1. /\ Wakeup \in Nat /\ MaxTime \in Nat /\ 0 \in 0..MaxTime
        /\ 0 \in 0..Forever /\ nfds \in Nat /\ Wakeup < nfds
    BY FdsAreNumbers, EventAssumption DEF Init, Forever
  <1>2. watch_table \in [Indices -> Fds \cup {None}]
    BY FdsAreNumbers DEF Init
  <1>3. timer_list \in Seq(Timers) /\ pending_list \in Seq(Timers \cup Fds)
    BY DEF Init
  <1>4. TypeOK BY <1>1, <1>2, <1>3 DEF Init, TypeOK, Pointers
  <1>5. TimersOK /\ PendingOK BY DEF Init, TimersOK, PendingOK
  <1>6. InHandOK /\ WalkOK BY DEF Init, InHandOK, WalkOK
  <1>7. WatchOK BY <1>1 DEF Init, WatchOK, readFds
  <1>8. CalcOK /\ SelectCovers BY DEF Init, CalcOK, SelectCovers
  <1>9. QED BY <1>4, <1>5, <1>6, <1>7, <1>8 DEF IInv, Inner

\* The invariant of the event loop, whatever its threads do.
THEOREM EventInvariance == Spec => []IInv
  <1>1. IInv /\ [Next]_vars => IInv' BY NextInner, NextCovers DEF IInv
  <1>2. QED BY InitIInv, <1>1, PTL DEF Spec

\* ril_event.cpp's variables have their types in every reachable state: the
\* lists hold events, nfds is a number and select is given no negative time.
THEOREM EventTypesCorrect == Spec => []TypeOK
  <1>1. IInv => TypeOK BY DEF IInv, Inner
  <1>2. QED BY <1>1, EventInvariance, PTL

\* select sleeps past nothing: when it begins with a set of descriptors and a
\* time that are not those of the table and of the timer list any more, a
\* byte in the wakeup pipe, or one that is about to be written, ends it.
THEOREM SelectAlwaysCovers == Spec => []SelectCovers
  <1>1. IInv => SelectCovers BY DEF IInv
  <1>2. QED BY <1>1, EventInvariance, PTL

\* What a step of FiredInOrder may do.
Fires == loop = "call" /\ ev \in Timers /\ loop' = "free" =>
            /\ now > timeout[ev]
            /\ \A t \in Waiting : timeout[t] >= timeout[ev]

\* Timers fire when they are due and in the order of their times: the head of
\* pending_list is due before the rest of it, and all of it before what is in
\* the timer list, however often processTimeouts and ril_timer_add put timers
\* into either.
THEOREM AlwaysFiredInOrder == Spec => FiredInOrder
  <1>1. ASSUME IInv PROVE Fires
    <2> SUFFICES ASSUME loop = "call", ev \in Timers
                 PROVE  /\ now > timeout[ev]
                        /\ \A t \in Waiting : timeout[t] >= timeout[ev]
      BY DEF Fires
    <2>1. InHand(ev) BY <1>1 DEF IInv, Inner, InHandOK
    <2>2. \A t \in Timers : timeout[t] \in Nat
      BY <1>1, EventAssumption DEF IInv, Inner, TypeOK
    <2>3. now \in Nat BY <1>1, EventAssumption DEF IInv, Inner, TypeOK
    <2>4. now > timeout[ev] BY <2>1, <2>2, <2>3 DEF InHand
    <2>5. ASSUME NEW t \in Waiting PROVE timeout[t] >= timeout[ev]
      <3>1. t \in Timers BY <1>1 DEF Waiting, ToSet, IInv, Inner, TypeOK
      <3>2. timeout[ev] <= timeout[t]
        BY <2>1, <3>1 DEF Waiting, ToSet, InHand, FirstOfAll
      <3>3. QED BY <2>2, <3>1, <3>2
    <2>6. QED BY <2>4, <2>5
  <1>2. []IInv => [][Fires]_vars BY <1>1, PTL
  <1>3. Spec => [][Fires]_vars BY <1>2, EventInvariance, PTL
  <1>4. QED BY <1>3 DEF FiredInOrder, Fires
=============================================================================
