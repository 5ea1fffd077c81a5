------------------------------ MODULE RilEvent ------------------------------
(***************************************************************************)
(* The event loop of src/libril/ril_event.cpp: timers and watched file     *)
(* descriptors, used by the dispatch thread that runs ril_event_loop, by   *)
(* the thread that calls RIL_register, and by the vendor RIL's threads,    *)
(* which arm and remove timers (RIL_requestTimedCallback and               *)
(* RIL_removeTimedCallback of src/libril/ril.cpp).                         *)
(*                                                                         *)
(* An event is named by its descriptor or, when it is a timer's, by the    *)
(* UserCallbackInfo block it lies in.  listMutex covers single steps, but  *)
(* the loop reads the head of the timer list and walks pending_list        *)
(* without it.  A pointer becomes Freed when its block is freed; once such *)
(* a pointer is used, whatever is at the address by then, the process has  *)
(* "crashed" and nothing is said of it any more.                           *)
(***************************************************************************)
EXTENDS Integers, Sequences, FiniteSets, SequencesExt, FiniteSetsExt

CONSTANTS Timers,         \* addresses malloc gives to UserCallbackInfo blocks
          Wakeup, Listen, Debug,  \* descriptors with an event of their own
          CommandFds,     \* descriptors accept may return
          Vendors,        \* threads of the vendor RIL
          Delays,         \* relative times timers are armed for
          MAX_FD_EVENTS,
          MaxTime,        \* bound: the clock stops there
          None

Fds == {Wakeup, Listen, Debug} \cup CommandFds

ASSUME EventAssumption == /\ Fds \subseteq Nat /\ CommandFds # {}
                          /\ {Wakeup, Listen, Debug} \cap CommandFds = {}
                          /\ Delays \subseteq Nat /\ MaxTime \in Nat
                          /\ MAX_FD_EVENTS \in Nat \ {0}
                          /\ Timers \cap Int = {} /\ None \notin Timers \cup Int

VARIABLES timer_list, pending_list,   \* without their heads, in order
          watch_table, nfds,
          timeout,                    \* of each timer
          live,                       \* the timers that are allocated
          now,
          ready,                      \* descriptors with something to read
          loop,                       \* where ril_event_loop is
          rfds, until,                \* its fd_set, and when select ends
          ev, next,                   \* of calcNextTimeout and firePending
          pc, mine,                   \* each vendor thread and its timer
          register                    \* where RIL_register is

vars == <<timer_list, pending_list, watch_table, nfds, timeout, live, now,
          ready, loop, rfds, until, ev, next, pc, mine, register>>

timers == <<timer_list, timeout, live>>
watch  == <<watch_table, nfds>>
others == <<pc, mine, register>>

Forever  == MaxTime + 1     \* the end of a select without a timeout
Sentinel == -1              \* the head of a list, as a pointer to an event
Freed    == -2              \* a pointer to a block that has been freed
Indices  == 1..MAX_FD_EVENTS
readFds  == {watch_table[i] : i \in Indices} \ {None}

\* RIL_register is called once eventLoop watches its wakeup pipe.
Init == /\ timer_list = <<>> /\ pending_list = <<>>
        /\ watch_table = [i \in Indices |-> IF i = 1 THEN Wakeup ELSE None]
        /\ nfds = Wakeup + 1
        /\ timeout = [t \in Timers |-> 0]
        /\ live = {} /\ now = 0 /\ ready = {}
        /\ loop = "prepare" /\ rfds = {} /\ until = 0
        /\ ev = None /\ next = None
        /\ pc = [v \in Vendors |-> "idle"]
        /\ mine = [v \in Vendors |-> None]
        /\ register = "listen"

Larger(a, b) == IF a > b THEN a ELSE b
Goto(v, l) == pc' = [pc EXCEPT ![v] = l]

-----------------------------------------------------------------------------
(* ril_timer_add, ril_event_add and removeWatch, under listMutex *)

\* Faulty variant: a timer always goes to the end.
PlaceAtEnd(at) == Len(timer_list) + 1

\* Before the first timer that is not earlier.
PlaceFor(at) ==
    Min({Len(timer_list) + 1} \cup
        {i \in DOMAIN timer_list : timeout[timer_list[i]] >= at})

\* Which free address malloc gives makes no difference.
NewTimer == CHOOSE t \in Timers : t \notin live

TimerAdd(t, d) ==
    /\ live # Timers /\ now + d < MaxTime
    /\ live' = live \cup {t}
    /\ timeout' = [timeout EXCEPT ![t] = now + d]
    /\ timer_list' = InsertAt(timer_list, PlaceFor(now + d), t)

\* The first free index is taken; when there is none, nothing is done.
EventAdd(w) ==
    LET free == {i \in Indices : watch_table[i] = None}
    IN  IF free = {} THEN UNCHANGED watch
        ELSE /\ watch_table' = [watch_table EXCEPT ![Min(free)] = w]
             /\ nfds' = IF w >= nfds THEN w + 1 ELSE nfds

\* Faulty variant: nfds is the highest descriptor left.
NfdsTooLow(table) == Max({1} \cup ({table[i] : i \in Indices} \ {None}))

\* nfds as recomputed when the highest descriptor leaves the table.
NfdsOf(table) == 1 + Max({0} \cup ({table[i] : i \in Indices} \ {None}))

Unwatched(w) == [i \in Indices |-> IF watch_table[i] = w THEN None
                                                         ELSE watch_table[i]]

\* ril_event_del of w, and then ril_event_add of x.  All that could come in
\* between is RIL_register, whose event would be given the other's index.
EventReplace(w, x) ==
    LET table == Unwatched(w)
        n     == IF w + 1 = nfds THEN NfdsOf(table) ELSE nfds
    IN  /\ watch_table' = [table EXCEPT ![Min({i \in Indices : table[i] = None})] = x]
        /\ nfds' = IF x >= n THEN x + 1 ELSE n

-----------------------------------------------------------------------------
(* ril_event_loop *)

\* readFds is copied, and calcNextTimeout reads the head of the timer list.
Prepare ==
    /\ loop = "prepare"
    /\ rfds' = readFds
    /\ ev' = IF timer_list = <<>> THEN Sentinel ELSE Head(timer_list)
    /\ loop' = "calc"
    /\ UNCHANGED <<timers, pending_list, watch, now, ready, until, next, others>>

\* A timer that has expired leaves no time.
TimeLeft(at) == IF at > now THEN at - now ELSE 0

\* calcNextTimeout reads that timer, and select begins.
EnterSelect ==
    /\ loop = "calc"
    /\ \/ ev = Sentinel /\ until' = Forever /\ loop' = "select"
       \/ ev \in Timers /\ until' = now + TimeLeft(timeout[ev]) /\ loop' = "select"
       \/ ev = Freed /\ until' = 0 /\ loop' = "crashed"
    /\ ev' = None
    /\ rfds' = {w \in rfds : w < nfds}
    /\ UNCHANGED <<timers, pending_list, watch, now, ready, next, others>>

\* A descriptor is ready, or the time is over.
SelectReturns ==
    /\ loop = "select"
    /\ rfds \cap ready # {} \/ now >= until
    /\ rfds' = rfds \cap ready
    /\ until' = 0
    /\ loop' = "timeouts"
    /\ UNCHANGED <<timers, pending_list, watch, now, ready, ev, next, others>>

\* The leading timers that have expired move to pending_list.
ProcessTimeouts ==
    /\ loop = "timeouts"
    /\ LET waiting == {i \in DOMAIN timer_list : timeout[timer_list[i]] >= now}
           n == Min({Len(timer_list) + 1} \cup waiting) - 1
       IN  /\ pending_list' = pending_list \o SubSeq(timer_list, 1, n)
           /\ timer_list' = SubSeq(timer_list, n + 1, Len(timer_list))
    /\ loop' = "readies"
    /\ UNCHANGED <<timeout, live, watch, now, ready, rfds, until, ev, next, others>>

Readies == {i \in Indices : watch_table[i] \in rfds}
Increasing(S) == {f \in [1..Cardinality(S) -> S] :
                     \A j, k \in DOMAIN f : j < k => f[j] < f[k]}

\* The ready events in the order of their indices; the listen event, the only
\* one that is not persistent, leaves the table.
ProcessReadReadies ==
    /\ loop = "readies"
    /\ \E order \in Increasing(Readies) :
          pending_list' = pending_list \o
                             [k \in DOMAIN order |-> watch_table[order[k]]]
    /\ IF Listen \in rfds \cap readFds
       THEN /\ watch_table' = Unwatched(Listen)
            /\ nfds' = IF Listen + 1 = nfds THEN NfdsOf(Unwatched(Listen)) ELSE nfds
       ELSE UNCHANGED watch
    /\ rfds' = {}
    /\ loop' = "first"
    /\ UNCHANGED <<timers, now, ready, until, ev, next, others>>

-----------------------------------------------------------------------------
(* firePending *)

First ==
    /\ loop = "first"
    /\ ev' = IF pending_list = <<>> THEN Sentinel ELSE Head(pending_list)
    /\ loop' = "take"
    /\ UNCHANGED <<timers, pending_list, watch, now, ready, rfds, until, next, others>>

\* The list is at its end: the next turn of ril_event_loop.
NoneLeft ==
    /\ loop = "take" /\ ev = Sentinel
    /\ ev' = None
    /\ loop' = "prepare"
    /\ UNCHANGED <<timers, pending_list, watch, now, ready, rfds, until, next, others>>

\* ev->next is read and ev, the first of the list, is unlinked.
Take ==
    /\ loop = "take" /\ ev # Sentinel
    /\ IF ev = Freed
       THEN loop' = "crashed" /\ UNCHANGED <<pending_list, next>>
       ELSE /\ next' = IF Len(pending_list) = 1 THEN Sentinel ELSE pending_list[2]
            /\ pending_list' = Tail(pending_list)
            /\ loop' = "call"
    /\ UNCHANGED <<timers, watch, now, ready, rfds, until, ev, others>>

\* Leaving the callback: on with the next event.
Called == /\ ev' = next
          /\ next' = None
          /\ loop' = "take"

\* userTimerCallback; the vendor's function may arm another timer first.
\* Vendor threads know from it that their timer is gone.
CallTimer ==
    /\ loop = "call" /\ ev \in Timers
    /\ mine' = [v \in Vendors |-> IF mine[v] = ev /\ pc[v] # "delete"
                                  THEN None ELSE mine[v]]
    /\ \/ UNCHANGED timers
       \/ \E d \in Delays : TimerAdd(NewTimer, d)
    /\ loop' = "free"
    /\ UNCHANGED <<pending_list, watch, now, ready, rfds, until, ev, next, pc,
                   register>>

FreeTimer ==
    /\ loop = "free"
    /\ live' = live \ {ev}
    /\ timeout' = [timeout EXCEPT ![ev] = 0]
    /\ mine' = [v \in Vendors |-> IF mine[v] = ev THEN Freed ELSE mine[v]]
    /\ Called
    /\ UNCHANGED <<timer_list, pending_list, watch, now, ready, rfds, until, pc,
                   register>>

\* processWakeupCallback empties the pipe; debugCallback takes a connection.
CallPersistent ==
    /\ loop = "call" /\ ev \in {Wakeup, Debug}
    /\ ready' = ready \ {ev}
    /\ Called
    /\ UNCHANGED <<timers, pending_list, watch, now, rfds, until, others>>

\* listenCallback: a phone process is watched, else the loop listens again.
CallListen ==
    /\ loop = "call" /\ ev = Listen
    /\ ready' = ready \ {Listen}
    /\ \E w \in CommandFds \cup {Listen} : EventAdd(w)
    /\ Called
    /\ UNCHANGED <<timers, pending_list, now, rfds, until, others>>

\* processCommandsCallback: what is there is read, or the connection ends.
CallCommands ==
    /\ loop = "call" /\ ev \in CommandFds
    /\ ready' = ready \ {ev}
    /\ UNCHANGED watch \/ EventReplace(ev, Listen)
    /\ Called
    /\ UNCHANGED <<timers, pending_list, now, rfds, until, others>>

LoopStep == \/ Prepare \/ EnterSelect \/ SelectReturns
            \/ ProcessTimeouts \/ ProcessReadReadies
            \/ First \/ NoneLeft \/ Take
            \/ CallTimer \/ FreeTimer \/ CallPersistent \/ CallListen \/ CallCommands

-----------------------------------------------------------------------------
(* RIL_requestTimedCallback and RIL_removeTimedCallback in a vendor thread,   *)
(* which may keep the pointer to one timer, to remove it                      *)

RequestTimed(v) ==
    /\ pc[v] = "idle"
    /\ \E d \in Delays : TimerAdd(NewTimer, d)
    /\ \E p \in {mine[v], NewTimer} : mine' = [mine EXCEPT ![v] = p]
    /\ Goto(v, "trigger")
    /\ UNCHANGED <<pending_list, watch, now, ready, loop, rfds, until, ev, next,
                   register>>

\* Faulty variant: the loop is not woken up.
TriggerNothing(v) ==
    /\ pc[v] = "trigger"
    /\ Goto(v, "idle")
    /\ UNCHANGED <<timers, pending_list, watch, now, ready, loop, rfds, until,
                   ev, next, mine, register>>

Trigger(v) ==
    /\ pc[v] = "trigger"
    /\ ready' = ready \cup {Wakeup}
    /\ Goto(v, "idle")
    /\ UNCHANGED <<timers, pending_list, watch, now, loop, rfds, until,
                   ev, next, mine, register>>

RemoveTimed(v) ==
    /\ pc[v] = "idle" /\ mine[v] # None
    /\ Goto(v, "delete")
    /\ UNCHANGED <<timers, pending_list, watch, now, ready, loop, rfds, until,
                   ev, next, mine, register>>

Linked(t) == t \in ToSet(timer_list) \cup ToSet(pending_list)
Without(list, t) == IF t \notin ToSet(list) THEN list
                    ELSE RemoveAt(list, CHOOSE i \in DOMAIN list : list[i] = t)

\* ril_timer_delete takes the event out of whichever list it is in, and the
\* block is then freed; an event in neither list is left alone.
TimerDelete(v) ==
    /\ pc[v] = "delete"
    /\ LET t == mine[v] IN
       IF Linked(t)
       THEN /\ timer_list' = Without(timer_list, t)
            /\ pending_list' = Without(pending_list, t)
            /\ live' = live \ {t}
            /\ timeout' = [timeout EXCEPT ![t] = 0]
            /\ ev' = IF ev = t THEN Freed ELSE ev
            /\ next' = IF next = t THEN Freed ELSE next
            /\ UNCHANGED loop
       ELSE /\ loop' = IF t = Freed THEN "crashed" ELSE loop
            /\ UNCHANGED <<timers, pending_list, ev, next>>
    /\ mine' = [mine EXCEPT ![v] = None]
    /\ Goto(v, "idle")
    /\ UNCHANGED <<watch, now, ready, rfds, until, register>>

VendorStep(v) == Trigger(v) \/ TimerDelete(v)

-----------------------------------------------------------------------------
(* RIL_register adds the listen and the debug event, each with a trigger *)

AddEvent(w, after) ==
    /\ EventAdd(w)
    /\ register' = after
    /\ UNCHANGED <<timers, pending_list, now, ready, loop, rfds, until, ev, next,
                   pc, mine>>

WakeUp(after) ==
    /\ ready' = ready \cup {Wakeup}
    /\ register' = after
    /\ UNCHANGED <<timers, pending_list, watch, now, loop, rfds, until, ev, next,
                   pc, mine>>

Register == \/ register = "listen"       /\ AddEvent(Listen, "wake_listen")
            \/ register = "wake_listen"  /\ WakeUp("debug")
            \/ register = "debug"        /\ AddEvent(Debug, "wake_debug")
            \/ register = "wake_debug"   /\ WakeUp("done")

-----------------------------------------------------------------------------
(* Clients and the clock *)

\* What arrives outside of select is seen by the next select only.
DataArrives(w) ==
    /\ loop = "select"
    /\ w \in Fds \ (ready \cup {Wakeup})
    /\ w \in CommandFds => w \in readFds
    /\ ready' = ready \cup {w}
    /\ UNCHANGED <<timers, pending_list, watch, now, loop, rfds, until, ev, next,
                   others>>

Tick == /\ now < MaxTime
        /\ now' = now + 1
        /\ UNCHANGED <<timers, pending_list, watch, ready, loop, rfds, until, ev,
                       next, others>>

Next == /\ loop # "crashed"
        /\ \/ LoopStep \/ Register \/ Tick
           \/ \E v \in Vendors : RequestTimed(v) \/ RemoveTimed(v) \/ VendorStep(v)
           \/ \E w \in Fds : DataArrives(w)

Spec == Init /\ [][Next]_vars

\* The loop runs, a call that arms or removes a timer goes on, and time passes.
FairSpec == /\ Spec
            /\ WF_vars(LoopStep /\ loop # "crashed")
            /\ WF_vars(Tick /\ loop # "crashed")
            /\ \A v \in Vendors : WF_vars(VendorStep(v) /\ loop # "crashed")

-----------------------------------------------------------------------------
(* Properties *)

Pointers == Timers \cup Fds \cup {None, Sentinel, Freed}

\* The variables have their types; in particular select is given no negative
\* time, which it would refuse.
TypeOK == /\ timer_list \in Seq(Timers)
          /\ pending_list \in Seq(Timers \cup Fds)
          /\ watch_table \in [Indices -> Fds \cup {None}]
          /\ nfds \in Nat
          /\ timeout \in [Timers -> 0..MaxTime]
          /\ live \subseteq Timers
          /\ now \in 0..MaxTime /\ until \in 0..Forever
          /\ ready \subseteq Fds /\ rfds \subseteq Fds
          /\ loop \in {"prepare", "calc", "select", "timeouts",
                       "readies", "first", "take", "call", "free", "crashed"}
          /\ ev \in Pointers /\ next \in Pointers
          /\ pc \in [Vendors -> {"idle", "trigger", "delete"}]
          /\ mine \in [Vendors -> Timers \cup {None, Freed}]
          /\ register \in {"listen", "wake_listen", "debug", "wake_debug", "done"}

Waiting == ToSet(timer_list) \cup (ToSet(pending_list) \cap Timers)

\* Timers fire in the order of their times, whoever armed them and however the
\* batches of firePending fall: when one is called it is due, and none that is
\* still waiting was due before it (ril_timer_add, processTimeouts).
FiredInOrder ==
    [][loop = "call" /\ ev \in Timers /\ loop' = "free" =>
          /\ now > timeout[ev]
          /\ \A t \in Waiting : timeout[t] >= timeout[ev]]_vars

\* An armed timer fires or is removed, also if it is armed while the loop is
\* on its way into a select that would end later, or never (triggerEvLoop).
TimerFires == \A t \in Timers :
    t \in live ~> t \notin live \/ loop = "crashed"

Awoken == \/ Wakeup \in ready
          \/ register \in {"wake_listen", "wake_debug"}
          \/ \E v \in Vendors : pc[v] = "trigger"

\* A select sleeps past nothing: it looks at every watched descriptor, also
\* when the highest one has been removed (nfds), and ends when the first timer
\* is due, unless a byte in the wakeup pipe, or one still to be written, ends
\* it (triggerEvLoop).
SelectCovers ==
    loop = "select" =>
       \/ Awoken
       \/ /\ readFds \subseteq rfds
          /\ \A t \in ToSet(timer_list) : until <= Larger(timeout[t], now)
=============================================================================
