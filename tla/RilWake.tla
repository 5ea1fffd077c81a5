------------------------------ MODULE RilWake -------------------------------
(***************************************************************************)
(* The wake lock of unsolicited messages in src/libril/ril.cpp: vendor     *)
(* threads grab it in RIL_onUnsolicitedResponse and arm a timer; the       *)
(* dispatch thread releases it when the timer fires, unless a later        *)
(* message has cancelled that timer through s_last_wake_timeout_info.  No  *)
(* lock protects that pointer or what it points to.                        *)
(*                                                                         *)
(* Only messages of wake type WAKE_PARTIAL matter here.  All timers are    *)
(* armed for the same time and fire in the order they were armed, or in    *)
(* the other order when that was in the same microsecond; the model lets   *)
(* any armed timer fire.                                                   *)
(*                                                                         *)
(* The names leave room for those of RilRequest, the other half of ril.cpp *)
(* that vendor threads call: a module may extend both.                     *)
(***************************************************************************)
EXTENDS Integers, FiniteSets

CONSTANTS Senders,    \* the vendor RIL's threads that send such messages
          Infos,      \* addresses malloc gives to UserCallbackInfo blocks
          NoInfo,     \* NULL
          MaxCalls    \* bound: the messages in a behaviour

ASSUME WakeAssumption == NoInfo \notin Infos /\ MaxCalls \in Nat

VARIABLES wakeLock,   \* ANDROID_WAKE_LOCK_NAME is held
          last,       \* s_last_wake_timeout_info
          live,       \* the blocks that are allocated
          userParam,  \* of each block: TRUE is 1, cancelled
          armed,      \* the blocks whose event is in timer_list
          wakePc,     \* where each vendor thread is,
          seen,       \* and the value of last it tested
          fire,       \* where the dispatch thread is in userTimerCallback
          p_info,     \* its block
          calls,      \* messages so far
          broken      \* a thread used a block that is not allocated, or NULL

heap     == <<live, userParam, armed>>
wakeVars == <<wakeLock, last, live, userParam, armed, wakePc, seen, fire,
              p_info, calls, broken>>

WakeInit == /\ wakeLock = FALSE
            /\ last = NoInfo
            /\ live = {} /\ armed = {}
            /\ userParam = [i \in Infos |-> FALSE]
            /\ wakePc = [v \in Senders |-> "idle"]
            /\ seen = [v \in Senders |-> NoInfo]
            /\ fire = "idle" /\ p_info = NoInfo
            /\ calls = 0
            /\ broken = FALSE

Goto(v, l) == wakePc' = [wakePc EXCEPT ![v] = l]
dispatch == <<fire, p_info>>

-----------------------------------------------------------------------------
(* RIL_onUnsolicitedResponse *)

Grab(v) ==
    /\ wakePc[v] = "idle" /\ calls < MaxCalls
    /\ wakeLock' = TRUE
    /\ calls' = calls + 1
    /\ Goto(v, "marshal")
    /\ UNCHANGED <<last, heap, seen, dispatch, broken>>

\* Faulty variant: the error path does not release the lock.
MarshalFailsHolding(v) ==
    /\ wakePc[v] = "marshal"
    /\ Goto(v, "idle")
    /\ UNCHANGED <<wakeLock, last, heap, seen, dispatch, calls, broken>>

\* The response function failed: error_exit gives the lock back.
MarshalFails(v) ==
    /\ wakePc[v] = "marshal"
    /\ wakeLock' = FALSE
    /\ Goto(v, "idle")
    /\ UNCHANGED <<last, heap, seen, dispatch, calls, broken>>

\* The message was sent, or not; is there an earlier timer?
TestLast(v) ==
    /\ wakePc[v] = "marshal"
    /\ seen' = [seen EXCEPT ![v] = last]
    /\ Goto(v, IF last = NoInfo THEN "arm" ELSE "cancel")
    /\ UNCHANGED <<wakeLock, last, heap, dispatch, calls, broken>>

\* The pointer may be loaded again, or still be the one that was tested.
CancelLast(v) ==
    /\ wakePc[v] = "cancel"
    /\ \E p \in {last, seen[v]} :
          IF p \in live
          THEN userParam' = [userParam EXCEPT ![p] = TRUE] /\ UNCHANGED broken
          ELSE broken' = TRUE /\ UNCHANGED userParam
    /\ seen' = [seen EXCEPT ![v] = NoInfo]
    /\ Goto(v, "arm")
    /\ UNCHANGED <<wakeLock, last, live, armed, dispatch, calls>>

\* internalRequestTimedCallback, up to ril_timer_add.
Arm(v) ==
    /\ wakePc[v] = "arm"
    /\ \E i \in Infos \ live :
          /\ live' = live \cup {i} /\ armed' = armed \cup {i}
          /\ userParam' = [userParam EXCEPT ![i] = FALSE]
          /\ seen' = [seen EXCEPT ![v] = i]
    /\ Goto(v, "store")
    /\ UNCHANGED <<wakeLock, last, dispatch, calls, broken>>

\* What it returned is stored in s_last_wake_timeout_info.
StoreLast(v) ==
    /\ wakePc[v] = "store"
    /\ last' = seen[v]
    /\ seen' = [seen EXCEPT ![v] = NoInfo]
    /\ Goto(v, "idle")
    /\ UNCHANGED <<wakeLock, heap, dispatch, calls, broken>>

CallStep(v) == MarshalFails(v) \/ TestLast(v) \/ CancelLast(v) \/ Arm(v)
                 \/ StoreLast(v)

-----------------------------------------------------------------------------
(* userTimerCallback with wakeTimeoutCallback, from firePending *)

Expire(i) ==
    /\ fire = "idle" /\ i \in armed
    /\ armed' = armed \ {i}
    /\ p_info' = i
    /\ fire' = "call"
    /\ UNCHANGED <<wakeLock, last, live, userParam, wakePc, seen, calls,
                   broken>>

\* Faulty variant: the test is the wrong way round.
ReadParamInverted ==
    /\ fire = "call"
    /\ fire' = IF userParam[p_info] THEN "release" ELSE "clear"
    /\ UNCHANGED <<wakeLock, last, heap, wakePc, seen, p_info, calls, broken>>

ReadParam ==
    /\ fire = "call"
    /\ fire' = IF userParam[p_info] THEN "clear" ELSE "release"
    /\ UNCHANGED <<wakeLock, last, heap, wakePc, seen, p_info, calls, broken>>

Release ==
    /\ fire = "release"
    /\ wakeLock' = FALSE
    /\ fire' = "clear"
    /\ UNCHANGED <<last, heap, wakePc, seen, p_info, calls, broken>>

\* The comparison and the assignment are two steps.
CompareLast ==
    /\ fire = "clear"
    /\ fire' = IF last = p_info THEN "null" ELSE "free"
    /\ UNCHANGED <<wakeLock, last, heap, wakePc, seen, p_info, calls, broken>>

ClearLast ==
    /\ fire = "null"
    /\ last' = NoInfo
    /\ fire' = "free"
    /\ UNCHANGED <<wakeLock, heap, wakePc, seen, p_info, calls, broken>>

\* Faulty variant: the block is not freed.
FreeNothing ==
    /\ fire = "free"
    /\ p_info' = NoInfo
    /\ fire' = "idle"
    /\ UNCHANGED <<wakeLock, last, heap, wakePc, seen, calls, broken>>

FreeInfo ==
    /\ fire = "free"
    /\ live' = live \ {p_info}
    /\ userParam' = [userParam EXCEPT ![p_info] = FALSE]
    /\ p_info' = NoInfo
    /\ fire' = "idle"
    /\ UNCHANGED <<wakeLock, last, armed, wakePc, seen, calls, broken>>

FireStep == \/ \E i \in Infos : Expire(i)
            \/ ReadParam \/ Release \/ CompareLast \/ ClearLast \/ FreeInfo

-----------------------------------------------------------------------------

\* Nothing is said of a process once it has used memory it does not own.
WakeNext == /\ ~broken
            /\ \/ FireStep
               \/ \E v \in Senders : Grab(v) \/ CallStep(v)

WakeSpec == WakeInit /\ [][WakeNext]_wakeVars

\* Calls go on, and armed timers expire and are served.
FairWakeSpec == WakeSpec /\ WF_wakeVars(FireStep /\ ~broken)
                     /\ \A v \in Senders : WF_wakeVars(CallStep(v) /\ ~broken)

-----------------------------------------------------------------------------
(* Properties *)

\* The variables have their types.
WakeTypeOK == /\ wakeLock \in BOOLEAN /\ broken \in BOOLEAN
              /\ last \in Infos \cup {NoInfo}
              /\ live \subseteq Infos /\ armed \subseteq Infos
              /\ userParam \in [Infos -> BOOLEAN]
              /\ wakePc \in [Senders -> {"idle", "marshal", "cancel", "arm",
                                         "store"}]
              /\ seen \in [Senders -> Infos \cup {NoInfo}]
              /\ fire \in {"idle", "call", "release", "clear", "null", "free"}
              /\ p_info \in Infos \cup {NoInfo}
              /\ calls \in 0..MaxCalls

Releasing == {i \in armed : ~userParam[i]}

\* The wake lock is never forgotten: while it is held there is a timer, not
\* cancelled, or a call still going on, that will release it.
LockHasOwner ==
    wakeLock => \/ Releasing # {}
                \/ fire = "release" \/ (fire = "call" /\ ~userParam[p_info])
                \/ \E v \in Senders : wakePc[v] \in {"marshal", "cancel", "arm"}

\* Every block is in the timer list until the dispatch thread has it, and is
\* freed by that thread alone.
InfosAccounted == live = armed \cup (IF fire = "idle" THEN {} ELSE {p_info})

\* Once the messages end the lock is released, and the phone may sleep.
SleepsAgain == wakeLock ~> ~wakeLock \/ broken

\* "as we exit we'll either release it immediately or set a timer to release
\* it later" (RIL_onUnsolicitedResponse): the lock is held for as long as the
\* timer of the message that grabbed it is pending.
HeldUntilTimer == Releasing # {} => wakeLock

\* "Cancel the previous request" (RIL_onUnsolicitedResponse): if the vendor
\* sends from one thread, no two timers are left that will release the lock.
OneReleases == Cardinality(Releasing) <= 1

\* "clear it when the callback occurs" (internalRequestTimedCallback): the
\* pointer a message cancels the timer before it through is never stale.
NotStale == ~broken
=============================================================================
