----------------------------- MODULE RilRequest -----------------------------
(***************************************************************************)
(* The command socket of src/libril/ril.cpp: the dispatch thread, which    *)
(* accepts one client at a time, reads its requests and hands them to the  *)
(* vendor RIL, and the vendor's threads, which complete requests and send  *)
(* unsolicited messages whenever they like.                                *)
(*                                                                         *)
(* Connections are numbered in the order they are accepted.  The kernel    *)
(* gives out the lowest free descriptor, so each gets the number the last  *)
(* one had: a thread that kept Fd over a close writes to whatever          *)
(* connection is behind Fd by then.                                        *)
(***************************************************************************)
EXTENDS Integers, FiniteSets

CONSTANTS Requests,    \* the RequestInfo blocks that may be in use at a time
          Vendors,     \* threads of the vendor RIL
          Dispatch,    \* the thread of eventLoop
          NoThread,
          MaxClients   \* bound: the connections accepted in a behaviour

ASSUME RilAssumption == /\ Dispatch \notin Vendors
                        /\ NoThread \notin Vendors \cup {Dispatch}
                        /\ MaxClients \in Nat

VARIABLES listening,     \* s_listen_event is in the watch table
          watched,       \* s_commands_event is
          s_fdCommand,
          open,          \* the connection behind Fd, 0 when it is closed
          peer,          \* whether its client still has it open
          clients,       \* the connections accepted so far
          loop,          \* where the dispatch thread is in its event loop
          pending,       \* s_pendingRequests, by block
          pc,            \* where each thread is in a call that sends
          job,           \* whose request it answers, 0 for unsolicited
          s_writeMutex,
          stream,        \* how each connection's stream of frames looks
          answered       \* which clients' requests were answered to whom

events == <<listening, watched>>
socket == <<s_fdCommand, open, peer, clients>>
sending == <<pc, job, s_writeMutex, stream, answered>>
vars   == <<listening, watched, s_fdCommand, open, peer, clients, loop,
            pending, pc, job, s_writeMutex, stream, answered>>

Fd      == 7
Threads == Vendors \cup {Dispatch}
Clients == 1..MaxClients
Free    == [client |-> 0, local |-> FALSE, cancelled |-> FALSE, handed |-> FALSE]

Init == /\ listening = TRUE /\ watched = FALSE
        /\ s_fdCommand = -1 /\ open = 0 /\ peer = FALSE /\ clients = 0
        /\ loop = "turn"
        /\ pending = [r \in Requests |-> Free]
        /\ pc = [t \in Threads |-> "idle"]
        /\ job = [t \in Threads |-> 0]
        /\ s_writeMutex = NoThread
        /\ stream = [c \in Clients |-> "whole"]
        /\ answered = {}

\* The dispatch thread is at l, and not inside a call that sends.
At(l) == loop = l /\ pc[Dispatch] = "idle"

InUse(r) == pending[r] # Free

-----------------------------------------------------------------------------
(* ril_event_loop, with one ready event at a time *)

\* A watched descriptor that is closed makes select fail, and the loop end.
EnterSelect ==
    /\ At("turn")
    /\ loop' = IF watched /\ open = 0 THEN "returned" ELSE "select"
    /\ UNCHANGED <<events, socket, pending, sending>>

\* The listen event is not persistent: it leaves the table when it fires.
ListenReady ==
    /\ At("select") /\ listening /\ clients < MaxClients
    /\ listening' = FALSE
    /\ loop' = "accept"
    /\ UNCHANGED <<watched, socket, pending, sending>>

CommandsReady ==
    /\ At("select") /\ watched
    /\ loop' = "read"
    /\ UNCHANGED <<events, socket, pending, sending>>

DebugReady ==
    /\ At("select")
    /\ loop' = "debug"
    /\ UNCHANGED <<events, socket, pending, sending>>

-----------------------------------------------------------------------------
(* listenCallback *)

\* Faulty variant: after a failed accept nobody listens any more.
AcceptOnce ==
    /\ At("accept")
    /\ \/ /\ s_fdCommand' = Fd
          /\ clients' = clients + 1 /\ open' = clients + 1 /\ peer' = TRUE
          /\ loop' = "check"
       \/ /\ s_fdCommand' = -1
          /\ loop' = "turn"
          /\ UNCHANGED <<clients, open, peer>>
    /\ UNCHANGED <<events, pending, sending>>

Accept ==
    /\ At("accept")
    /\ \/ /\ s_fdCommand' = Fd
          /\ clients' = clients + 1 /\ open' = clients + 1 /\ peer' = TRUE
          /\ loop' = "check"
          /\ UNCHANGED listening
       \/ /\ s_fdCommand' = -1                       \* accept failed
          /\ listening' = TRUE
          /\ loop' = "turn"
          /\ UNCHANGED <<clients, open, peer>>
    /\ UNCHANGED <<watched, pending, sending>>

\* The phone process is greeted with RADIO_STATE_CHANGED and, if one is kept,
\* the last NITZ message (onNewCommandConnect); the socket of another process
\* is closed.
CheckPeer ==
    /\ At("check")
    /\ \/ /\ watched' = TRUE
          /\ loop' = "greet"
          /\ pc' = [pc EXCEPT ![Dispatch] = "send"]
       \/ /\ loop' = "close"
          /\ UNCHANGED <<watched, pc>>
    /\ UNCHANGED <<listening, socket, pending, job, s_writeMutex, stream, answered>>

SendLastNITZ ==
    /\ At("greet")
    /\ loop' = "turn"
    /\ \E l \in {"idle", "send"} : pc' = [pc EXCEPT ![Dispatch] = l]
    /\ UNCHANGED <<events, socket, pending, job, s_writeMutex, stream, answered>>

-----------------------------------------------------------------------------
(* processCommandsCallback *)

\* A request is queued and given to onRequest, unless its parcel is invalid:
\* then it stays in the list and nobody completes it (invalidCommandBlock).
NewRequest(r) ==
    /\ At("read") /\ open # 0 /\ ~InUse(r)
    /\ \E h \in BOOLEAN :
          pending' = [pending EXCEPT ![r] = [Free EXCEPT !.client = open,
                                                         !.handed = h]]
    /\ UNCHANGED <<events, socket, loop, sending>>

ReadAgain ==
    /\ At("read") /\ open # 0 /\ peer
    /\ loop' = "turn"
    /\ UNCHANGED <<events, socket, pending, sending>>

\* End of stream, or an error: the descriptor was closed by a failed write.
EndOfStream ==
    /\ At("read") /\ (open # 0 => ~peer)
    /\ loop' = "close"
    /\ UNCHANGED <<events, socket, pending, sending>>

CloseCommand ==
    /\ At("close")
    /\ open' = 0 /\ peer' = FALSE
    /\ loop' = "clear"
    /\ UNCHANGED <<events, s_fdCommand, clients, pending, sending>>

\* Faulty variant: s_fdCommand is left as it is.
ClearCommandNot ==
    /\ At("clear")
    /\ watched' = FALSE /\ listening' = TRUE
    /\ loop' = "cancel"
    /\ UNCHANGED <<socket, pending, sending>>

\* Faulty variant: onCommandsSocketClosed is not called.
ClearCommandOnly ==
    /\ At("clear")
    /\ s_fdCommand' = -1
    /\ watched' = FALSE /\ listening' = TRUE
    /\ loop' = "turn"
    /\ UNCHANGED <<open, peer, clients, pending, sending>>

ClearCommand ==
    /\ At("clear")
    /\ s_fdCommand' = -1
    /\ watched' = FALSE /\ listening' = TRUE
    /\ loop' = "cancel"
    /\ UNCHANGED <<open, peer, clients, pending, sending>>

Cancel(p) == [p EXCEPT !.cancelled = TRUE]

\* onCommandsSocketClosed; s_pendingRequestsMutex is held.
CancelPending ==
    /\ At("cancel")
    /\ pending' = [r \in Requests |-> IF InUse(r) THEN Cancel(pending[r]) ELSE Free]
    /\ loop' = "turn"
    /\ UNCHANGED <<events, socket, sending>>

-----------------------------------------------------------------------------
(* debugCallback: its requests are local.  Radio power off closes the command *)
(* socket, and radio on is followed by a second request.                      *)

DebugRequest(r) ==
    /\ \/ At("debug") /\ loop' \in {"turn", "debug_again", "debug_close"}
       \/ At("debug_again") /\ loop' = "turn"
    /\ ~InUse(r)
    /\ pending' = [pending EXCEPT ![r] = [Free EXCEPT !.local = TRUE,
                                                      !.handed = TRUE]]
    /\ UNCHANGED <<events, socket, sending>>

\* accept or recv failed, or the number is none the switch knows.
DebugNothing ==
    /\ At("debug")
    /\ loop' = "turn"
    /\ UNCHANGED <<events, socket, pending, sending>>

DebugUnsolicited ==
    /\ At("debug")
    /\ loop' = "turn"
    /\ pc' = [pc EXCEPT ![Dispatch] = "send"]
    /\ UNCHANGED <<events, socket, pending, job, s_writeMutex, stream, answered>>

DebugClose ==
    /\ At("debug_close")
    /\ open' = 0 /\ peer' = FALSE
    /\ loop' = "debug_clear"
    /\ UNCHANGED <<events, s_fdCommand, clients, pending, sending>>

DebugClear ==
    /\ At("debug_clear")
    /\ s_fdCommand' = -1
    /\ loop' = "turn"
    /\ UNCHANGED <<events, open, peer, clients, pending, sending>>

LoopStep == \/ EnterSelect \/ ListenReady \/ CommandsReady \/ DebugReady
            \/ Accept \/ CheckPeer \/ SendLastNITZ
            \/ (\E r \in Requests : NewRequest(r) \/ DebugRequest(r))
            \/ ReadAgain \/ EndOfStream \/ CloseCommand \/ ClearCommand
            \/ CancelPending \/ DebugNothing \/ DebugUnsolicited
            \/ DebugClose \/ DebugClear

\* The client closes its end.
PeerCloses ==
    /\ peer
    /\ peer' = FALSE
    /\ UNCHANGED <<events, s_fdCommand, open, clients, loop, pending, sending>>

-----------------------------------------------------------------------------
(* RIL_onRequestComplete, RIL_onUnsolicitedResponse and sendResponseRaw *)

\* The vendor completes each request given to it once, from any thread; from
\* the dispatch thread it does so inside onRequest.  Nothing sets cancelled
\* once the request is off the list.
RequestComplete(t, r) ==
    /\ pc[t] = "idle" /\ (t = Dispatch => loop = "read")
    /\ pending[r].handed
    /\ pending' = [pending EXCEPT ![r] = Free]
    /\ IF pending[r].local \/ pending[r].cancelled
       THEN UNCHANGED <<pc, job>>
       ELSE /\ pc' = [pc EXCEPT ![t] = "send"]
            /\ job' = [job EXCEPT ![t] = pending[r].client]
    /\ UNCHANGED <<events, socket, loop, s_writeMutex, stream, answered>>

Unsolicited(t) ==
    /\ pc[t] = "idle"
    /\ pc' = [pc EXCEPT ![t] = "send"]
    /\ UNCHANGED <<events, socket, loop, pending, job, s_writeMutex, stream, answered>>

\* Leaving the call.
Return(t) == /\ pc' = [pc EXCEPT ![t] = "idle"]
             /\ job' = [job EXCEPT ![t] = 0]

\* s_fdCommand is read, without a lock.  Nothing is sent without a client, nor
\* a packet larger than MAX_COMMAND_BYTES.  (The code reads it twice, for the
\* write and for the test; when a client is accepted in between, the write to
\* -1 fails, which is a return like any other.)
ReadFd(t) ==
    /\ pc[t] = "send"
    /\ \/ Return(t)
       \/ /\ s_fdCommand # -1
          /\ pc' = [pc EXCEPT ![t] = "write"]
          /\ UNCHANGED job
    /\ UNCHANGED <<events, socket, loop, pending, s_writeMutex, stream, answered>>

\* What a header and a payload make of the frames of a stream.
Framed == [whole  |-> [header |-> "header", payload |-> "headless"],
           header |-> [header |-> "interleaved", payload |-> "whole"],
           headless    |-> [header |-> "headless", payload |-> "headless"],
           interleaved |-> [header |-> "interleaved", payload |-> "interleaved"]]

Receives(what) == stream' = [stream EXCEPT ![open] = Framed[@][what]]

\* Faulty variant: the error path keeps s_writeMutex.
WriteFailsLocked(t) ==
    /\ open' = 0 /\ peer' = FALSE
    /\ s_writeMutex' = t
    /\ Return(t)
    /\ UNCHANGED <<stream, answered>>

\* EAGAIN (the socket does not block), EPIPE and EBADF are all errors; the
\* descriptor is closed, but neither cleared nor taken from the watch table.
WriteFails(t) ==
    /\ open' = 0 /\ peer' = FALSE
    /\ s_writeMutex' = NoThread
    /\ Return(t)
    /\ UNCHANGED <<stream, answered>>

\* Faulty variant: s_writeMutex is not taken.
WriteHeaderUnlocked(t) ==
    /\ pc[t] = "write" /\ s_writeMutex = NoThread
    /\ \/ WriteFails(t)
       \/ /\ open # 0 /\ peer
          /\ Receives("header")
          /\ pc' = [pc EXCEPT ![t] = "payload"]
          /\ UNCHANGED <<open, peer, job, s_writeMutex, answered>>
    /\ UNCHANGED <<events, s_fdCommand, clients, loop, pending>>

WriteHeader(t) ==
    /\ pc[t] = "write" /\ s_writeMutex = NoThread
    /\ \/ WriteFails(t)
       \/ /\ open # 0 /\ peer
          /\ Receives("header")
          /\ s_writeMutex' = t
          /\ pc' = [pc EXCEPT ![t] = "payload"]
          /\ UNCHANGED <<open, peer, job, answered>>
    /\ UNCHANGED <<events, s_fdCommand, clients, loop, pending>>

WritePayload(t) ==
    /\ pc[t] = "payload"
    /\ \/ WriteFails(t)
       \/ /\ open # 0 /\ peer
          /\ Receives("payload")
          /\ s_writeMutex' = NoThread
          /\ answered' = IF job[t] = 0 THEN answered
                         ELSE answered \cup {[from |-> job[t], to |-> open]}
          /\ Return(t)
          /\ UNCHANGED <<open, peer>>
    /\ UNCHANGED <<events, s_fdCommand, clients, loop, pending>>

SendStep(t) == ReadFd(t) \/ WriteHeader(t) \/ WritePayload(t)

-----------------------------------------------------------------------------

Next == \/ LoopStep
        \/ PeerCloses
        \/ \E t \in Vendors : Unsolicited(t)
        \/ \E t \in Threads : \/ SendStep(t)
                              \/ \E r \in Requests : RequestComplete(t, r)

Spec == Init /\ [][Next]_vars

\* A thread that sends goes on, and gets s_writeMutex in the end when the
\* others keep giving it back.
FairSpec == /\ Spec
            /\ \A t \in Threads : /\ WF_vars(ReadFd(t) \/ WritePayload(t))
                                  /\ SF_vars(WriteHeader(t))

-----------------------------------------------------------------------------
(* Properties *)

Request == [client : 0..MaxClients, local : BOOLEAN, cancelled : BOOLEAN,
            handed : BOOLEAN]

\* The variables have their types.
TypeOK == /\ listening \in BOOLEAN /\ watched \in BOOLEAN
          /\ s_fdCommand \in {-1, Fd}
          /\ open \in 0..MaxClients /\ peer \in BOOLEAN
          /\ clients \in 0..MaxClients
          /\ loop \in {"turn", "select", "accept", "check", "greet", "read",
                       "close", "clear", "cancel", "debug", "debug_again",
                       "debug_close", "debug_clear", "returned"}
          /\ pending \in [Requests -> Request]
          /\ pc \in [Threads -> {"idle", "send", "write", "payload"}]
          /\ job \in [Threads -> 0..MaxClients]
          /\ s_writeMutex \in Threads \cup {NoThread}
          /\ stream \in [Clients -> DOMAIN Framed]
          /\ answered \subseteq [from : Clients, to : Clients]

\* A request still pending when its client's connection ends is cancelled
\* before the next client is listened for: what is pending and not cancelled
\* belongs to the connection that is served (onCommandsSocketClosed).
CancelledInTime ==
    \A r \in Requests : InUse(r) /\ ~pending[r].local /\ ~pending[r].cancelled =>
        /\ pending[r].client = clients
        /\ watched \/ loop = "cancel"

\* As long as the loop goes on it either watches a client's socket, which a
\* failed write may have closed, or listens for a client, and never both: after
\* an end of stream, a foreign peer and the debug port, in any order
\* (processCommandsCallback, the three error paths of listenCallback).
ServesOrListens ==
    loop \in {"turn", "select", "greet", "read", "debug", "debug_again"} =>
        (listening <=> ~watched)

\* The assertions on s_fdCommand: listenCallback has none when it accepts, and
\* processCommandsCallback reads the one it was registered for.
AssertsHold == /\ loop = "accept" => s_fdCommand = -1
               /\ loop = "read" => s_fdCommand = Fd

\* Two responses are never mixed in one client's stream (s_writeMutex).
NotInterleaved == \A c \in Clients : stream[c] # "interleaved"

\* Every call that sends returns: no path keeps s_writeMutex.
SendReturns == \A t \in Threads : pc[t] # "idle" ~> pc[t] = "idle"

\* "mark pending requests as 'cancelled' so we dont report responses"
\* (onCommandsSocketClosed): a client never gets the response to a request
\* of a client before it.
NoForeignResponse == \A a \in answered : a.to = a.from

\* After a "fatal error or end-of-stream" on the command socket the loop is to
\* "start listening for new connections again" (processCommandsCallback), so
\* it does not end.
ListensAgain == loop # "returned"
=============================================================================
