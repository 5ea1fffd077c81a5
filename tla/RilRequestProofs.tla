-------------------------- MODULE RilRequestProofs --------------------------
(***************************************************************************)
(* For any vendor threads, blocks and number of connections: whatever ends *)
(* a connection of RilRequest, the next client is listened for, finds      *)
(* nothing pending of the one before it, and no two responses are mixed in *)
(* its stream.                                                             *)
(*                                                                         *)
(* The argument: the loop's place tells which of the two sockets is in the *)
(* watch table; s_fdCommand is cleared before the socket leaves it, or, in *)
(* debugCallback, after it was closed, so that select fails.  A stream     *)
(* that is open and has a header alone belongs to the holder of            *)
(* s_writeMutex: a header that is not followed by its payload is in a      *)
(* stream nobody writes any more.                                          *)
(***************************************************************************)
EXTENDS RilRequest, RilWake, TLAPS

\* Which socket is in the watch table: neither while a client is taken,
\* and none for a new one before the old one is dealt with.
WatchOK ==
    /\ loop \in {"accept", "check"} => ~watched /\ ~listening
    /\ loop \in {"close", "clear"} => ~listening
    /\ loop = "cancel" => ~watched /\ listening
    /\ loop \notin {"accept", "check", "close", "clear", "cancel", "returned"}
         => (listening <=> ~watched)

\* s_fdCommand is set as long as its event is watched, unless debugCallback
\* has closed the socket, and select is about to find that out.
FdOK ==
    /\ ~watched /\ loop \notin {"check", "greet", "close", "clear"}
         => s_fdCommand = -1
    /\ loop \in {"select", "greet", "read", "debug", "debug_again",
                 "debug_close", "debug_clear"} /\ watched
         => s_fdCommand = Fd
    /\ loop \in {"read", "greet"} => watched
    /\ loop = "check" => s_fdCommand = Fd
    /\ watched /\ s_fdCommand = -1 => open = 0
    /\ loop = "debug_clear" => open = 0

\* The connection behind Fd is the last that was accepted; the streams of
\* those to come are untouched.
OpenOK == /\ open \in {0, clients}
          /\ loop = "accept" => clients < MaxClients
          /\ \A c \in Clients : c > clients => stream[c] = "whole"

\* s_writeMutex is held between a header and its payload,
MutexOK == \A t \in Threads : pc[t] = "payload" <=> s_writeMutex = t

\* and only then is the open stream without a payload it has to get.
HeaderOK == open # 0 /\ stream[open] = "header" => s_writeMutex # NoThread

IInv == /\ TypeOK /\ WatchOK /\ FdOK /\ OpenOK /\ MutexOK /\ HeaderOK
        /\ CancelledInTime /\ NotInterleaved

-----------------------------------------------------------------------------

\* Nobody is no thread.
LEMMA NobodyIsNoThread == NoThread \notin Threads
  BY RilAssumption DEF Threads

\* What is written leaves no stream interleaved: a header comes to a stream
\* that has its payloads, and a payload ends a frame.
LEMMA FramedStates ==
    /\ DOMAIN Framed = {"whole", "header", "headless", "interleaved"}
    /\ \A w \in {"whole", "headless"} :
          Framed[w]["header"] \in {"header", "headless"}
    /\ \A w \in {"whole", "header", "headless"} :
          Framed[w]["payload"] \in {"whole", "headless"}
  BY DEF Framed

\* Nothing is watched but the listening socket at the start.
LEMMA InitIInv == Init => IInv
  <1> SUFFICES ASSUME Init PROVE IInv
    OBVIOUS
  <1>1. TypeOK
    <2>1. Free \in Request
      BY RilAssumption DEF Free, Request
    <2>2. NoThread \in Threads \cup {NoThread} /\ "whole" \in DOMAIN Framed
      BY FramedStates
    <2>3. 0 \in 0..MaxClients
      BY RilAssumption
    <2>4. /\ pending \in [Requests -> Request]
          /\ pc \in [Threads -> {"idle", "send", "write", "payload"}]
          /\ job \in [Threads -> 0..MaxClients]
          /\ stream \in [Clients -> DOMAIN Framed]
      BY <2>1, <2>2, <2>3 DEF Init
    <2>5. /\ listening \in BOOLEAN /\ watched \in BOOLEAN /\ peer \in BOOLEAN
          /\ s_fdCommand \in {-1, Fd}
      BY DEF Init
    <2>6. QED BY <2>2, <2>3, <2>4, <2>5 DEF Init, TypeOK
  <1>2. WatchOK /\ FdOK
    BY DEF Init, WatchOK, FdOK
  <1>3. OpenOK /\ MutexOK /\ HeaderOK
    BY NobodyIsNoThread DEF Init, OpenOK, MutexOK, HeaderOK
  <1>4. CancelledInTime /\ NotInterleaved
    BY DEF Init, CancelledInTime, NotInterleaved, InUse, Free
  <1>5. QED BY <1>1, <1>2, <1>3, <1>4 DEF IInv

\* A step that writes nothing: no stream changes, nor who is between a header
\* and its payload.
WritesNothing ==
    /\ UNCHANGED <<s_writeMutex, stream, clients>>
    /\ \A t \in Threads : pc'[t] = "payload" <=> pc[t] = "payload"
    /\ open' \in {open, 0}
    /\ loop' = "accept" => loop = "accept" \/ clients < MaxClients

LEMMA WritesNothingKeeps ==
    ASSUME IInv, WritesNothing
    PROVE  OpenOK' /\ MutexOK' /\ HeaderOK' /\ NotInterleaved'
  <1>1. OpenOK'
    BY DEF IInv, OpenOK, WritesNothing
  <1>2. MutexOK'
    BY DEF IInv, MutexOK, WritesNothing
  <1>3. HeaderOK'
    BY DEF IInv, HeaderOK, WritesNothing
  <1>4. NotInterleaved'
    BY DEF IInv, NotInterleaved, WritesNothing
  <1>5. QED BY <1>1, <1>2, <1>3, <1>4

\* Nor does one that cancels or adds nothing that is pending, as long as the
\* client is served, or its requests are about to be cancelled.
LEMMA PendingKept ==
    ASSUME IInv, UNCHANGED <<pending, clients>>,
           watched \/ loop = "cancel" => watched' \/ loop' = "cancel"
    PROVE  CancelledInTime'
  BY DEF IInv, CancelledInTime, InUse

\* select begins, or the loop ends.
LEMMA EnterSelectKeeps == ASSUME IInv, EnterSelect PROVE IInv'
  <1>1. TypeOK'
    BY RilAssumption DEF IInv, TypeOK, EnterSelect, At, events, socket, sending
  <1>2. WatchOK' /\ FdOK'
    BY DEF IInv, TypeOK, WatchOK, FdOK, EnterSelect, At, events, socket
  <1>3. WritesNothing
    BY DEF WritesNothing, EnterSelect, At, socket, sending
  <1>4. CancelledInTime'
    BY PendingKept DEF EnterSelect, At, events, socket
  <1>5. QED BY <1>1, <1>2, <1>3, <1>4, WritesNothingKeeps DEF IInv

\* A client calls.
LEMMA ListenReadyKeeps == ASSUME IInv, ListenReady PROVE IInv'
  <1>1. TypeOK'
    BY RilAssumption DEF IInv, TypeOK, ListenReady, At, events, socket, sending
  <1>2. WatchOK' /\ FdOK'
    BY DEF IInv, WatchOK, FdOK, ListenReady, At, events, socket
  <1>3. WritesNothing
    BY DEF WritesNothing, ListenReady, At, socket, sending
  <1>4. CancelledInTime'
    BY PendingKept DEF ListenReady, At, events, socket
  <1>5. QED BY <1>1, <1>2, <1>3, <1>4, WritesNothingKeeps DEF IInv

\* The client has sent something, or is gone.
LEMMA CommandsReadyKeeps == ASSUME IInv, CommandsReady PROVE IInv'
  <1>1. TypeOK'
    BY RilAssumption DEF IInv, TypeOK, CommandsReady, At, events, socket,
                         sending
  <1>2. WatchOK' /\ FdOK'
    BY DEF IInv, WatchOK, FdOK, CommandsReady, At, events, socket
  <1>3. WritesNothing
    BY DEF WritesNothing, CommandsReady, At, socket, sending
  <1>4. CancelledInTime'
    BY PendingKept DEF CommandsReady, At, events, socket
  <1>5. QED BY <1>1, <1>2, <1>3, <1>4, WritesNothingKeeps DEF IInv

\* Somebody calls at the debug socket.
LEMMA DebugReadyKeeps == ASSUME IInv, DebugReady PROVE IInv'
  <1>1. TypeOK'
    BY RilAssumption DEF IInv, TypeOK, DebugReady, At, events, socket, sending
  <1>2. WatchOK' /\ FdOK'
    BY DEF IInv, WatchOK, FdOK, DebugReady, At, events, socket
  <1>3. WritesNothing
    BY DEF WritesNothing, DebugReady, At, socket, sending
  <1>4. CancelledInTime'
    BY PendingKept DEF DebugReady, At, events, socket
  <1>5. QED BY <1>1, <1>2, <1>3, <1>4, WritesNothingKeeps DEF IInv

\* All there was has been read.
LEMMA ReadAgainKeeps == ASSUME IInv, ReadAgain PROVE IInv'
  <1>1. TypeOK'
    BY RilAssumption DEF IInv, TypeOK, ReadAgain, At, events, socket, sending
  <1>2. WatchOK' /\ FdOK'
    BY DEF IInv, WatchOK, FdOK, ReadAgain, At, events, socket
  <1>3. WritesNothing
    BY DEF WritesNothing, ReadAgain, At, socket, sending
  <1>4. CancelledInTime'
    BY PendingKept DEF ReadAgain, At, events, socket
  <1>5. QED BY <1>1, <1>2, <1>3, <1>4, WritesNothingKeeps DEF IInv

\* The connection is at its end.
LEMMA EndOfStreamKeeps == ASSUME IInv, EndOfStream PROVE IInv'
  <1>1. TypeOK'
    BY RilAssumption DEF IInv, TypeOK, EndOfStream, At, events, socket, sending
  <1>2. WatchOK' /\ FdOK'
    BY DEF IInv, WatchOK, FdOK, EndOfStream, At, events, socket
  <1>3. WritesNothing
    BY DEF WritesNothing, EndOfStream, At, socket, sending
  <1>4. CancelledInTime'
    BY PendingKept DEF EndOfStream, At, events, socket
  <1>5. QED BY <1>1, <1>2, <1>3, <1>4, WritesNothingKeeps DEF IInv

\* Nothing comes of the call.
LEMMA DebugNothingKeeps == ASSUME IInv, DebugNothing PROVE IInv'
  <1>1. TypeOK'
    BY RilAssumption DEF IInv, TypeOK, DebugNothing, At, events, socket,
                         sending
  <1>2. WatchOK' /\ FdOK'
    BY DEF IInv, WatchOK, FdOK, DebugNothing, At, events, socket
  <1>3. WritesNothing
    BY DEF WritesNothing, DebugNothing, At, socket, sending
  <1>4. CancelledInTime'
    BY PendingKept DEF DebugNothing, At, events, socket
  <1>5. QED BY <1>1, <1>2, <1>3, <1>4, WritesNothingKeeps DEF IInv

\* The new connection is the next, and its stream is untouched.
LEMMA AcceptKeeps == ASSUME IInv, Accept PROVE IInv'
  <1>1. TypeOK'
    <2>1. /\ s_fdCommand' \in {-1, Fd} /\ listening' \in BOOLEAN
          /\ loop' \in {"check", "turn"}
      BY DEF IInv, TypeOK, Accept
    <2>2. peer' \in BOOLEAN
      BY DEF IInv, TypeOK, Accept
    <2>3. clients' \in 0..MaxClients /\ open' \in 0..MaxClients
      BY RilAssumption DEF IInv, TypeOK, OpenOK, Accept, At
    <2>4. UNCHANGED <<watched, pending, sending>>
      BY DEF Accept
    <2>5. QED BY <2>1, <2>2, <2>3, <2>4 DEF IInv, TypeOK, sending
  <1>2. WatchOK' /\ FdOK'
    BY DEF IInv, WatchOK, FdOK, Accept, At, events, socket
  <1>3. OpenOK'
    BY DEF IInv, TypeOK, OpenOK, Clients, Accept, At, events, socket, sending
  <1>4. MutexOK'
    BY DEF IInv, TypeOK, MutexOK, Accept, At, sending, Threads
  <1>5. HeaderOK'
    <2>1. CASE UNCHANGED open
      BY <2>1 DEF IInv, HeaderOK, Accept, sending
    <2>2. CASE open' = clients + 1
      <3>1. open' \in Clients /\ open' > clients
        BY <2>2, RilAssumption DEF IInv, TypeOK, OpenOK, Accept, At, Clients
      <3>2. stream'[open'] = "whole"
        BY <3>1 DEF IInv, OpenOK, Accept, sending
      <3>3. QED BY <3>2 DEF HeaderOK
    <2>3. QED BY <2>1, <2>2 DEF Accept
  <1>6. CancelledInTime'
    BY DEF IInv, WatchOK, FdOK, OpenOK, CancelledInTime, InUse, Accept, At,
           events, socket
  <1>7. NotInterleaved'
    BY DEF IInv, NotInterleaved, Accept, sending
  <1>8. QED BY <1>1, <1>2, <1>3, <1>4, <1>5, <1>6, <1>7 DEF IInv

\* The client is greeted, or sent away.
LEMMA CheckPeerKeeps == ASSUME IInv, CheckPeer PROVE IInv'
  <1>1. TypeOK'
    BY RilAssumption DEF IInv, TypeOK, CheckPeer, At, events, socket, sending
  <1>2. WatchOK' /\ FdOK'
    <2>1. ~listening /\ ~watched /\ s_fdCommand = Fd
      BY DEF IInv, WatchOK, FdOK, CheckPeer, At
    <2>2. UNCHANGED <<listening, s_fdCommand, open>>
      BY DEF CheckPeer, socket
    <2>3. \/ watched' /\ loop' = "greet"
          \/ ~watched' /\ loop' = "close"
      BY <2>1 DEF CheckPeer
    <2>4. QED BY <2>1, <2>2, <2>3 DEF WatchOK, FdOK, Fd
  <1>3. WritesNothing
    BY DEF IInv, TypeOK, WritesNothing, CheckPeer, At, socket
  <1>4. CancelledInTime'
    BY PendingKept DEF IInv, WatchOK, FdOK, CheckPeer, At, events, socket
  <1>5. QED BY <1>1, <1>2, <1>3, <1>4, WritesNothingKeeps DEF IInv

\* A second greeting.
LEMMA SendLastNITZKeeps == ASSUME IInv, SendLastNITZ PROVE IInv'
  <1>1. TypeOK'
    BY RilAssumption DEF IInv, TypeOK, SendLastNITZ, At, events, socket,
                         sending
  <1>2. WatchOK' /\ FdOK'
    BY DEF IInv, WatchOK, FdOK, SendLastNITZ, At, events, socket
  <1>3. WritesNothing
    BY DEF IInv, TypeOK, WritesNothing, SendLastNITZ, At, socket
  <1>4. CancelledInTime'
    BY PendingKept DEF IInv, WatchOK, FdOK, SendLastNITZ, At, events, socket
  <1>5. QED BY <1>1, <1>2, <1>3, <1>4, WritesNothingKeeps DEF IInv

\* The request is of the last client, who is served.
LEMMA NewRequestKeeps ==
    ASSUME IInv, NEW r \in Requests, NewRequest(r) PROVE IInv'
  <1>1. TypeOK'
    <2>1. open \in 0..MaxClients
      BY DEF IInv, TypeOK
    <2>2. \A h \in BOOLEAN : [Free EXCEPT !.client = open, !.handed = h] \in Request
      BY <2>1 DEF Free, Request
    <2>3. pending' \in [Requests -> Request]
      BY <2>2 DEF IInv, TypeOK, NewRequest
    <2>4. UNCHANGED <<events, socket, loop, sending>>
      BY DEF NewRequest
    <2>5. QED BY <2>3, <2>4 DEF IInv, TypeOK, events, socket, sending
  <1>2. WatchOK' /\ FdOK'
    BY DEF IInv, WatchOK, FdOK, NewRequest, At, events, socket
  <1>3. WritesNothing
    BY DEF WritesNothing, NewRequest, At, socket, sending
  <1>4. CancelledInTime'
    BY DEF IInv, WatchOK, FdOK, OpenOK, CancelledInTime, InUse,
       NewRequest, At, events, socket, Free
  <1>5. QED BY <1>1, <1>2, <1>3, <1>4, WritesNothingKeeps DEF IInv

\* Nothing is behind Fd.
LEMMA CloseCommandKeeps == ASSUME IInv, CloseCommand PROVE IInv'
  <1>1. TypeOK'
    <2>1. open' = 0 /\ peer' = FALSE /\ loop' = "clear"
          /\ UNCHANGED <<events, s_fdCommand, clients, pending, sending>>
      BY DEF CloseCommand
    <2>2. 0 \in 0..MaxClients
      BY RilAssumption
    <2>3. QED BY <2>1, <2>2 DEF IInv, TypeOK, events, sending
  <1>2. WatchOK' /\ FdOK'
    BY DEF IInv, WatchOK, FdOK, CloseCommand, At, events, socket
  <1>3. WritesNothing
    BY DEF WritesNothing, CloseCommand, At, socket, sending
  <1>4. CancelledInTime'
    BY PendingKept DEF IInv, WatchOK, FdOK, CloseCommand, At, events, socket
  <1>5. QED BY <1>1, <1>2, <1>3, <1>4, WritesNothingKeeps DEF IInv

\* The next client is listened for, after what is pending is cancelled.
LEMMA ClearCommandKeeps == ASSUME IInv, ClearCommand PROVE IInv'
  <1>1. TypeOK'
    BY RilAssumption DEF IInv, TypeOK, ClearCommand, At, events, socket,
                         sending
  <1>2. WatchOK' /\ FdOK'
    BY DEF IInv, WatchOK, FdOK, ClearCommand, At, events, socket
  <1>3. WritesNothing
    BY DEF WritesNothing, ClearCommand, At, socket, sending
  <1>4. CancelledInTime'
    BY PendingKept DEF IInv, WatchOK, FdOK, ClearCommand, At, events, socket
  <1>5. QED BY <1>1, <1>2, <1>3, <1>4, WritesNothingKeeps DEF IInv

\* Nothing is pending that is not cancelled.
LEMMA CancelPendingKeeps == ASSUME IInv, CancelPending PROVE IInv'
  <1>1. TypeOK'
    <2>1. \A q \in Request : Cancel(q) \in Request
      BY DEF Cancel, Request
    <2>2. Free \in Request
      BY RilAssumption DEF Free, Request
    <2>3. pending' \in [Requests -> Request]
      BY <2>1, <2>2 DEF IInv, TypeOK, CancelPending
    <2>4. loop' = "turn" /\ UNCHANGED <<events, socket, sending>>
      BY DEF CancelPending
    <2>5. QED BY <2>3, <2>4 DEF IInv, TypeOK, events, socket, sending
  <1>2. WatchOK' /\ FdOK'
    BY DEF IInv, WatchOK, FdOK, CancelPending, At, events, socket
  <1>3. WritesNothing
    BY DEF WritesNothing, CancelPending, At, socket, sending
  <1>4. CancelledInTime'
    BY DEF IInv, WatchOK, FdOK, OpenOK, CancelledInTime, InUse,
       CancelPending, At, events, socket, Cancel, Free
  <1>5. QED BY <1>1, <1>2, <1>3, <1>4, WritesNothingKeeps DEF IInv

\* Its request is no client's.
LEMMA DebugRequestKeeps ==
    ASSUME IInv, NEW r \in Requests, DebugRequest(r) PROVE IInv'
  <1>1. TypeOK'
    <2>1. [Free EXCEPT !.local = TRUE, !.handed = TRUE] \in Request
      <3>1. 0 \in 0..MaxClients
        BY RilAssumption
      <3>2. Free \in Request
        BY <3>1 DEF Free, Request
      <3>3. \A q \in Request : \A l, h \in BOOLEAN :
               [q EXCEPT !.local = l, !.handed = h] \in Request
        BY DEF Request
      <3>4. QED BY <3>2, <3>3
    <2>2. pending' \in [Requests -> Request]
      BY <2>1 DEF IInv, TypeOK, DebugRequest
    <2>3. UNCHANGED <<events, socket, sending>>
          /\ loop' \in {"turn", "debug_again", "debug_close"}
      BY DEF DebugRequest
    <2>4. QED BY <2>2, <2>3 DEF IInv, TypeOK, events, socket, sending
  <1>2. WatchOK' /\ FdOK'
    BY DEF IInv, WatchOK, FdOK, DebugRequest, At, events, socket
  <1>3. WritesNothing
    BY DEF WritesNothing, DebugRequest, At, socket, sending
  <1>4. CancelledInTime'
    BY DEF IInv, WatchOK, FdOK, OpenOK, CancelledInTime, InUse,
       DebugRequest, At, events, socket, Free
  <1>5. QED BY <1>1, <1>2, <1>3, <1>4, WritesNothingKeeps DEF IInv

\* A message is sent.
LEMMA DebugUnsolicitedKeeps == ASSUME IInv, DebugUnsolicited PROVE IInv'
  <1>1. TypeOK'
    BY RilAssumption DEF IInv, TypeOK, DebugUnsolicited, At, events, socket,
                         sending
  <1>2. WatchOK' /\ FdOK'
    BY DEF IInv, WatchOK, FdOK, DebugUnsolicited, At, events, socket
  <1>3. WritesNothing
    BY DEF IInv, TypeOK, WritesNothing, DebugUnsolicited, At, socket
  <1>4. CancelledInTime'
    BY PendingKept DEF IInv, WatchOK, FdOK, DebugUnsolicited, At, events,
                       socket
  <1>5. QED BY <1>1, <1>2, <1>3, <1>4, WritesNothingKeeps DEF IInv

\* The socket is closed,
LEMMA DebugCloseKeeps == ASSUME IInv, DebugClose PROVE IInv'
  <1>1. TypeOK'
    <2>1. open' = 0 /\ peer' = FALSE /\ loop' = "debug_clear"
          /\ UNCHANGED <<events, s_fdCommand, clients, pending, sending>>
      BY DEF DebugClose
    <2>2. 0 \in 0..MaxClients
      BY RilAssumption
    <2>3. QED BY <2>1, <2>2 DEF IInv, TypeOK, events, sending
  <1>2. WatchOK' /\ FdOK'
    BY DEF IInv, WatchOK, FdOK, DebugClose, At, events, socket
  <1>3. WritesNothing
    BY DEF WritesNothing, DebugClose, At, socket, sending
  <1>4. CancelledInTime'
    BY PendingKept DEF IInv, WatchOK, FdOK, DebugClose, At, events, socket
  <1>5. QED BY <1>1, <1>2, <1>3, <1>4, WritesNothingKeeps DEF IInv

\* and s_fdCommand cleared, while its event is watched.
LEMMA DebugClearKeeps == ASSUME IInv, DebugClear PROVE IInv'
  <1>1. TypeOK'
    BY RilAssumption DEF IInv, TypeOK, DebugClear, At, events, socket, sending
  <1>2. WatchOK' /\ FdOK'
    BY DEF IInv, WatchOK, FdOK, DebugClear, At, events, socket
  <1>3. WritesNothing
    BY DEF WritesNothing, DebugClear, At, socket, sending
  <1>4. CancelledInTime'
    BY PendingKept DEF IInv, WatchOK, FdOK, DebugClear, At, events, socket
  <1>5. QED BY <1>1, <1>2, <1>3, <1>4, WritesNothingKeeps DEF IInv

\* The client is gone.
LEMMA PeerClosesKeeps == ASSUME IInv, PeerCloses PROVE IInv'
  <1>1. TypeOK'
    BY RilAssumption DEF IInv, TypeOK, PeerCloses, At, events, socket, sending
  <1>2. WatchOK' /\ FdOK'
    BY DEF IInv, WatchOK, FdOK, PeerCloses, At, events, socket
  <1>3. WritesNothing
    BY DEF WritesNothing, PeerCloses, At, socket, sending
  <1>4. CancelledInTime'
    BY PendingKept DEF IInv, WatchOK, FdOK, PeerCloses, At, events, socket
  <1>5. QED BY <1>1, <1>2, <1>3, <1>4, WritesNothingKeeps DEF IInv

\* A request leaves the list.
LEMMA RequestCompleteKeeps ==
    ASSUME IInv, NEW t \in Threads, NEW r \in Requests, RequestComplete(t, r)
    PROVE  IInv'
  <1>1. TypeOK'
    BY RilAssumption DEF IInv, TypeOK, RequestComplete, At, events, socket,
                         sending, Free, Request
  <1>2. WatchOK' /\ FdOK'
    BY DEF IInv, WatchOK, FdOK, RequestComplete, At, events, socket
  <1>3. WritesNothing
    BY DEF IInv, TypeOK, WritesNothing, RequestComplete, At, socket
  <1>4. CancelledInTime'
    BY DEF IInv, WatchOK, FdOK, OpenOK, CancelledInTime, InUse,
       RequestComplete, At, events, socket, Free
  <1>5. QED BY <1>1, <1>2, <1>3, <1>4, WritesNothingKeeps DEF IInv

\* A message is sent.
LEMMA UnsolicitedKeeps ==
    ASSUME IInv, NEW t \in Threads, Unsolicited(t) PROVE IInv'
  <1>1. TypeOK'
    BY RilAssumption DEF IInv, TypeOK, Unsolicited, At, events, socket, sending
  <1>2. WatchOK' /\ FdOK'
    BY DEF IInv, WatchOK, FdOK, Unsolicited, At, events, socket
  <1>3. WritesNothing
    BY DEF IInv, TypeOK, WritesNothing, Unsolicited, At, socket
  <1>4. CancelledInTime'
    BY PendingKept DEF IInv, WatchOK, FdOK, Unsolicited, At, events, socket
  <1>5. QED BY <1>1, <1>2, <1>3, <1>4, WritesNothingKeeps DEF IInv

\* A step of a call that sends, which may close the socket, leaves the loop,
\* what it watches and what is pending alone.
SendsOnly ==
    /\ UNCHANGED <<events, s_fdCommand, clients, loop, pending>>
    /\ open' \in {open, 0}

LEMMA SendsOnlyKeeps ==
    ASSUME IInv, SendsOnly
    PROVE  WatchOK' /\ FdOK' /\ CancelledInTime'
  <1>1. UNCHANGED <<listening, watched, s_fdCommand, clients, loop, pending>>
    BY DEF SendsOnly, events
  <1>2. open' = 0 \/ open' = open
    BY DEF SendsOnly
  <1>3. WatchOK'
    BY <1>1 DEF IInv, WatchOK
  <1>4. FdOK'
    BY <1>1, <1>2 DEF IInv, FdOK
  <1>5. CancelledInTime'
    BY <1>1 DEF IInv, CancelledInTime, InUse
  <1>6. QED BY <1>3, <1>4, <1>5

\* A thread in a call is before its header, or leaves.
LEMMA ReadFdKeeps == ASSUME IInv, NEW t \in Threads, ReadFd(t) PROVE IInv'
  <1>1. TypeOK'
    BY RilAssumption DEF IInv, TypeOK, ReadFd, At, events, socket, sending,
                         Return
  <1>2. WatchOK' /\ FdOK'
    BY DEF IInv, WatchOK, FdOK, ReadFd, At, events, socket
  <1>3. WritesNothing
    BY DEF IInv, TypeOK, WritesNothing, ReadFd, At, Return, socket
  <1>4. CancelledInTime'
    BY PendingKept DEF IInv, WatchOK, FdOK, ReadFd, At, events, socket
  <1>5. QED BY <1>1, <1>2, <1>3, <1>4, WritesNothingKeeps DEF IInv

\* After a failed write nothing is open, and s_writeMutex is free.
LEMMA WriteFailsKeeps ==
    ASSUME IInv, NEW t \in Threads, WriteFails(t), SendsOnly,
           pc[t] = "payload" \/ s_writeMutex = NoThread
    PROVE  IInv'
  <1>1. /\ open' = 0 /\ peer' = FALSE /\ s_writeMutex' = NoThread
        /\ pc' = [pc EXCEPT ![t] = "idle"] /\ job' = [job EXCEPT ![t] = 0]
        /\ UNCHANGED <<stream, answered>>
    BY DEF WriteFails, Return
  <1>2. TypeOK'
    <2>1. 0 \in 0..MaxClients
      BY RilAssumption
    <2>2. UNCHANGED <<listening, watched, s_fdCommand, clients, loop, pending>>
      BY DEF SendsOnly, events
    <2>3. QED BY <1>1, <2>1, <2>2 DEF IInv, TypeOK
  <1>3. OpenOK' /\ HeaderOK' /\ NotInterleaved'
    BY <1>1 DEF IInv, OpenOK, HeaderOK, NotInterleaved, SendsOnly
  <1>4. MutexOK'
    <2>1. \A u \in Threads : pc[u] = "payload" => u = t
      BY NobodyIsNoThread DEF IInv, MutexOK
    <2>2. \A u \in Threads : pc'[u] # "payload"
      BY <1>1, <2>1 DEF IInv, TypeOK
    <2>3. QED BY <1>1, <2>2, NobodyIsNoThread DEF MutexOK
  <1>5. QED BY <1>2, <1>3, <1>4, SendsOnlyKeeps DEF IInv

\* A part of a frame goes to the open stream, which is not left interleaved.
LEMMA ReceivesKeeps ==
    ASSUME IInv, open # 0, NEW what, Receives(what), SendsOnly, open' = open,
           Framed[stream[open]][what] \in {"whole", "header", "headless"}
    PROVE  /\ OpenOK' /\ NotInterleaved'
           /\ stream' \in [Clients -> DOMAIN Framed]
           /\ stream'[open] = Framed[stream[open]][what]
  <1> DEFINE w == Framed[stream[open]][what]
  <1>1. open \in Clients /\ open = clients
    BY RilAssumption DEF IInv, TypeOK, OpenOK, Clients
  <1>2. stream \in [Clients -> DOMAIN Framed] /\ w \in DOMAIN Framed
    BY FramedStates DEF IInv, TypeOK
  <1>3. stream' = [stream EXCEPT ![open] = w]
    BY DEF Receives
  <1> HIDE DEF w
  <1>4. \A c \in Clients : stream'[c] = IF c = open THEN w ELSE stream[c]
    BY <1>1, <1>2, <1>3
  <1>5. w # "interleaved"
    BY DEF w
  <1>6. stream' \in [Clients -> DOMAIN Framed]
    BY <1>2, <1>3
  <1>7. NotInterleaved'
    BY <1>4, <1>5 DEF IInv, NotInterleaved
  <1>8. OpenOK'
    BY <1>1, <1>4 DEF IInv, TypeOK, OpenOK, SendsOnly, Clients
  <1>9. QED BY <1>1, <1>4, <1>6, <1>7, <1>8 DEF w

\* The open stream gets a header, with s_writeMutex.
LEMMA WriteHeaderKeeps ==
    ASSUME IInv, NEW t \in Threads, WriteHeader(t) PROVE IInv'
  <1>1. SendsOnly
    BY DEF WriteHeader, WriteFails, SendsOnly
  <1>2. CASE WriteFails(t)
    BY <1>1, <1>2, WriteFailsKeeps DEF WriteHeader
  <1>3. CASE ~WriteFails(t)
    <2>1. /\ open # 0 /\ Receives("header") /\ s_writeMutex = NoThread
          /\ s_writeMutex' = t /\ pc' = [pc EXCEPT ![t] = "payload"]
          /\ UNCHANGED <<open, peer, job, answered>>
      BY <1>3 DEF WriteHeader
    <2>2. stream[open] \in {"whole", "headless"}
      <3>1. open \in Clients
        BY <2>1, RilAssumption DEF IInv, TypeOK, Clients
      <3>2. stream[open] \in DOMAIN Framed /\ stream[open] # "interleaved"
        BY <3>1 DEF IInv, TypeOK, NotInterleaved
      <3>3. stream[open] # "header"
        BY <2>1 DEF IInv, HeaderOK
      <3>4. QED BY <3>2, <3>3, FramedStates
    <2>3. Framed[stream[open]]["header"] \in {"whole", "header", "headless"}
      BY <2>2, FramedStates
    <2>4. OpenOK' /\ NotInterleaved' /\ stream' \in [Clients -> DOMAIN Framed]
      BY <1>1, <2>1, <2>3, ReceivesKeeps
    <2>5. TypeOK'
      BY <1>1, <2>1, <2>4 DEF IInv, TypeOK, SendsOnly, events
    <2>6. MutexOK'
      <3>1. \A u \in Threads : pc[u] # "payload"
        BY <2>1, NobodyIsNoThread DEF IInv, MutexOK
      <3>2. \A u \in Threads : pc'[u] = "payload" <=> u = t
        BY <2>1, <3>1 DEF IInv, TypeOK
      <3>3. QED BY <2>1, <3>2 DEF MutexOK
    <2>7. HeaderOK'
      BY <2>1, NobodyIsNoThread DEF HeaderOK
    <2>8. QED BY <1>1, <2>4, <2>5, <2>6, <2>7, SendsOnlyKeeps DEF IInv
  <1>4. QED BY <1>2, <1>3

\* The open stream gets the payload of its header, or one without header.
LEMMA WritePayloadKeeps ==
    ASSUME IInv, NEW t \in Threads, WritePayload(t) PROVE IInv'
  <1>1. SendsOnly /\ pc[t] = "payload"
    BY DEF WritePayload, WriteFails, SendsOnly
  <1>2. CASE WriteFails(t)
    BY <1>1, <1>2, WriteFailsKeeps
  <1>3. CASE ~WriteFails(t)
    <2>1. /\ open # 0 /\ Receives("payload") /\ s_writeMutex' = NoThread
          /\ pc' = [pc EXCEPT ![t] = "idle"] /\ job' = [job EXCEPT ![t] = 0]
          /\ answered' = IF job[t] = 0 THEN answered
                         ELSE answered \cup {[from |-> job[t], to |-> open]}
          /\ UNCHANGED <<open, peer>>
      BY <1>3 DEF WritePayload, Return
    <2>2. open \in Clients
      BY <2>1, RilAssumption DEF IInv, TypeOK, Clients
    <2>3. Framed[stream[open]]["payload"] \in {"whole", "headless"}
      BY <2>2, FramedStates DEF IInv, TypeOK, NotInterleaved
    <2>4. /\ OpenOK' /\ NotInterleaved' /\ stream' \in [Clients -> DOMAIN Framed]
          /\ stream'[open] # "header"
      BY <1>1, <2>1, <2>3, ReceivesKeeps
    <2>5. answered' \subseteq [from : Clients, to : Clients]
      BY <2>1, <2>2, RilAssumption DEF IInv, TypeOK, Clients
    <2>6. TypeOK'
      BY <1>1, <2>1, <2>4, <2>5, RilAssumption
         DEF IInv, TypeOK, SendsOnly, events
    <2>7. MutexOK'
      <3>1. \A u \in Threads : pc[u] = "payload" => u = t
        BY <1>1, NobodyIsNoThread DEF IInv, MutexOK
      <3>2. \A u \in Threads : pc'[u] # "payload"
        BY <2>1, <3>1 DEF IInv, TypeOK
      <3>3. QED BY <2>1, <3>2, NobodyIsNoThread DEF MutexOK
    <2>8. HeaderOK'
      BY <2>1, <2>4 DEF HeaderOK
    <2>9. QED BY <1>1, <2>4, <2>6, <2>7, <2>8, SendsOnlyKeeps DEF IInv
  <1>4. QED BY <1>2, <1>3

\* Every step keeps the invariant.
LEMMA StepIInv == IInv /\ [Next]_vars => IInv'
  <1> SUFFICES ASSUME IInv, [Next]_vars PROVE IInv'
    OBVIOUS
  <1>1. ASSUME LoopStep PROVE IInv'
    BY <1>1, EnterSelectKeeps, ListenReadyKeeps, CommandsReadyKeeps,
       DebugReadyKeeps, AcceptKeeps, CheckPeerKeeps, SendLastNITZKeeps,
       NewRequestKeeps, DebugRequestKeeps, ReadAgainKeeps, EndOfStreamKeeps,
       CloseCommandKeeps, ClearCommandKeeps, CancelPendingKeeps,
       DebugNothingKeeps, DebugUnsolicitedKeeps, DebugCloseKeeps,
       DebugClearKeeps DEF LoopStep
  <1>2. ASSUME NEW t \in Threads, SendStep(t) PROVE IInv'
    BY <1>2, ReadFdKeeps, WriteHeaderKeeps, WritePayloadKeeps DEF SendStep
  <1>3. CASE UNCHANGED vars
    <2>1. TypeOK' /\ WatchOK' /\ FdOK' /\ OpenOK' /\ MutexOK' /\ HeaderOK'
      BY <1>3 DEF vars, IInv, TypeOK, WatchOK, FdOK, OpenOK, MutexOK, HeaderOK
    <2>2. CancelledInTime' /\ NotInterleaved'
      BY <1>3 DEF vars, IInv, CancelledInTime, InUse, NotInterleaved
    <2>3. QED BY <2>1, <2>2 DEF IInv
  <1>4. QED BY <1>1, <1>2, <1>3, PeerClosesKeeps, UnsolicitedKeeps,
               RequestCompleteKeeps DEF Next, Threads

LEMMA Invariance == Spec => []IInv
  BY InitIInv, StepIInv, PTL DEF Spec

\* The variables of RilRequest keep their types.
THEOREM TypeCorrect == Spec => []TypeOK
  <1>1. IInv => TypeOK
    BY DEF IInv
  <1>2. QED BY <1>1, Invariance, PTL

\* However a connection ends, its requests are cancelled before the next
\* client is listened for (onCommandsSocketClosed).
THEOREM AlwaysCancelledInTime == Spec => []CancelledInTime
  <1>1. IInv => CancelledInTime
    BY DEF IInv
  <1>2. QED BY <1>1, Invariance, PTL

\* As long as the loop goes on it has a client's socket in the watch table or
\* listens for a client, and never both (processCommandsCallback,
\* listenCallback).
THEOREM AlwaysServesOrListens == Spec => []ServesOrListens
  <1>1. IInv => ServesOrListens
    BY DEF IInv, WatchOK, ServesOrListens
  <1>2. QED BY <1>1, Invariance, PTL

\* The assertions on s_fdCommand hold (listenCallback,
\* processCommandsCallback).
THEOREM AssertionsHold == Spec => []AssertsHold
  <1>1. IInv => AssertsHold
    BY DEF IInv, WatchOK, FdOK, AssertsHold
  <1>2. QED BY <1>1, Invariance, PTL

\* No two responses are ever mixed in a client's stream (sendResponseRaw).
THEOREM NeverInterleaved == Spec => []NotInterleaved
  <1>1. IInv => NotInterleaved
    BY DEF IInv
  <1>2. QED BY <1>1, Invariance, PTL

-----------------------------------------------------------------------------
(***************************************************************************)
(* The wake lock of unsolicited messages, which vendor threads send beside *)
(* the answers, and which shares no state with the requests.               *)
(*                                                                         *)
(* For any vendor threads, blocks and messages the lock always has         *)
(* somebody who will release it, and every block is in the timer list or   *)
(* in the dispatch thread's hands.  Both are almost inductive.  What they  *)
(* need is that the block the dispatch thread serves has left the timer    *)
(* list: when it is freed, and its userParam with it, no timer that is     *)
(* still armed is meant.                                                   *)
(***************************************************************************)

WakeTypes ==
    /\ wakeLock \in BOOLEAN /\ broken \in BOOLEAN
    /\ last \in Infos \cup {NoInfo} /\ p_info \in Infos \cup {NoInfo}
    /\ live \subseteq Infos /\ armed \subseteq Infos
    /\ userParam \in [Infos -> BOOLEAN]
    /\ wakePc \in [Senders -> {"idle", "marshal", "cancel", "arm", "store"}]
    /\ seen \in [Senders -> Infos \cup {NoInfo}]
    /\ fire \in {"idle", "call", "release", "clear", "null", "free"}

\* The block that is served is no longer armed.
ServedIsOut == fire # "idle" => p_info \in Infos /\ p_info \notin armed

WakeInv == WakeTypes /\ InfosAccounted /\ LockHasOwner /\ ServedIsOut

-----------------------------------------------------------------------------

\* Nothing is allocated and the lock is not held at the start.
LEMMA InitWakeInv == WakeInit => WakeInv
  <1> SUFFICES ASSUME WakeInit PROVE WakeInv OBVIOUS
  <1>1. WakeTypes
    <2>2. userParam \in [Infos -> BOOLEAN]
      BY DEF WakeInit
    <2>3. /\ wakePc \in [Senders -> {"idle", "marshal", "cancel", "arm", "store"}]
          /\ seen \in [Senders -> Infos \cup {NoInfo}]
      BY DEF WakeInit
    <2>4. QED BY <2>2, <2>3 DEF WakeInit, WakeTypes
  <1>2. InfosAccounted
    BY DEF WakeInit, InfosAccounted
  <1>3. LockHasOwner /\ ServedIsOut
    BY DEF WakeInit, LockHasOwner, ServedIsOut
  <1>4. QED BY <1>1, <1>2, <1>3 DEF WakeInv

\* A message that begins holds the lock and will do something about it.
LEMMA GrabKeeps ==
    ASSUME WakeInv, NEW v \in Senders, Grab(v) PROVE WakeInv'
  <1>1. WakeTypes'
    BY DEF WakeInv, WakeTypes, Grab, Goto, heap, dispatch
  <1>2. InfosAccounted' /\ ServedIsOut'
    BY DEF WakeInv, InfosAccounted, ServedIsOut, Grab, heap,
           dispatch
  <1>3. LockHasOwner'
    BY DEF WakeInv, WakeTypes, LockHasOwner, Grab, Goto
  <1>4. QED BY <1>1, <1>2, <1>3 DEF WakeInv

\* A message that could not be marshalled gives the lock back.
LEMMA MarshalFailsKeeps ==
    ASSUME WakeInv, NEW v \in Senders, MarshalFails(v) PROVE WakeInv'
  <1>1. WakeTypes'
    BY DEF WakeInv, WakeTypes, MarshalFails, Goto, heap,
           dispatch
  <1>2. InfosAccounted' /\ ServedIsOut' /\ LockHasOwner'
    BY DEF WakeInv, InfosAccounted, ServedIsOut, LockHasOwner,
           MarshalFails, heap, dispatch
  <1>3. QED BY <1>1, <1>2 DEF WakeInv

\* A message that was sent goes on to cancel and to arm.
LEMMA TestLastKeeps ==
    ASSUME WakeInv, NEW v \in Senders, TestLast(v) PROVE WakeInv'
  <1>1. WakeTypes'
    BY DEF WakeInv, WakeTypes, TestLast, Goto, heap,
           dispatch
  <1>2. InfosAccounted' /\ ServedIsOut'
    BY DEF WakeInv, InfosAccounted, ServedIsOut, TestLast, heap,
           dispatch
  <1>3. LockHasOwner'
    BY DEF WakeInv, WakeTypes, LockHasOwner, Releasing,
           TestLast, Goto, heap, dispatch
  <1>4. QED BY <1>1, <1>2, <1>3 DEF WakeInv

\* A timer that is cancelled releases nothing, but the message that cancels
\* it has yet to arm its own.
LEMMA CancelLastKeeps ==
    ASSUME WakeInv, NEW v \in Senders, CancelLast(v) PROVE WakeInv'
  <1>1. WakeTypes'
    BY DEF WakeInv, WakeTypes, CancelLast, Goto, dispatch
  <1>2. InfosAccounted' /\ ServedIsOut'
    BY DEF WakeInv, InfosAccounted, ServedIsOut, CancelLast,
           dispatch
  <1>3. LockHasOwner'
    BY DEF WakeInv, WakeTypes, LockHasOwner, CancelLast, Goto
  <1>4. QED BY <1>1, <1>2, <1>3 DEF WakeInv

\* The new timer will release the lock; its block was not allocated before.
LEMMA ArmKeeps == ASSUME WakeInv, NEW v \in Senders, Arm(v) PROVE WakeInv'
  <1>1. PICK i \in Infos \ live :
            /\ live' = live \cup {i} /\ armed' = armed \cup {i}
            /\ userParam' = [userParam EXCEPT ![i] = FALSE]
            /\ seen' = [seen EXCEPT ![v] = i]
    BY DEF Arm
  <1>2. WakeTypes'
    BY <1>1 DEF WakeInv, WakeTypes, Arm, Goto, dispatch
  <1>3. InfosAccounted'
    BY <1>1 DEF WakeInv, InfosAccounted, Arm, dispatch
  <1>4. ServedIsOut'
    BY <1>1 DEF WakeInv, InfosAccounted, ServedIsOut, Arm,
                dispatch
  <1>5. i \in Releasing'
    BY <1>1 DEF WakeInv, WakeTypes, Releasing
  <1>6. QED BY <1>2, <1>3, <1>4, <1>5 DEF WakeInv, LockHasOwner

\* The pointer to the last timer is nobody's duty.
LEMMA StoreLastKeeps ==
    ASSUME WakeInv, NEW v \in Senders, StoreLast(v) PROVE WakeInv'
  <1>1. WakeTypes'
    BY DEF WakeInv, WakeTypes, StoreLast, Goto, heap,
           dispatch
  <1>2. InfosAccounted' /\ ServedIsOut'
    BY DEF WakeInv, InfosAccounted, ServedIsOut, StoreLast,
           heap, dispatch
  <1>3. LockHasOwner'
    BY DEF WakeInv, WakeTypes, LockHasOwner, Releasing,
           StoreLast, Goto, heap, dispatch
  <1>4. QED BY <1>1, <1>2, <1>3 DEF WakeInv

\* A timer that expires passes its duty to the dispatch thread.
LEMMA ExpireKeeps ==
    ASSUME WakeInv, NEW i \in Infos, Expire(i) PROVE WakeInv'
  <1>1. WakeTypes'
    BY DEF WakeInv, WakeTypes, Expire
  <1>2. InfosAccounted' /\ ServedIsOut'
    BY DEF WakeInv, InfosAccounted, ServedIsOut, Expire
  <1>3. LockHasOwner'
    BY DEF WakeInv, WakeTypes, LockHasOwner, Releasing, Expire
  <1>4. QED BY <1>1, <1>2, <1>3 DEF WakeInv

\* Unless cancelled, the callback goes on to release the lock, does so, and
\* leaves s_last_wake_timeout_info alone or clears it.
LEMMA CallbackKeeps ==
    ASSUME WakeInv, ReadParam \/ Release \/ CompareLast \/ ClearLast
    PROVE  WakeInv'
  <1>1. WakeTypes'
    BY DEF WakeInv, WakeTypes, ReadParam, Release, CompareLast,
           ClearLast, heap
  <1>2. InfosAccounted' /\ ServedIsOut'
    BY DEF WakeInv, InfosAccounted, ServedIsOut, ReadParam,
           Release, CompareLast, ClearLast, heap
  <1>3. LockHasOwner'
    BY DEF WakeInv, WakeTypes, LockHasOwner, Releasing,
           ReadParam, Release, CompareLast, ClearLast,
           heap
  <1>4. QED BY <1>1, <1>2, <1>3 DEF WakeInv

\* The block that is freed is no armed timer's.
LEMMA FreeInfoKeeps == ASSUME WakeInv, FreeInfo PROVE WakeInv'
  <1>1. WakeTypes'
    BY DEF WakeInv, WakeTypes, ServedIsOut, FreeInfo
  <1>2. InfosAccounted' /\ ServedIsOut'
    BY DEF WakeInv, InfosAccounted, ServedIsOut, FreeInfo
  <1>3. Releasing' = Releasing
    BY DEF WakeInv, WakeTypes, ServedIsOut, Releasing, FreeInfo
  <1>4. LockHasOwner'
    BY <1>3 DEF WakeInv, LockHasOwner, FreeInfo
  <1>5. QED BY <1>1, <1>2, <1>4 DEF WakeInv

\* The inductive invariant holds in every behaviour.
THEOREM WakeInvariance == WakeSpec => []WakeInv
  <1>1. WakeInv /\ [WakeNext]_wakeVars => WakeInv'
    <2> SUFFICES ASSUME WakeInv, [WakeNext]_wakeVars PROVE WakeInv' OBVIOUS
    <2>1. CASE UNCHANGED wakeVars
      BY <2>1 DEF WakeInv, WakeTypes, InfosAccounted, LockHasOwner,
                  Releasing, ServedIsOut, wakeVars, heap
    <2>2. CASE FireStep
      BY <2>2, ExpireKeeps, CallbackKeeps, FreeInfoKeeps DEF FireStep
    <2>3. ASSUME NEW v \in Senders, Grab(v) \/ CallStep(v) PROVE WakeInv'
      BY <2>3, GrabKeeps, MarshalFailsKeeps, TestLastKeeps, CancelLastKeeps,
         ArmKeeps, StoreLastKeeps DEF CallStep
    <2>4. QED BY <2>1, <2>2, <2>3 DEF WakeNext
  <1>2. QED BY <1>1, InitWakeInv, PTL DEF WakeSpec

\* While the wake lock is held a timer or a call that is under way will
\* release it, however many vendor threads send at the same time.
THEOREM LockAlwaysHasOwner == WakeSpec => []LockHasOwner
  <1>1. WakeInv => LockHasOwner
    BY DEF WakeInv
  <1>2. QED BY <1>1, WakeInvariance, PTL

\* No block is lost, and the dispatch thread alone frees them, each once.
THEOREM InfosAlwaysAccounted == WakeSpec => []InfosAccounted
  <1>1. WakeInv => InfosAccounted
    BY DEF WakeInv
  <1>2. QED BY <1>1, WakeInvariance, PTL
=============================================================================
