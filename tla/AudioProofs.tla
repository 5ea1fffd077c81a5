----------------------------- MODULE AudioProofs -----------------------------
(***************************************************************************)
(* Proofs about AudioHardware, for any number of binder threads and        *)
(* inputs, any policy, filter file and calls: no thread waits for the      *)
(* mLock it holds, and when no routing is under way the driver has what    *)
(* the code believes it has.                                               *)
(*                                                                         *)
(* The argument: mLock is held from RouteChoose to RouteStore and nowhere  *)
(* else.  In between setMicMute cannot run, so the setting that RouteArgs  *)
(* read is still the one when RouteSend sends it; and only the holder of   *)
(* mLock gives the driver a device, which it remembers before it lets go.  *)
(***************************************************************************)
EXTENDS AudioHardware, TLAPS

\* Where a thread has mLock, where else it may be, and where the driver has
\* been given the new device that is not remembered yet.
Holding  == {"rpc", "send", "switch", "switchOff", "ppOn", "store", "storeOn"}
Rest     == {"idle", "route", "ttyKey", "again", "clear", "close", "closeOff",
             "writeOn", "writeOnSend", "delete", "drop", "erase", "free",
             "start", "audioStart"}
AfterSend == {"switch", "switchOff", "ppOn", "store", "storeOn"}
Devs      == CheckedFor \cup {Unset}

PlacesOK == /\ pc \in [Threads -> Holding \cup Rest]
            /\ ret \in [Threads -> Rest]

RecordsOK == /\ new \in [Threads -> [dev : Devs, mask : SUBSET Features,
                                     ear : BOOLEAN, mic : BOOLEAN]]
             /\ drv \in [dev : Devs, ear : BOOLEAN, mic : BOOLEAN]
             /\ mMicMute \in BOOLEAN

LockOK == \A t \in Threads : pc[t] \in Holding <=> mLock = t

\* A thread has chosen a device exactly as long as it holds mLock.
NewOK == \A t \in Threads : pc[t] \in Holding <=> new[t].dev # Unset

\* The setting that is about to be sent is the one setMicMute made; what was
\* sent is, too.
MicOK == /\ \A t \in Threads : pc[t] = "send" => new[t].mic = mMicMute
         /\ rpcOk => drv.mic = mMicMute

\* The driver has the device that is remembered or about to be.
DeviceOK ==
    rpcOk => \/ \E t \in Threads : pc[t] \in AfterSend /\ drv.dev = new[t].dev
             \/ /\ \A t \in Threads : pc[t] \notin AfterSend
                /\ mCurSndDevice # Unset => drv.dev = mCurSndDevice

IInv == PlacesOK /\ RecordsOK /\ LockOK /\ NewOK /\ MicOK /\ DeviceOK

-----------------------------------------------------------------------------

\* Nobody is no thread.
LEMMA NobodyIsNoThread == nobody \notin Threads
  BY AudioAssumption DEF Threads, mixer

\* What NewRoute returns has the fields of a route.
LEMMA RouteType ==
    ASSUME NEW dev, NEW outs, NEW mode, NEW tty, NEW dual
    PROVE  NewRoute(dev, outs, mode, tty, dual)
             \in [dev : Devs, mask : SUBSET Features]
  <1> DEFINE R == [dev : Devs, mask : SUBSET Features]
  <1>1. ASSUME NEW name, NEW m \in SUBSET Features PROVE Route(name, m) \in R
    BY DEF Route, SndDevice, Devs
  <1>2. InputRoute(dev, outs) \in R
    BY <1>1 DEF InputRoute
  <1>3. TtyRoute(tty) \in R
    BY <1>1 DEF TtyRoute
  <1>4. OutputRoute(outs, mode, tty) \in R
    BY <1>1, <1>3 DEF OutputRoute
  <1>5. ASSUME NEW r \in R PROVE DualMic(r, mode, dual) \in R
    BY DEF DualMic, Devs, CheckedFor
  <1>6. QED BY <1>2, <1>4, <1>5 DEF NewRoute

\* Nobody holds mLock at the start, and the driver mutes the microphone as
\* the code does.
LEMMA InitIInv == Init => IInv
  <1> SUFFICES ASSUME Init PROVE IInv OBVIOUS
  <1>1. PlacesOK
    BY DEF Init, PlacesOK, Rest
  <1>2. RecordsOK
    BY DEF Init, RecordsOK, NoRoute, Devs
  <1>3. LockOK /\ NewOK /\ MicOK /\ DeviceOK
    BY NobodyIsNoThread DEF Init, LockOK, NewOK, MicOK, DeviceOK, Holding,
       AfterSend, NoRoute
  <1>4. QED BY <1>1, <1>2, <1>3 DEF IInv

\* A step of a thread that has not got mLock: it goes on, and may forget the
\* device, but what the driver has and who routes is none of its business.
Elsewhere(t) ==
    /\ pc[t] \in Rest
    /\ \E l \in Rest : pc' = pc \/ pc' = [pc EXCEPT ![t] = l]
    /\ \E k \in Rest : ret' = ret \/ ret' = [ret EXCEPT ![t] = k]
    /\ mCurSndDevice' \in {mCurSndDevice, Unset}
    /\ UNCHANGED <<mLock, new, mMicMute, drv, rpcOk>>

\* Such a step keeps the invariant.
LEMMA ElsewhereKeeps ==
    ASSUME IInv, NEW t \in Threads, Elsewhere(t) PROVE IInv'
  <1>1. PlacesOK' /\ RecordsOK'
    BY DEF IInv, PlacesOK, RecordsOK, Elsewhere
  <1>2. \A u \in Threads : pc'[u] = pc[u] \/ (pc[u] \in Rest /\ pc'[u] \in Rest)
    <2>1. PICK l \in Rest : pc' = pc \/ pc' = [pc EXCEPT ![t] = l]
      BY DEF Elsewhere
    <2>2. pc[t] \in Rest /\ DOMAIN pc = Threads
      BY DEF Elsewhere, IInv, PlacesOK
    <2>3. ASSUME NEW u \in Threads
          PROVE  pc'[u] = pc[u] \/ (pc[u] \in Rest /\ pc'[u] \in Rest)
      <3>1. CASE u = t
        BY <2>1, <2>2, <3>1
      <3>2. CASE u # t
        BY <2>1, <2>2, <3>2
      <3>3. QED BY <3>1, <3>2
    <2>4. QED BY <2>3
  <1>3. \A u \in Threads : /\ pc'[u] \in Holding <=> pc[u] \in Holding
                           /\ pc'[u] \in AfterSend <=> pc[u] \in AfterSend
                           /\ pc'[u] = "send" <=> pc[u] = "send"
    BY <1>2 DEF Holding, Rest, AfterSend
  <1>4. UNCHANGED <<mLock, new, mMicMute, drv, rpcOk>>
        /\ mCurSndDevice' \in {mCurSndDevice, Unset}
    BY DEF Elsewhere
  <1>5. LockOK' /\ NewOK' /\ MicOK'
    BY <1>3, <1>4 DEF IInv, LockOK, NewOK, MicOK
  <1>6. DeviceOK'
    BY <1>3, <1>4 DEF IInv, DeviceOK
  <1>7. QED BY <1>1, <1>5, <1>6 DEF IInv

\* A step of the thread that has mLock, which it keeps with its device.
Inside(t) ==
    /\ pc[t] \in Holding
    /\ \E l \in Holding : pc' = [pc EXCEPT ![t] = l]
    /\ UNCHANGED <<mLock, ret>>
    /\ \A u \in Threads : new'[u].dev = new[u].dev

\* Such a step changes neither who holds mLock nor who has a device.
LEMMA InsideKeeps ==
    ASSUME IInv, NEW t \in Threads, Inside(t)
    PROVE  PlacesOK' /\ LockOK' /\ NewOK'
  <1>1. PICK l \in Holding : pc' = [pc EXCEPT ![t] = l]
    BY DEF Inside
  <1>2. pc \in [Threads -> Holding \cup Rest] /\ pc[t] \in Holding
    BY DEF Inside, IInv, PlacesOK
  <1>3. PlacesOK'
    BY <1>1, <1>2 DEF Inside, IInv, PlacesOK
  <1>4. \A u \in Threads : pc'[u] \in Holding <=> pc[u] \in Holding
    BY <1>1, <1>2
  <1>5. UNCHANGED mLock /\ \A u \in Threads : new'[u].dev = new[u].dev
    BY DEF Inside
  <1>6. LockOK' /\ NewOK'
    BY <1>4, <1>5 DEF IInv, LockOK, NewOK
  <1>7. QED BY <1>3, <1>6

\* It takes mLock, which was free, and chooses a device other than Unset.
LEMMA RouteChooseKeeps ==
    ASSUME IInv, NEW t \in Threads, RouteChoose(t) PROVE IInv'
  <1>1. PlacesOK'
    BY DEF IInv, PlacesOK, Holding, Rest, RouteChoose, Chosen, Resume, Goto,
       threadVars, modeVars, inVars, outVars, ppVars, drvVars
  <1>2. RecordsOK'
    <2>1. CASE UNCHANGED <<new, drv, mMicMute>>
      BY <2>1 DEF IInv, RecordsOK
    <2>2. CASE ~UNCHANGED <<new, drv, mMicMute>>
      <3>1. PICK r \in [dev : Devs, mask : SUBSET Features] :
               new' = [new EXCEPT ![t] = [@ EXCEPT !.dev = r.dev,
                                                   !.mask = r.mask]]
        BY <2>2, RouteType DEF RouteChoose, Chosen, modeVars, drvVars
      <3>2. UNCHANGED <<drv, mMicMute>>
        BY DEF RouteChoose, Chosen, modeVars, drvVars
      <3>3. QED BY <3>1, <3>2 DEF IInv, RecordsOK
    <2>3. QED BY <2>1, <2>2
  <1>3. LockOK'
    <2>1. CASE mLock' = mLock /\ new' = new
      BY <2>1 DEF IInv, LockOK, PlacesOK, Holding, Rest, RouteChoose, Chosen,
         Resume, Goto
    <2>2. CASE ~(mLock' = mLock /\ new' = new)
      BY <2>2, NobodyIsNoThread DEF IInv, LockOK, PlacesOK, Holding, Rest,
         RouteChoose, Chosen, Goto, MLockFree
    <2>3. QED BY <2>1, <2>2
  <1>4. NewOK'
    <2>1. CASE new' = new /\ Resume(t)
      BY <2>1 DEF IInv, NewOK, PlacesOK, Holding, Rest, RouteChoose, Resume,
         Goto
    <2>2. CASE ~(new' = new /\ Resume(t))
      <3>1. PICK r : /\ r.dev # Unset
                     /\ new' = [new EXCEPT ![t] = [@ EXCEPT !.dev = r.dev,
                                                            !.mask = r.mask]]
                     /\ Goto(t, "rpc")
        BY <2>2 DEF RouteChoose, Chosen
      <3>2. new'[t].dev # Unset
        BY <3>1 DEF IInv, RecordsOK
      <3>3. \A u \in Threads \ {t} : new'[u] = new[u] /\ pc'[u] = pc[u]
        BY <3>1 DEF IInv, RecordsOK, PlacesOK, Goto
      <3>4. pc'[t] = "rpc"
        BY <3>1 DEF IInv, PlacesOK, Goto
      <3>5. QED BY <3>2, <3>3, <3>4 DEF IInv, NewOK, Holding
    <2>3. QED BY <2>1, <2>2
  <1>5. MicOK'
    BY NobodyIsNoThread DEF IInv, MicOK, RecordsOK, PlacesOK, LockOK,
       Holding, Rest, RouteChoose, Chosen, Resume, Goto, threadVars,
       modeVars, inVars, outVars, ppVars, drvVars
  <1>6. DeviceOK'
    BY DEF IInv, DeviceOK, RecordsOK, PlacesOK, LockOK, NewOK, Holding,
       Rest, AfterSend, RouteChoose, Chosen, Resume, Goto, threadVars,
       modeVars, inVars, outVars, ppVars, drvVars
  <1>7. QED BY <1>1, <1>2, <1>3, <1>4, <1>5, <1>6 DEF IInv

\* It reads the setting of the microphone.
LEMMA RouteArgsKeeps ==
    ASSUME IInv, NEW t \in Threads, RouteArgs(t) PROVE IInv'
  <1>1. PlacesOK' /\ LockOK' /\ NewOK'
    <2>1. Inside(t)
      BY DEF IInv, RecordsOK, Inside, Holding, RouteArgs, Goto
    <2>2. QED BY <2>1, InsideKeeps
  <1>2. RecordsOK'
    <2> DEFINE e == EarMute(new[t].dev, mMode, mBuiltinMicSelected)
    <2>1. e \in BOOLEAN
      BY DEF EarMute
    <2>2. new' = [new EXCEPT ![t] = [@ EXCEPT !.ear = e, !.mic = mMicMute]]
      BY DEF RouteArgs
    <2>3. UNCHANGED <<drv, mMicMute>>
      BY DEF RouteArgs, modeVars, drvVars
    <2> HIDE DEF e
    <2>4. QED BY <2>1, <2>2, <2>3 DEF IInv, RecordsOK
  <1>3. MicOK'
    BY DEF IInv, MicOK, RecordsOK, PlacesOK, LockOK, Holding, Rest,
       RouteArgs, Goto, threadVars, modeVars, inVars, outVars, ppVars,
       drvVars
  <1>4. DeviceOK'
    BY DEF IInv, DeviceOK, RecordsOK, PlacesOK, LockOK, NewOK, Holding,
       Rest, AfterSend, RouteArgs, Goto, threadVars, modeVars, inVars,
       outVars, ppVars, drvVars
  <1>5. QED BY <1>1, <1>2, <1>3, <1>4 DEF IInv

\* It sends the setting it read; no other thread is past its own sending.
LEMMA RouteSendKeeps ==
    ASSUME IInv, NEW t \in Threads, RouteSend(t) PROVE IInv'
  <1>1. PlacesOK' /\ LockOK' /\ NewOK'
    <2>1. Inside(t)
      BY DEF IInv, RecordsOK, Inside, Holding, RouteSend, PostProcIfPlaying,
       PostProcMask, Goto
    <2>2. QED BY <2>1, InsideKeeps
  <1>2. RecordsOK'
    <2> DEFINE set(m) == [dev |-> new[t].dev, ear |-> new[t].ear, mic |-> m]
    <2>1. drv' = drv \/ \E m \in BOOLEAN : drv' = set(m)
      BY DEF IInv, RecordsOK, RouteSend
    <2>2. UNCHANGED <<new, mMicMute>>
      BY DEF RouteSend, modeVars
    <2>3. QED BY <2>1, <2>2 DEF IInv, RecordsOK
  <1>3. MicOK'
    <2>1. pc[t] = "send" /\ UNCHANGED <<new, mMicMute>>
      BY DEF RouteSend, modeVars
    <2>2. new[t].mic = mMicMute
      BY <2>1 DEF IInv, MicOK
    <2>3. rpcOk' => drv'.mic = new[t].mic
      BY DEF RouteSend
    <2>4. \A u \in Threads : pc'[u] = "send" => pc[u] = "send"
      BY DEF IInv, PlacesOK, RouteSend, PostProcIfPlaying, PostProcMask, Goto
    <2>5. QED BY <2>1, <2>2, <2>3, <2>4 DEF IInv, MicOK
  <1>4. DeviceOK'
    <2>1. rpcOk' => drv'.dev = new'[t].dev
      BY DEF RouteSend
    <2>2. pc'[t] \in AfterSend
      BY DEF IInv, PlacesOK, AfterSend, RouteSend, PostProcIfPlaying,
         PostProcMask, Goto
    <2>3. QED BY <2>1, <2>2 DEF DeviceOK
  <1>5. QED BY <1>1, <1>2, <1>3, <1>4 DEF IInv

\* It keeps mLock.
LEMMA RouteSwitchKeeps ==
    ASSUME IInv, NEW t \in Threads, RouteSwitch(t) PROVE IInv'
  <1>1. PlacesOK' /\ LockOK' /\ NewOK'
    <2>1. Inside(t)
      BY DEF IInv, RecordsOK, Inside, Holding, RouteSwitch, Goto
    <2>2. QED BY <2>1, InsideKeeps
  <1>2. RecordsOK'
    BY DEF IInv, RecordsOK, PlacesOK, RouteSwitch, PostProcSend, Goto,
       threadVars, modeVars, inVars, outVars, ppVars, drvVars
  <1>3. MicOK'
    BY DEF IInv, MicOK, RecordsOK, PlacesOK, LockOK, Holding, Rest,
       RouteSwitch, PostProcSend, Goto, threadVars, modeVars, inVars,
       outVars, ppVars, drvVars
  <1>4. DeviceOK'
    BY DEF IInv, DeviceOK, RecordsOK, PlacesOK, LockOK, NewOK, Holding,
       Rest, AfterSend, RouteSwitch, PostProcSend, Goto, threadVars,
       modeVars, inVars, outVars, ppVars, drvVars
  <1>5. QED BY <1>1, <1>2, <1>3, <1>4 DEF IInv

\* It keeps mLock.
LEMMA RoutePostProcKeeps ==
    ASSUME IInv, NEW t \in Threads, RoutePostProc(t) PROVE IInv'
  <1>1. PlacesOK' /\ LockOK' /\ NewOK'
    <2>1. Inside(t)
      BY DEF IInv, RecordsOK, Inside, Holding, RoutePostProc, PostProcIfPlaying,
       PostProcMask, Goto
    <2>2. QED BY <2>1, InsideKeeps
  <1>2. RecordsOK'
    BY DEF IInv, RecordsOK, PlacesOK, RoutePostProc, PostProcIfPlaying,
       PostProcMask, Goto, threadVars, modeVars, inVars, outVars, ppVars,
       drvVars
  <1>3. MicOK'
    BY DEF IInv, MicOK, RecordsOK, PlacesOK, LockOK, Holding, Rest,
       RoutePostProc, PostProcIfPlaying, PostProcMask, Goto, threadVars,
       modeVars, inVars, outVars, ppVars, drvVars
  <1>4. DeviceOK'
    BY DEF IInv, DeviceOK, RecordsOK, PlacesOK, LockOK, NewOK, Holding,
       Rest, AfterSend, RoutePostProc, PostProcIfPlaying, PostProcMask,
       Goto, threadVars, modeVars, inVars, outVars, ppVars, drvVars
  <1>5. QED BY <1>1, <1>2, <1>3, <1>4 DEF IInv

\* The device the driver has is remembered, and mLock given back.
LEMMA RouteStoreKeeps ==
    ASSUME IInv, NEW t \in Threads, RouteStore(t) PROVE IInv'
  <1>1. PlacesOK'
    BY DEF IInv, PlacesOK, Holding, Rest, RouteStore, PostProcSend, Resume,
       NoRoute, Goto, threadVars, modeVars, inVars, outVars, ppVars, drvVars
  <1>2. RecordsOK'
    <2>1. new' = [new EXCEPT ![t] = NoRoute] /\ UNCHANGED <<drv, mMicMute>>
      BY DEF RouteStore, modeVars, drvVars
    <2>2. NoRoute \in [dev : Devs, mask : SUBSET Features, ear : BOOLEAN,
                       mic : BOOLEAN]
      BY DEF NoRoute, Devs
    <2>3. QED BY <2>1, <2>2 DEF IInv, RecordsOK
  <1>3. LockOK'
    BY NobodyIsNoThread DEF IInv, LockOK, PlacesOK, Holding, Rest,
       RouteStore, PostProcSend, Resume, NoRoute, Goto, threadVars,
       modeVars, inVars, outVars, ppVars, drvVars
  <1>4. NewOK'
    BY NobodyIsNoThread DEF IInv, NewOK, RecordsOK, PlacesOK, LockOK,
       Holding, Rest, RouteStore, PostProcSend, Resume, NoRoute, Goto,
       threadVars, modeVars, inVars, outVars, ppVars, drvVars
  <1>5. MicOK'
    BY NobodyIsNoThread DEF IInv, MicOK, RecordsOK, PlacesOK, LockOK,
       Holding, Rest, RouteStore, PostProcSend, Resume, NoRoute, Goto,
       threadVars, modeVars, inVars, outVars, ppVars, drvVars
  <1>6. DeviceOK'
    BY DEF IInv, DeviceOK, RecordsOK, PlacesOK, LockOK, NewOK, Holding,
       Rest, AfterSend, RouteStore, PostProcSend, Resume, NoRoute, Goto,
       threadVars, modeVars, inVars, outVars, ppVars, drvVars
  <1>7. QED BY <1>1, <1>2, <1>3, <1>4, <1>5, <1>6 DEF IInv

\* It calls doRouting, which has not taken mLock yet.
LEMMA TtyKeyKeeps ==
    ASSUME IInv, NEW t \in Threads, TtyKey(t) PROVE IInv'
  <1>1. Elsewhere(t)
    BY DEF Elsewhere, Rest, Goto, TtyKey, CallRouting, threadVars, modeVars,
       drvVars
  <1>2. QED BY <1>1, ElsewhereKeeps DEF Threads, mixer

\* The output has no part in it.
LEMMA OutWriteKeeps ==
    ASSUME IInv, OutWrite PROVE IInv'
  <1>1. Elsewhere(mixer)
    BY DEF Elsewhere, Rest, Goto, OutWrite, threadVars, modeVars, drvVars
  <1>2. QED BY <1>1, ElsewhereKeeps DEF Threads, mixer

\* The output has no part in it.
LEMMA OutStandbyKeeps ==
    ASSUME IInv, OutStandby PROVE IInv'
  <1>1. Elsewhere(mixer)
    BY DEF Elsewhere, Rest, Goto, OutStandby, PostProcMask, threadVars,
       modeVars, drvVars
  <1>2. QED BY <1>1, ElsewhereKeeps DEF Threads, mixer

\* The output has no part in it.
LEMMA OutClosedKeeps ==
    ASSUME IInv, OutClosed PROVE IInv'
  <1>1. Elsewhere(mixer)
    BY DEF Elsewhere, Rest, Goto, OutClosed, threadVars, modeVars, drvVars
  <1>2. QED BY <1>1, ElsewhereKeeps DEF Threads, mixer

\* The output has no part in it.
LEMMA OutPostProcKeeps ==
    ASSUME IInv, OutPostProc PROVE IInv'
  <1>1. Elsewhere(mixer)
    BY DEF Elsewhere, Rest, Goto, OutPostProc, PostProcMask, threadVars,
       modeVars, drvVars
  <1>2. QED BY <1>1, ElsewhereKeeps DEF Threads, mixer

\* The devices of the output are no part of it.
LEMMA OutSetParametersKeeps ==
    ASSUME IInv, OutSetParameters PROVE IInv'
  <1>1. Elsewhere(mixer)
    BY DEF Elsewhere, Rest, Goto, OutSetParameters, threadVars, modeVars,
       drvVars
  <1>2. QED BY <1>1, ElsewhereKeeps DEF Threads, mixer

\* It calls doRouting, which has not taken mLock yet.
LEMMA OutRouteAgainKeeps ==
    ASSUME IInv, OutRouteAgain PROVE IInv'
  <1>1. Elsewhere(mixer)
    BY DEF Elsewhere, Rest, Goto, OutRouteAgain, CallRouting, threadVars,
       modeVars, drvVars
  <1>2. QED BY <1>1, ElsewhereKeeps DEF Threads, mixer

\* A device that is forgotten is no claim about the driver.
LEMMA SetModeKeeps ==
    ASSUME IInv, NEW b \in Binders, SetMode(b) PROVE IInv'
  <1>1. Elsewhere(b)
    BY DEF Elsewhere, Rest, Goto, SetMode, Enter, threadVars, modeVars, drvVars
  <1>2. QED BY <1>1, ElsewhereKeeps DEF Threads, mixer

\* As mLock is free nobody is about to send an older setting.
LEMMA SetMicMuteKeeps ==
    ASSUME IInv, NEW b \in Binders, SetMicMute(b) PROVE IInv'
  <1>1. PlacesOK'
    BY DEF IInv, PlacesOK, Holding, Rest, SetMicMute, Mute, Enter, Count,
       MLockFree, Goto, Threads, mixer, threadVars, modeVars, inVars,
       outVars, ppVars, drvVars
  <1>2. RecordsOK'
    <2> DEFINE e == EarMute("CURRENT", mMode, mBuiltinMicSelected)
    <2>1. e \in BOOLEAN
      BY DEF EarMute
    <2>2. mMicMute' \in BOOLEAN
      BY DEF SetMicMute, Mute
    <2>3. drv' = drv \/ drv' = [drv EXCEPT !.ear = e, !.mic = mMicMute']
      BY DEF SetMicMute, Mute
    <2>4. new' = new
      BY DEF SetMicMute, Mute
    <2> HIDE DEF e
    <2>5. QED BY <2>1, <2>2, <2>3, <2>4 DEF IInv, RecordsOK
  <1>3. LockOK'
    BY DEF IInv, LockOK, SetMicMute, Mute
  <1>4. NewOK'
    BY DEF IInv, NewOK, SetMicMute, Mute
  <1>5. MicOK'
    BY NobodyIsNoThread DEF IInv, MicOK, RecordsOK, PlacesOK, LockOK,
       Holding, Rest, SetMicMute, Mute, Enter, Count, MLockFree, Goto,
       Threads, mixer, threadVars, modeVars, inVars, outVars, ppVars,
       drvVars
  <1>6. DeviceOK'
    BY DEF IInv, DeviceOK, RecordsOK, PlacesOK, LockOK, NewOK, Holding,
       Rest, AfterSend, SetMicMute, Mute, Enter, Count, MLockFree, Goto,
       Threads, mixer, threadVars, modeVars, inVars, outVars, ppVars,
       drvVars
  <1>7. QED BY <1>1, <1>2, <1>3, <1>4, <1>5, <1>6 DEF IInv

\* It calls doRouting, which has not taken mLock yet.
LEMMA SetParametersKeeps ==
    ASSUME IInv, NEW b \in Binders, SetParameters(b) PROVE IInv'
  <1>1. Elsewhere(b)
    BY DEF Elsewhere, Rest, Goto, SetParameters, Enter, CallRouting,
       threadVars, modeVars, drvVars
  <1>2. QED BY <1>1, ElsewhereKeeps DEF Threads, mixer

\* It gives mLock back, whether the stream is kept or deleted.
LEMMA OpenInputKeeps ==
    ASSUME IInv, NEW b \in Binders, OpenInput(b) PROVE IInv'
  <1>1. Elsewhere(b)
    BY DEF Elsewhere, Rest, Goto, OpenInput, Enter, threadVars, modeVars,
       drvVars
  <1>2. QED BY <1>1, ElsewhereKeeps DEF Threads, mixer

\* It gives mLock back before it deletes.
LEMMA CloseInputKeeps ==
    ASSUME IInv, NEW b \in Binders, CloseInput(b) PROVE IInv'
  <1>1. Elsewhere(b)
    BY DEF Elsewhere, Rest, Goto, CloseInput, FindInput, Enter, threadVars,
       modeVars, drvVars
  <1>2. QED BY <1>1, ElsewhereKeeps DEF Threads, mixer

\* A device that is forgotten is no claim about the driver.
LEMMA DeleteInputKeeps ==
    ASSUME IInv, NEW b \in Binders, DeleteInput(b) PROVE IInv'
  <1>1. Elsewhere(b)
    BY DEF Elsewhere, Rest, Goto, DeleteInput, InputStandby, CallRouting,
       threadVars, modeVars, drvVars
  <1>2. QED BY <1>1, ElsewhereKeeps DEF Threads, mixer

\* The list of inputs is no part of it.
LEMMA EraseInputKeeps ==
    ASSUME IInv, NEW b \in Binders, EraseInput(b) PROVE IInv'
  <1>1. Elsewhere(b)
    BY DEF Elsewhere, Rest, Goto, EraseInput, threadVars, modeVars, drvVars
  <1>2. QED BY <1>1, ElsewhereKeeps DEF Threads, mixer

\* A stream's state is no part of it.
LEMMA ReadOpensKeeps ==
    ASSUME IInv, NEW i \in Streams, ReadOpens(i) PROVE IInv'
  <1>1. Elsewhere(i)
    BY DEF Elsewhere, Rest, Goto, ReadOpens, Recording, threadVars, modeVars,
       drvVars
  <1>2. QED BY <1>1, ElsewhereKeeps DEF Threads, mixer

\* A device that is forgotten is no claim about the driver.
LEMMA ReadStartsKeeps ==
    ASSUME IInv, NEW i \in Streams, ReadStarts(i) PROVE IInv'
  <1>1. Elsewhere(i)
    BY DEF Elsewhere, Rest, Goto, ReadStarts, Recording, CallRouting,
       threadVars, modeVars, drvVars
  <1>2. QED BY <1>1, ElsewhereKeeps DEF Threads, mixer

\* A device that is forgotten is no claim about the driver.
LEMMA ReadStartedKeeps ==
    ASSUME IInv, NEW i \in Streams, ReadStarted(i) PROVE IInv'
  <1>1. Elsewhere(i)
    BY DEF Elsewhere, Rest, Goto, ReadStarted, InputStandby, CallRouting,
       threadVars, modeVars, drvVars
  <1>2. QED BY <1>1, ElsewhereKeeps DEF Threads, mixer

\* A device that is forgotten is no claim about the driver.
LEMMA RecordStandbyKeeps ==
    ASSUME IInv, NEW i \in Streams, RecordStandby(i) PROVE IInv'
  <1>1. Elsewhere(i)
    BY DEF Elsewhere, Rest, Goto, RecordStandby, Recording, InputStandby,
       CallRouting, threadVars, modeVars, drvVars
  <1>2. QED BY <1>1, ElsewhereKeeps DEF Threads, mixer

\* It calls doRouting, which has not taken mLock yet.
LEMMA InSetParametersKeeps ==
    ASSUME IInv, NEW i \in Streams, InSetParameters(i) PROVE IInv'
  <1>1. Elsewhere(i)
    BY DEF Elsewhere, Rest, Goto, InSetParameters, Recording, CallRouting,
       threadVars, modeVars, drvVars
  <1>2. QED BY <1>1, ElsewhereKeeps DEF Threads, mixer

\* Every step keeps the invariant.
LEMMA NextKeeps == IInv /\ [Next]_vars => IInv'
  <1> SUFFICES ASSUME IInv, [Next]_vars PROVE IInv' OBVIOUS
  <1>1. CASE UNCHANGED vars
    BY <1>1 DEF IInv, PlacesOK, RecordsOK, LockOK, NewOK, MicOK, DeviceOK,
                vars, threadVars, modeVars, drvVars
  <1>2. ASSUME NEW t \in Threads, Routing(t) PROVE IInv'
    BY <1>2, RouteChooseKeeps, RouteArgsKeeps, RouteSendKeeps,
       RouteSwitchKeeps, RoutePostProcKeeps, RouteStoreKeeps, TtyKeyKeeps
       DEF Routing
  <1>3. CASE Mixer
    BY <1>3, OutWriteKeeps, OutStandbyKeeps, OutClosedKeeps,
       OutPostProcKeeps, OutSetParametersKeeps, OutRouteAgainKeeps DEF Mixer
  <1>4. ASSUME NEW b \in Binders, Binder(b) PROVE IInv'
    BY <1>4, SetModeKeeps, SetMicMuteKeeps, SetParametersKeeps,
       OpenInputKeeps, CloseInputKeeps, DeleteInputKeeps, EraseInputKeeps
       DEF Binder
  <1>5. ASSUME NEW i \in Streams, Record(i) PROVE IInv'
    BY <1>5, ReadOpensKeeps, ReadStartsKeeps, ReadStartedKeeps,
       RecordStandbyKeeps, InSetParametersKeeps DEF Record
  <1>6. QED BY <1>1, <1>2, <1>3, <1>4, <1>5 DEF Next, Act

\* The invariant the theorems below rest on.
THEOREM Invariance == Spec => []IInv
  BY InitIInv, NextKeeps, PTL DEF Spec

-----------------------------------------------------------------------------

\* No thread waits for the mLock it holds: where a thread takes mLock it is
\* none of the places where it has it.
THEOREM NobodyLocksItself == Spec => []NeverSelfLocked
  <1>1. IInv => NeverSelfLocked
    BY DEF IInv, LockOK, Holding, NeverSelfLocked
  <1>2. QED BY <1>1, Invariance, PTL

\* Whichever threads routed, muted and closed inputs in whatever order, the
\* driver has the device doRouting remembers and the microphone's setting,
\* once no routing is under way and if no call to the driver failed.
THEOREM DriverAlwaysFollows == Spec => []DriverFollows
  <1>1. IInv => DriverFollows
    <2> SUFFICES ASSUME IInv, Settled, rpcOk
                 PROVE  /\ drv.mic = mMicMute
                        /\ mCurSndDevice # Unset => drv.dev = mCurSndDevice
      BY DEF DriverFollows, MicFollowsSwitch, RememberedIsSet
    <2>1. drv.mic = mMicMute
      BY DEF IInv, MicOK
    <2>2. \A t \in Threads : pc[t] \notin AfterSend
      BY DEF IInv, NewOK, Settled, Holding, AfterSend
    <2>3. QED BY <2>1, <2>2 DEF IInv, DeviceOK
  <1>2. QED BY <1>1, Invariance, PTL
==============================================================================
