--------------------------- MODULE AudioHardware ---------------------------
(***************************************************************************)
(* AudioHardware of src/libaudio/AudioHardware.cpp with its one output and *)
(* its inputs, as AudioFlinger's threads use it: the mixer thread writes   *)
(* and routes the output, every input has a record thread, and binder      *)
(* threads do the rest.  mLock guards doRouting, setMicMute and the list   *)
(* of inputs; everything else is done without it, so a step is what runs   *)
(* between two uses of shared state.                                       *)
(*                                                                         *)
(* External, and modelled by what this code uses of it: the baseband's     *)
(* sound driver (drv), the audio DSP (dsp), and AudioFlinger, which closes *)
(* an input only when its record thread has ended.                         *)
(***************************************************************************)
EXTENDS AudioRoute, FiniteSets

CONSTANTS Streams,      \* addresses an input can have: 1..n
          Binders,      \* binder threads
          nobody,       \* who holds a mutex that is free
          Calls,        \* [Binders -> SUBSET CallNames]
          InDevices,    \* devices an input is opened for, or routed to
          PolicyStates, \* states the policy goes through
          Files,        \* contents of AudioFilter.csv
          TtyKeys,      \* what tty_mode is set to, and what it begins with
          MaxCalls      \* bound: calls in a behaviour

CallNames == {"setMode", "setMicMute", "setParameters", "openInput",
              "closeInput"}

ASSUME AudioAssumption ==
    /\ Streams \subseteq Nat \ {0}
    /\ Calls \in [Binders -> SUBSET CallNames]
    /\ InDevices \subseteq {"BUILTIN_MIC", "SCO_HEADSET", "WIRED_HEADSET",
                            "VOICE_CALL", "none"}
    /\ nobody \notin {0} \cup Binders \cup Streams
    /\ TtyKeys \subseteq TtyModes /\ MaxCalls \in Nat

\* The mixer thread, the binder threads, and of each stream the record thread.
mixer   == 0
Threads == {mixer} \cup Binders \cup Streams

VARIABLES
  mLock,               \* the thread that holds it
  pc, ret,             \* threads; where to go on after doRouting
  arg, new,            \* the input a thread routes for; the route it chose
  index,               \* closeInputStream's index into mInputs
  calls,
  mMode, mMicMute, mTtyMode, mDualMicEnabled, mBuiltinMicSelected,
  mCurSndDevice, mInputs,
  devices, out,        \* the output's mDevices; standby, one buffer in, playing
  state, fd, input,    \* of each input: mState or "none", mFd open, mDevices
  filters, playback_in_progress, snd_device, mask,  \* post processing
  drv, rpcOk,          \* sound driver; the last call to it worked
  dsp

threadVars == <<mLock, pc, ret, arg, new, index, calls>>
modeVars   == <<mMode, mMicMute, mTtyMode, mDualMicEnabled>>
inVars     == <<mInputs, state, fd, input>>
outVars    == <<devices, out, playback_in_progress>>
ppVars     == <<filters, snd_device, mask, dsp>>
drvVars    == <<drv, rpcOk>>
vars == <<threadVars, modeVars, mBuiltinMicSelected, mCurSndDevice, inVars,
          outVars, ppVars, drvVars>>

NoRoute == [dev |-> Unset, mask |-> {}, ear |-> TRUE, mic |-> TRUE]
Goto(t, l) == pc' = [pc EXCEPT ![t] = l]
\* t returns from doRouting.
Resume(t) == Goto(t, ret[t]) /\ ret' = [ret EXCEPT ![t] = "idle"]
\* t begins doRouting(i), or doRouting(NULL) when i is 0, and goes on at l.
CallRouting(t, i, l) == /\ Goto(t, "route")
                        /\ ret' = [ret EXCEPT ![t] = l]
                        /\ arg' = [arg EXCEPT ![t] = i]

MLockFree == mLock = nobody

Init ==
    /\ mLock = nobody
    /\ pc = [t \in Threads |-> "idle"] /\ ret = [t \in Threads |-> "idle"]
    /\ arg = [t \in Threads |-> IF t \in Streams THEN t ELSE 0]
    /\ new = [t \in Threads |-> NoRoute]
    /\ index = [b \in Binders |-> 0] /\ calls = 0
    /\ mMode = "NORMAL" /\ mMicMute = TRUE
    /\ mTtyMode \in TtyKeys /\ mDualMicEnabled = FALSE
    /\ mBuiltinMicSelected = FALSE
    /\ mCurSndDevice = Unset /\ mInputs = {}
    /\ devices = {"SPEAKER"} /\ out = "standby"
    /\ state = [i \in Streams |-> "none"] /\ fd = [i \in Streams |-> FALSE]
    /\ input = [i \in Streams |-> "none"]
    /\ filters \in {AudppFilter(f) : f \in Files}
    /\ playback_in_progress = FALSE /\ snd_device = Unset /\ mask = {}
    /\ dsp = {}
    /\ drv = [dev |-> Unset, ear |-> TRUE, mic |-> TRUE] /\ rpcOk = TRUE

-----------------------------------------------------------------------------
(* doRouting, for any thread *)

\* What doRouting does with the route it chose: nothing when it is no
\* device, or the one that is set.
Chosen(t, i) ==
    LET early == i # 0 /\ input[i] = "VOICE_CALL"
        r     == NewRoute(IF i = 0 THEN "none" ELSE input[i], devices, mMode,
                          mTtyMode, mDualMicEnabled)
    IN  /\ mBuiltinMicSelected' = IF i = 0 THEN mBuiltinMicSelected
                                  ELSE input[i] = "BUILTIN_MIC"
        /\ IF early \/ r.dev \in {Unset, mCurSndDevice}
           THEN Resume(t) /\ UNCHANGED <<mLock, new>>
           ELSE /\ mLock' = t
                /\ Goto(t, "rpc") /\ UNCHANGED ret
                /\ new' = [new EXCEPT ![t] = [@ EXCEPT !.dev = r.dev,
                                                       !.mask = r.mask]]
        /\ UNCHANGED <<arg, index, calls, modeVars, mCurSndDevice, inVars,
                       outVars, ppVars, drvVars>>

\* Faulty variant: doRouting does not take mLock.
RouteUnlocked(t) == pc[t] = "route" /\ Chosen(t, arg[t])

RouteChoose(t) == pc[t] = "route" /\ MLockFree /\ Chosen(t, arg[t])

\* doAudioRouteOrMute looks the arguments up ...
RouteArgs(t) ==
    /\ pc[t] = "rpc"
    /\ new' = [new EXCEPT ![t] =
           [@ EXCEPT !.ear = EarMute(new[t].dev, mMode, mBuiltinMicSelected),
                     !.mic = mMicMute]]
    /\ Goto(t, "send")
    /\ UNCHANGED <<mLock, ret, arg, index, calls, modeVars, mCurSndDevice,
                   mBuiltinMicSelected, inVars, outVars, ppVars, drvVars>>

\* msm72xx_enable_postproc(on) is two steps: the mask, and what the DSP is
\* told.  It does nothing when there are no filters or no device.  The
\* control device is taken to open.
PostProcMask(t, on, send, skip) ==
    IF filters.inited /\ snd_device # Unset
    THEN /\ mask' = FeatureMask(filters, snd_device, on, mask)
         /\ Goto(t, send)
    ELSE Goto(t, skip) /\ UNCHANGED mask
PostProcIfPlaying(t, on, send, skip) ==
    IF playback_in_progress THEN PostProcMask(t, on, send, skip)
    ELSE Goto(t, skip) /\ UNCHANGED mask
PostProcSend(c, on) == dsp' = IF c THEN Told(on, mask) ELSE dsp

\* ... and do_route_audio_rpc tells the driver.  A device that is to hear the
\* microphone is set mute first, then again; either call may fail.  rpcOk
\* says that no call failed since the last one that set a device.  Post
\* processing of the old device is switched off ...
RouteSend(t) ==
    /\ pc[t] = "send"
    /\ LET set(m) == [dev |-> new[t].dev, ear |-> new[t].ear, mic |-> m]
       IN  \/ /\ drv' = set(new[t].mic)
              /\ rpcOk' = TRUE
           \/ /\ drv' \in {drv} \cup {set(TRUE) : m \in {new[t].mic} \ {TRUE}}
              /\ rpcOk' = FALSE
    /\ PostProcIfPlaying(t, FALSE, "switchOff", "switch")
    /\ UNCHANGED <<mLock, ret, arg, new, index, calls, modeVars, mCurSndDevice,
                   mBuiltinMicSelected, inVars, outVars, filters, snd_device,
                   dsp>>

\* ... the new one takes its place ...
RouteSwitch(t) ==
    /\ pc[t] \in {"switch", "switchOff"}
    /\ PostProcSend(pc[t] = "switchOff", FALSE)
    /\ snd_device' = new[t].dev /\ mask' = new[t].mask
    /\ Goto(t, "ppOn")
    /\ UNCHANGED <<mLock, ret, arg, new, index, calls, modeVars, mCurSndDevice,
                   mBuiltinMicSelected, inVars, outVars, filters, drvVars>>

RoutePostProc(t) ==
    /\ pc[t] = "ppOn"
    /\ PostProcIfPlaying(t, TRUE, "storeOn", "store")
    /\ UNCHANGED <<mLock, ret, arg, new, index, calls, modeVars, mCurSndDevice,
                   mBuiltinMicSelected, inVars, outVars, filters, snd_device,
                   dsp, drvVars>>

\* ... and is remembered, whatever the driver said; mLock is given back.
RouteStore(t) ==
    /\ pc[t] \in {"store", "storeOn"}
    /\ PostProcSend(pc[t] = "storeOn", TRUE)
    /\ mCurSndDevice' = new[t].dev
    /\ new' = [new EXCEPT ![t] = NoRoute]
    /\ mLock' = nobody
    /\ Resume(t)
    /\ UNCHANGED <<arg, index, calls, modeVars, mBuiltinMicSelected, inVars,
                   outVars, filters, snd_device, mask, drvVars>>

-----------------------------------------------------------------------------
(* The mixer thread and the output *)

\* write opens and configures the device, and after two buffers starts it.
OutWrite ==
    /\ pc[mixer] = "idle"
    /\ \/ out = "standby" /\ out' \in {"standby", "one"}
       \/ out = "one" /\ out' = "playing"
    /\ playback_in_progress' = (out' = "playing")
    /\ IF out' = "playing" THEN Goto(mixer, "writeOn") ELSE UNCHANGED pc
    /\ UNCHANGED <<mLock, ret, arg, new, index, calls, modeVars, mCurSndDevice,
                   mBuiltinMicSelected, inVars, devices, ppVars, drvVars>>

\* standby switches post processing off before it says that nothing plays.
OutStandby ==
    /\ pc[mixer] = "idle" /\ out # "standby"
    /\ PostProcMask(mixer, FALSE, "closeOff", "close")
    /\ UNCHANGED <<mLock, ret, arg, new, index, calls, modeVars, mCurSndDevice,
                   mBuiltinMicSelected, inVars, outVars, filters, snd_device,
                   dsp, drvVars>>

OutClosed ==
    /\ pc[mixer] \in {"close", "closeOff"}
    /\ PostProcSend(pc[mixer] = "closeOff", FALSE)
    /\ playback_in_progress' = FALSE /\ out' = "standby"
    /\ Goto(mixer, "idle")
    /\ UNCHANGED <<mLock, ret, arg, new, index, calls, modeVars, mCurSndDevice,
                   mBuiltinMicSelected, inVars, devices, filters, snd_device,
                   mask, drvVars>>

\* What plays is post processed.
OutPostProc ==
    /\ \/ pc[mixer] = "writeOn" /\ PostProcMask(mixer, TRUE, "writeOnSend",
                                                "idle") /\ UNCHANGED dsp
       \/ /\ pc[mixer] = "writeOnSend" /\ Goto(mixer, "idle")
          /\ PostProcSend(TRUE, TRUE) /\ UNCHANGED mask
    /\ UNCHANGED <<mLock, ret, arg, new, index, calls, modeVars, mCurSndDevice,
                   mBuiltinMicSelected, inVars, outVars, filters, snd_device,
                   drvVars>>

Count == calls < MaxCalls /\ calls' = calls + 1

\* setParameters(routing) of the output: the device the policy wants, then
\* setParameters of the hardware, which finds no TTY key and turns TTY off
\* and routes, then doRouting again.  The phone's device the policy compares
\* with is a cached one, of whatever state it was computed in.
OutSetParameters ==
    /\ pc[mixer] = "idle" /\ Count
    /\ \E p, cached \in PolicyStates, s \in Strategies :
          devices' = DeviceForStrategy(s, p, PhoneDevice("PHONE", cached))
    /\ Goto(mixer, "ttyKey")
    /\ UNCHANGED <<mLock, ret, arg, new, index, modeVars, mCurSndDevice,
                   mBuiltinMicSelected, inVars, out, playback_in_progress,
                   ppVars, drvVars>>

OutRouteAgain ==
    /\ pc[mixer] = "again"
    /\ CallRouting(mixer, 0, "idle")
    /\ UNCHANGED <<mLock, new, index, calls, modeVars, mCurSndDevice,
                   mBuiltinMicSelected, inVars, outVars, ppVars, drvVars>>

-----------------------------------------------------------------------------
(* Binder threads *)

Enter(b, name) == pc[b] = "idle" /\ name \in Calls[b] /\ Count

\* setMode: the base class stores the mode, then the device is forgotten so
\* that the next doRouting will not find it unchanged.
SetMode(b) ==
    /\ \/ /\ Enter(b, "setMode")
          /\ mMode' \in PhoneStates \ {mMode}
          /\ Goto(b, "clear") /\ UNCHANGED mCurSndDevice
       \/ /\ pc[b] = "clear"
          /\ mCurSndDevice' = Unset
          /\ Goto(b, "idle") /\ UNCHANGED <<calls, mMode>>
    /\ UNCHANGED <<mLock, ret, arg, new, index, mMicMute, mTtyMode,
                   mDualMicEnabled, mBuiltinMicSelected, inVars, outVars,
                   ppVars, drvVars>>

\* setMicMute_nosync.
Mute(b) ==
    /\ Enter(b, "setMicMute")
    /\ mMicMute' = ~mMicMute
    /\ \/ /\ drv' = [drv EXCEPT !.ear = EarMute("CURRENT", mMode,
                                                mBuiltinMicSelected),
                              !.mic = mMicMute']
          /\ UNCHANGED rpcOk
       \/ rpcOk' = FALSE /\ UNCHANGED drv
    /\ UNCHANGED <<mLock, pc, ret, arg, new, index, mMode, mTtyMode,
                   mDualMicEnabled, mCurSndDevice, mBuiltinMicSelected, inVars,
                   outVars, ppVars>>

SetMicMute(b) == Mute(b) /\ MLockFree

\* setParameters: a headset that is not among the endpoints routes, the
\* second microphone's switch routes, and TTY is set or turned off and routes.
SetParameters(b) ==
    /\ Enter(b, "setParameters")
    /\ \/ CallRouting(b, 0, "ttyKey") /\ UNCHANGED mDualMicEnabled
       \/ /\ mDualMicEnabled' \in BOOLEAN
          /\ CallRouting(b, 0, "ttyKey")
       \/ /\ Goto(b, "ttyKey") /\ ret' = [ret EXCEPT ![b] = "idle"]
          /\ UNCHANGED <<arg, mDualMicEnabled>>
    /\ UNCHANGED <<mLock, new, index, mMode, mMicMute, mTtyMode, mCurSndDevice,
                   mBuiltinMicSelected, inVars, outVars, ppVars, drvVars>>

TtyKey(t) ==
    /\ pc[t] = "ttyKey"
    /\ mTtyMode' \in IF t = mixer THEN {"TTY_OFF"} ELSE TtyKeys \ {"junk"}
    /\ CallRouting(t, 0, IF t = mixer THEN "again" ELSE "idle")
    /\ UNCHANGED <<mLock, new, index, calls, mMode, mMicMute, mDualMicEnabled,
                   mCurSndDevice, mBuiltinMicSelected, inVars, outVars, ppVars,
                   drvVars>>

-----------------------------------------------------------------------------
(* Inputs *)

\* AudioStreamIn::set.  Parameters it does not like change nothing, which is
\* no step; a device that does not open or cannot be configured is closed,
\* for some formats after mDevices was stored; without the preprocessing
\* control device it fails and yet stays open; at a sampling rate without a
\* filter table it closes the device and yet succeeds.
Outcome(i, st, open, dev) ==
    /\ state' = [state EXCEPT ![i] = st]
    /\ fd' = [fd EXCEPT ![i] = open]
    /\ input' = [input EXCEPT ![i] = dev]
SetFailed(i, d)    == \E e \in {input[i], d} : Outcome(i, "CLOSED", FALSE, e)
SetNoPreproc(i, d) == filters.inited /\ Outcome(i, "OPENED", TRUE, d)
SetOk(i, d)        == \E open \in {TRUE, ~filters.inited} :
                          Outcome(i, "OPENED", open, d)

\* openInputStream; a stream that was not set is deleted, which routes.
OpenInput(b) ==
    /\ Enter(b, "openInput") /\ MLockFree
    /\ \E i \in Streams, d \in InDevices \ {"none"} :
          /\ state[i] = "none"
          /\ \/ /\ SetOk(i, d) /\ mInputs' = mInputs \cup {i}
                /\ UNCHANGED <<pc, arg>>
             \/ /\ SetFailed(i, d) \/ SetNoPreproc(i, d)
                /\ arg' = [arg EXCEPT ![b] = i] /\ Goto(b, "drop")
                /\ UNCHANGED mInputs
    /\ UNCHANGED <<mLock, ret, new, index, modeVars, mCurSndDevice,
                   mBuiltinMicSelected, outVars, ppVars, drvVars>>

\* The inputs are sorted by address.
IndexOf(i) == Cardinality({j \in mInputs : j < i})
At(k)      == CHOOSE i \in mInputs : IndexOf(i) = k

\* closeInputStream looks the input up, and gives mLock up ...
FindInput(b) ==
    /\ Enter(b, "closeInput") /\ MLockFree
    /\ \E i \in mInputs :
          /\ pc[i] = "idle"
          /\ index' = [index EXCEPT ![b] = IndexOf(i)]
          /\ arg' = [arg EXCEPT ![b] = i]
    /\ Goto(b, "delete")
    /\ UNCHANGED <<ret, new, modeVars, mCurSndDevice, mBuiltinMicSelected,
                   inVars, outVars, ppVars, drvVars>>

\* Faulty variant: it keeps mLock over the deletion.
CloseInputLocked(b) == FindInput(b) /\ mLock' = b

CloseInput(b) == FindInput(b) /\ UNCHANGED mLock

\* standby of input i, for thread t: close it, forget the device, route.
InputStandby(t, i, l) ==
    /\ Outcome(i, "CLOSED", FALSE, input[i])
    /\ mCurSndDevice' = Unset
    /\ CallRouting(t, i, l)
    /\ UNCHANGED <<mLock, new, index, modeVars, mBuiltinMicSelected, mInputs,
                   outVars, ppVars, drvVars>>

\* ... deletes what is at the index, whose destructor goes to standby ...
DeleteInput(b) ==
    \/ /\ pc[b] = "delete" /\ InputStandby(b, At(index[b]), "erase")
       /\ UNCHANGED calls
    \/ /\ pc[b] = "drop" /\ InputStandby(b, arg[b], "free")
       /\ UNCHANGED calls

\* ... and takes mLock again to remove what is at the index then.
EraseInput(b) ==
    /\ \/ pc[b] = "free" /\ UNCHANGED mInputs
       \/ /\ pc[b] = "erase" /\ MLockFree
          /\ mInputs' = mInputs \ {At(index[b])}
    /\ state' = [state EXCEPT ![arg[b]] = "none"]
    /\ input' = [input EXCEPT ![arg[b]] = "none"]
    /\ arg' = [arg EXCEPT ![b] = 0]
    /\ Goto(b, "idle")
    /\ UNCHANGED <<mLock, ret, new, index, calls, modeVars, mCurSndDevice,
                   mBuiltinMicSelected, fd, outVars, ppVars, drvVars>>

\* The record thread of an input runs until the input is being closed.
Recording(i) ==
    /\ pc[i] = "idle" /\ i \in mInputs
    /\ \A b \in Binders : arg[b] # i

\* read sets an input that went to standby again, under mLock ...
ReadOpens(i) ==
    /\ Recording(i) /\ state[i] = "CLOSED" /\ MLockFree /\ Count
    /\ \/ SetOk(i, input[i]) /\ Goto(i, "start")
       \/ (SetFailed(i, input[i]) \/ SetNoPreproc(i, input[i])) /\ UNCHANGED pc
    /\ UNCHANGED <<mLock, ret, arg, new, index, modeVars, mCurSndDevice,
                   mBuiltinMicSelected, mInputs, outVars, ppVars, drvVars>>

\* ... and routes to an input that has not started ...
ReadStarts(i) ==
    /\ \/ Recording(i) /\ state[i] = "OPENED" /\ Count
       \/ pc[i] = "start" /\ UNCHANGED calls
    /\ Outcome(i, "STARTED", fd[i], input[i])
    /\ mCurSndDevice' = Unset
    /\ CallRouting(i, i, "audioStart")
    /\ UNCHANGED <<mLock, new, index, modeVars, mBuiltinMicSelected, mInputs,
                   outVars, ppVars, drvVars>>

\* ... and starts it; one that does not start goes to standby.
ReadStarted(i) ==
    /\ pc[i] = "audioStart" /\ UNCHANGED calls
    /\ \/ /\ fd[i] /\ Goto(i, "idle")
          /\ UNCHANGED <<mLock, ret, arg, new, index, modeVars, mCurSndDevice,
                         mBuiltinMicSelected, inVars, outVars, ppVars,
                         drvVars>>
       \/ InputStandby(i, i, "idle")

RecordStandby(i) ==
    Recording(i) /\ Count /\ InputStandby(i, i, "idle")

\* setParameters(routing) of an input: one device only.
InSetParameters(i) ==
    /\ Recording(i) /\ Count
    /\ \E d \in InDevices \ {input[i]} :
          Outcome(i, state[i], fd[i], d)
    /\ CallRouting(i, i, "idle")
    /\ UNCHANGED <<mLock, new, index, modeVars, mCurSndDevice,
                   mBuiltinMicSelected, mInputs, outVars, ppVars, drvVars>>

-----------------------------------------------------------------------------
Routing(t) == RouteChoose(t) \/ RouteArgs(t) \/ RouteSend(t) \/ RouteSwitch(t)
              \/ RoutePostProc(t) \/ RouteStore(t) \/ TtyKey(t)
Mixer      == OutWrite \/ OutStandby \/ OutClosed \/ OutPostProc
              \/ OutSetParameters \/ OutRouteAgain
Binder(b)  == SetMode(b) \/ SetMicMute(b) \/ SetParameters(b) \/ OpenInput(b)
              \/ CloseInput(b) \/ DeleteInput(b) \/ EraseInput(b)
Record(i)  == ReadOpens(i) \/ ReadStarts(i) \/ ReadStarted(i)
              \/ RecordStandby(i) \/ InSetParameters(i)

Act(t) == \/ Routing(t)
          \/ t = mixer /\ Mixer
          \/ t \in Binders /\ Binder(t)
          \/ t \in Streams /\ Record(t)
Next == \E t \in Threads : Act(t)

Spec == Init /\ [][Next]_vars

-----------------------------------------------------------------------------
(* Properties *)

\* No thread is between choosing a route and remembering it.
Settled == \A t \in Threads : new[t].dev = Unset

\* Whenever no routing is under way and the driver has not refused a call
\* since, the microphone is mute exactly when setMicMute said so: a route
\* chosen by another thread never brings an older setting back.
MicFollowsSwitch == Settled /\ rpcOk => drv.mic = mMicMute

\* The device doRouting remembers, and skips the next route for, is the one
\* the driver is set to, whichever threads routed in whatever order.
RememberedIsSet == Settled /\ rpcOk /\ mCurSndDevice # Unset
                   => drv.dev = mCurSndDevice

\* When no routing is under way, the driver has the device the code remembers
\* and the microphone setMicMute asked for, whichever threads routed.
DriverFollows == MicFollowsSwitch /\ RememberedIsSet

\* No thread waits for the mLock it holds: closing an input, and opening one
\* that fails, delete a stream whose destructor takes mLock to route.  As a
\* thread that has mLock waits for nothing else, nobody waits for ever.
NeverSelfLocked == \A t \in Threads :
    pc[t] \in {"route", "delete", "drop", "erase"} => mLock # t

\* setMode's comment: the next doRouting tells the driver, even if the
\* device is the same.  So once everyone is done, in a call with a device
\* set, the ear piece is not mute.
CallHeard == /\ \A t \in Threads : pc[t] = "idle"
             /\ mMode = "IN_CALL" /\ mCurSndDevice # Unset /\ rpcOk
             => ~drv.ear

\* write's comment "enable post processing": while music plays on the
\* loudspeaker, a filter the file enables for it is on.
PostProcOn == /\ \A t \in Threads : pc[t] = "idle"
              /\ out = "playing" /\ filters.inited /\ snd_device = "SPEAKER"
              /\ 1 \in filters.flag["ADRC"]
              => dsp # {}
=============================================================================
