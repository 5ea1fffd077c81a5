----------------------------- MODULE AudioPolicy -----------------------------
(***************************************************************************)
(* getDeviceForStrategy of src/libaudio/AudioPolicyManager.cpp, built with *)
(* WITH_A2DP: which output devices a kind of sound goes to, given the      *)
(* policy's state                                                          *)
(*   p = [phone |-> mPhoneState, force |-> mForceUse[FOR_COMMUNICATION],   *)
(*        avail |-> mAvailableOutputDevices].                              *)
(* A bit mask of devices is a set of names.  The rest of the policy is     *)
(* AudioPolicyManagerBase, which is not in the repository.                 *)
(***************************************************************************)
EXTENDS Naturals, Sequences

Sonifications == {"SONIFICATION", "MEDIA_SONIFICATION"}
Strategies  == {"MEDIA", "PHONE", "DTMF"} \cup Sonifications
PhoneStates == {"NORMAL", "RINGTONE", "IN_CALL"}
Forces      == {"NONE", "BT_SCO", "SPEAKER"}
A2dpDevices == {"A2DP", "A2DP_HEADPHONES", "A2DP_SPEAKER"}
OutDevices  == A2dpDevices \cup
    {"EARPIECE", "SPEAKER", "WIRED_HEADSET", "WIRED_HEADPHONE", "SCO",
     "SCO_HEADSET", "SCO_CARKIT", "AUX_DIGITAL"}

\* The first device of a list that is there, as a mask.
FirstOf(list, avail) ==
    {d \in avail : \E i \in 1..Len(list) :
        list[i] = d /\ \A j \in 1..i-1 : list[j] \notin avail}

ListIf(c, list) == IF c THEN list ELSE <<>>

\* STRATEGY_PHONE, and STRATEGY_DTMF in a call, which leaves the car kit out.
PhoneDevice(strategy, p) ==
    LET inCall == p.phone = "IN_CALL"
        carkit == ListIf(~inCall \/ strategy # "DTMF", <<"SCO_CARKIT">>)
        none   == <<"WIRED_HEADPHONE", "WIRED_HEADSET">>
                  \o ListIf(~inCall, <<"A2DP", "A2DP_HEADPHONES">>)
                  \o ListIf(p.phone = "RINGTONE", <<"SPEAKER">>)
                  \o <<"EARPIECE">>
    IN  FirstOf(CASE p.force = "BT_SCO"  -> carkit
                                            \o <<"SCO_HEADSET", "SCO">> \o none
                  [] p.force = "SPEAKER" -> carkit
                                            \o ListIf(~inCall, <<"A2DP_SPEAKER">>)
                                            \o <<"SPEAKER">>
                  [] OTHER               -> none,
                p.avail)

\* STRATEGY_MEDIA, and what the sonifications add the loudspeaker to.
\* In a call a device other than the cached one of the phone is refused.
MediaDevice(strategy, p, cachedPhone) ==
    LET aux    == IF "AUX_DIGITAL" \in p.avail THEN <<"AUX_DIGITAL">>
                  ELSE ListIf(p.avail \cap A2dpDevices # {},
                              <<"A2DP", "A2DP_HEADPHONES", "A2DP_SPEAKER">>)
        device == {d \in p.avail : strategy \in Sonifications /\ d = "SPEAKER"}
                  \cup FirstOf(aux \o <<"WIRED_HEADPHONE", "WIRED_HEADSET",
                                        "SPEAKER", "EARPIECE">>, p.avail)
        isA2dp == \E d \in A2dpDevices : device = {d}
    IN  IF p.phone = "IN_CALL" /\ ~isA2dp /\ device # cachedPhone THEN {}
        ELSE device

DeviceForStrategy(strategy, p, cachedPhone) ==
    CASE strategy = "PHONE" -> PhoneDevice("PHONE", p)
      [] strategy = "DTMF"  -> IF p.phone = "IN_CALL"
                               THEN PhoneDevice("DTMF", p)
                               ELSE MediaDevice("MEDIA", p, cachedPhone)
      [] strategy \in Sonifications /\ p.phone \in {"IN_CALL", "RINGTONE"}
                            -> PhoneDevice("PHONE", p)
      [] OTHER              -> MediaDevice(strategy, p, cachedPhone)
=============================================================================
