----------------------------- MODULE AudioRoute -----------------------------
(***************************************************************************)
(* How doRouting of src/libaudio/AudioHardware.cpp chooses the sound       *)
(* device of the baseband, with COMBO_DEVICE_SUPPORTED, and when           *)
(* doAudioRouteOrMute mutes the ear piece.                                 *)
(***************************************************************************)
EXTENDS AudioPolicy, AudioFilters

\* The endpoints the constructor looks up; the SND_DEVICE_* of every other
\* stays -1.
CheckedFor == {"CURRENT", "HANDSET", "SPEAKER", "BT", "BT_EC_OFF", "HEADSET",
               "HEADSET_AND_SPEAKER", "IN_S_SADC_OUT_HANDSET",
               "IN_S_SADC_OUT_SPEAKER_PHONE", "TTY_HEADSET", "TTY_HCO",
               "TTY_VCO"}
Unset == "-1"
SndDevice(name) == IF name \in CheckedFor THEN name ELSE Unset

\* mTtyMode is not initialised: "junk" is any other value it may begin with.
TtyModes == {"TTY_OFF", "TTY_FULL", "TTY_VCO", "TTY_HCO", "junk"}

Route(name, mask) == [dev |-> SndDevice(name), mask |-> mask]

\* An input decides alone, unless it is being closed for good ("none").
InputRoute(input, outs) ==
    CASE input = "none"           -> Route(Unset, {})
      [] input = "SCO_HEADSET"    -> Route("BT", {})
      [] input = "WIRED_HEADSET"  -> Route("HEADSET", {})
      [] "SPEAKER" \in outs       -> Route("SPEAKER", Features)
      [] OTHER                    -> Route("HANDSET", {})

TtyRoute(tty) ==
    Route(CASE tty = "TTY_FULL" -> "TTY_HEADSET" [] tty = "TTY_VCO" -> "TTY_VCO"
            [] tty = "TTY_HCO" -> "TTY_HCO" [] OTHER -> Unset, {})

OutputRoute(outs, mode, tty) ==
    LET has(d)  == d \in outs
        headset == has("WIRED_HEADSET")
    IN  CASE tty # "TTY_OFF" /\ mode = "IN_CALL" /\ headset -> TtyRoute(tty)
          [] has("SCO") \/ has("SCO_HEADSET")     -> Route("BT", {})
          [] has("SCO_CARKIT")                    -> Route("CARKIT", {})
          [] has("SPEAKER") /\ (headset \/ has("WIRED_HEADPHONE"))
                             -> Route("HEADSET_AND_SPEAKER", Features)
          [] has("WIRED_HEADPHONE")               -> Route("NO_MIC_HEADSET", {})
          [] headset                              -> Route("HEADSET", Features)
          [] has("SPEAKER")                       -> Route("SPEAKER", Features)
          [] OTHER                                -> Route("HANDSET", Features)

\* The second microphone takes part in a call.
DualMic(r, mode, dual) ==
    IF ~dual \/ mode # "IN_CALL" THEN r
    ELSE [r EXCEPT !.dev = CASE @ = "HANDSET" -> "IN_S_SADC_OUT_HANDSET"
                             [] @ = "SPEAKER" -> "IN_S_SADC_OUT_SPEAKER_PHONE"
                             [] OTHER -> @]

\* new_snd_device and new_post_proc_feature_mask.
NewRoute(input, outs, mode, tty, dual) ==
    LET fromInput == InputRoute(input, outs)
    IN  DualMic(IF fromInput.dev # Unset THEN fromInput
                ELSE OutputRoute(outs, mode, tty), mode, dual)

\* doAudioRouteOrMute: out of a call the ear piece is mute, unless the
\* built-in microphone is in use with it.
EarMute(dev, mode, builtin) ==
    mode # "IN_CALL" /\ (dev = "HANDSET" => ~builtin)
=============================================================================
