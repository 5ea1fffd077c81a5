---------------------------- MODULE MCAudioHardware ----------------------------
(* Model checking instance of AudioHardware: one thread opens and closes     *)
(* inputs, another does everything else.  The files are the one of this      *)
(* device, and a file with a line that fails.                                *)
EXTENDS AudioHardware, TLC
CONSTANTS b1, b2
MCBinders == {b1, b2}
MCCalls   == b1 :> {"openInput", "closeInput"}
             @@ b2 :> {"setMode", "setMicMute", "setParameters"}
Line(k, t, w) == [kind |-> k, table |-> t, on |-> TRUE, whole |-> w]
MCFiles   == {<<Line("A", 1, TRUE), Line("B", 1, TRUE)>>,
              <<Line("A", 1, TRUE), Line("B", 1, FALSE)>>}
Policy(ph, f, av) == [phone |-> ph, force |-> f,
                      avail |-> {"EARPIECE", "SPEAKER"} \cup av]
MCPolicy  == {Policy("NORMAL", "NONE", {}),
              Policy("IN_CALL", "NONE", {"WIRED_HEADSET"})}
=============================================================================
