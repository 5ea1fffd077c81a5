---------------------------- MODULE AudioFilters ----------------------------
(***************************************************************************)
(* The filter tables of src/libaudio/AudioHardware.cpp: how AudioFilter.csv *)
(* is read into them (get_audpp_filter) and what msm72xx_enable_postproc   *)
(* makes of them.                                                          *)
(*                                                                         *)
(* A line of the file is a record                                          *)
(*   [kind |-> "A".."G", or another letter, table |-> 0.. ,                *)
(*    on   |-> its enable flag is not 0,                                   *)
(*    whole |-> no token is missing and, for "C", libaudioeq opens].       *)
(* A and B hold filters of output table 1..3 (speaker, handset, headset),  *)
(* as do C and D; E, F and G hold filters of sampling rate 1..9.           *)
(***************************************************************************)
EXTENDS Naturals, Sequences

Features    == {"ADRC", "EQ", "RX_IIR", "MBADRC"}
PreFeatures == {"TX_IIR", "AGC", "NS"}
PreFeatureOf == [E |-> "TX_IIR", F |-> "AGC", G |-> "NS"]

\* adrc_filter_exists and mbadrc_filter_exists; the *_flag tables;
\* enable_preproc_mask; audpp_filter_inited.
NoFilters == [exists |-> [f \in {"ADRC", "MBADRC"} |-> {}],
              flag   |-> [f \in Features |-> {}],
              preproc |-> {}, inited |-> FALSE]

\* A line for an output table.  A compressor exists from its first letter
\* on; a flag is stored when its token is there, EQ's before its library.
Exists(t, f, line) == [t EXCEPT !.exists[f] = @ \cup {line.table}]
Flag(t, f, line)   == [t EXCEPT !.flag[f] = IF line.on THEN @ \cup {line.table}
                                            ELSE @ \ {line.table}]
FlagIfWhole(t, f, line) == IF line.whole THEN Flag(t, f, line) ELSE t

IirLine(t, line)    == FlagIfWhole(t, "RX_IIR", line)
AdrcLine(t, line)   == FlagIfWhole(Exists(t, "ADRC", line), "ADRC", line)
EqLine(t, line)     == Flag(t, "EQ", line)
MbadrcLine(t, line) == FlagIfWhole(Exists(t, "MBADRC", line), "MBADRC", line)

\* A line for a sampling rate adds its feature to the mask, for every rate.
PreLine(t, line) ==
    IF line.whole /\ line.on
    THEN [t EXCEPT !.preproc = @ \cup {PreFeatureOf[line.kind]}] ELSE t

\* check_and_set_audpp_parameters.
IsOutput(line) == line.kind \in {"A", "B", "C", "D"} /\ line.table \in 1..3
IsPre(line)    == line.kind \in DOMAIN PreFeatureOf
SetLine(t, line) ==
    CASE IsOutput(line) -> CASE line.kind = "A" -> IirLine(t, line)
                             [] line.kind = "B" -> AdrcLine(t, line)
                             [] line.kind = "C" -> EqLine(t, line)
                             [] line.kind = "D" -> MbadrcLine(t, line)
      [] IsPre(line) /\ line.table \in 1..9 -> PreLine(t, line)
      [] OTHER -> t
LineFails(line)  == \/ (IsOutput(line) \/ IsPre(line)) /\ ~line.whole
                    \/ IsPre(line) /\ line.table \notin 1..9

\* get_audpp_filter: lines are read up to the first that fails, and only a
\* file without one makes the tables count.
AudppFilter(file) ==
    LET bad  == {i \in 1..Len(file) : LineFails(file[i])}
        last == IF bad = {} THEN Len(file)
                ELSE CHOOSE i \in bad : \A j \in bad : i <= j
        table[i \in 0..last] ==
            IF i = 0 THEN NoFilters ELSE SetLine(table[i - 1], file[i])
    IN  [table[last] EXCEPT !.inited = bad = {}]

-----------------------------------------------------------------------------
(* Post processing *)

\* ADRC_DISABLE, EQ_DISABLE, RX_IIR_DISABLE and MBADRC_DISABLE are all 0.
DISABLE == {}

DeviceId(snd) == CASE snd = "HANDSET" -> 2 [] snd = "HEADSET" -> 3
                   [] OTHER -> 1

\* A feature without its flag is masked out with its DISABLE constant.
Flagged(t, id, f, mask) ==
    IF f \in mask /\ id \notin t.flag[f] THEN mask \cap DISABLE ELSE mask

\* post_proc_feature_mask after the first part of msm72xx_enable_postproc:
\* the two compressors exclude each other, and each clears the other's bit.
FeatureMask(t, snd, state, mask) ==
    LET id   == DeviceId(snd)
        comp == CASE id \in t.exists["MBADRC"] /\ state ->
                       Flagged(t, id, "MBADRC", mask \cap DISABLE)
                  [] id \in t.exists["ADRC"] \ t.exists["MBADRC"] /\ state ->
                       Flagged(t, id, "ADRC", mask \cap DISABLE)
                  [] OTHER -> mask \cap DISABLE
    IN  Flagged(t, id, "RX_IIR", Flagged(t, id, "EQ", comp))

\* What AUDIO_ENABLE_AUDPP is told: the mask, or to switch off, the DISABLE
\* constants of what is in it.
Told(state, mask) == IF state THEN mask ELSE UNION {DISABLE : f \in mask}
=============================================================================
