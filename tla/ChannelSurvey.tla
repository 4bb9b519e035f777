---------------------------- MODULE ChannelSurvey ----------------------------
(***************************************************************************)
(* scripts/channel_survey.sh: one second of IQ per channel into one file,  *)
(* a replay of that file, and the channel with the fewest decoded frames   *)
(* named as the best.  tools_replay_iq.py counts what decode_mac puts out, *)
(* the legacy frames; HT and VHT frames come out of frame_equalizer and    *)
(* are not counted.                                                        *)
(*                                                                         *)
(* External: the traffic on the channels, steady while the survey lasts;   *)
(* the SDR, which may be out of order; and the replay, which misses some   *)
(* frames of the file and may be killed by timeout(1) after a minute.      *)
(***************************************************************************)
EXTENDS Integers, Sequences

CONSTANTS
  Channels,     \* CHANS, in order
  Mapped,       \* the channels FREQ has a frequency for
  Traffic       \* the numbers of legacy frames a second of a channel may hold

Surveyed == {Channels[c] : c \in DOMAIN Channels} \cap Mapped

VARIABLES
  step,      \* capture, replay, report, over
  k,         \* channels dealt with
  busy,      \* the frames on each channel: how many legacy ones, any HT or VHT ones?
  file,      \* legacy frames in $CAP
  results,   \* lines of $RESULTS: channel and count
  best,      \* BEST_CHANNEL, 0 for an empty string
  missed     \* history: was a channel with legacy frames, or the SDR, not heard?

vars == <<step, k, busy, file, results, best, missed>>

Ch == Channels[k + 1]
StepAfter(done) == IF done < Len(Channels) THEN "capture" ELSE "report"

Init ==
  /\ step = StepAfter(0)
  /\ k = 0
  /\ busy \in [Surveyed -> [legacy : Traffic, modern : BOOLEAN]]
  /\ file = 0                  \* mktemp
  /\ results = {}
  /\ best = 0
  /\ missed = FALSE

SkipUnmapped ==                \* "no freq mapping, skip"
  /\ step = "capture" /\ Ch \notin Mapped
  /\ k' = k + 1
  /\ step' = StepAfter(k + 1)
  /\ UNCHANGED <<busy, file, results, best, missed>>

(* A failure of iq_capture.py is not noticed: the file stays as it is, or  *)
(* the capture breaks off.                                                 *)
Capture ==
  /\ step = "capture" /\ Ch \in Mapped
  /\ step' = "replay"
  /\ \/ file' = busy[Ch].legacy /\ UNCHANGED missed
     \/ file' \in {file} \cup 0 .. busy[Ch].legacy /\ missed' = TRUE
  /\ UNCHANGED <<k, busy, results, best>>

(* The count is what the replay decodes of the file.  A replay that is     *)
(* killed prints no count, and ${n:-0} reads as none.                      *)
Replay ==
  /\ step = "replay"
  /\ \E n \in 0 .. file :
       /\ results' = results \cup {[ch |-> Ch, n |-> n]}
       /\ missed' = (missed \/ (n = 0 /\ file > 0))
  /\ k' = k + 1
  /\ step' = StepAfter(k + 1)
  /\ UNCHANGED <<busy, file, best>>

(* sort -k2 -n | head -1; which of two equal lines comes first is left     *)
(* open.  The faulty variant sorts the other way round.                    *)
FirstBusiest == {l \in results : \A l2 \in results : l2.n <= l.n}
First == {l \in results : \A l2 \in results : l.n <= l2.n}

Report ==
  /\ step = "report"
  /\ step' = "over"
  /\ best' \in IF results = {} THEN {0} ELSE {l.ch : l \in First}
  /\ results' = {} /\ file' = 0          \* rm -f
  /\ UNCHANGED <<k, busy, missed>>

Next == SkipUnmapped \/ Capture \/ Replay \/ Report
=============================================================================
