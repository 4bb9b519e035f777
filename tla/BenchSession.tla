----------------------------- MODULE BenchSession -----------------------------
(***************************************************************************)
(* A session at the bench, as the comments of coverage_matrix.py have it:  *)
(* the survey names a quiet channel, the operator (external) passes it as  *)
(* --channel, and the matrix is measured there beside the stations the     *)
(* channel has.                                                            *)
(***************************************************************************)
EXTENDS CoverageMatrix

CONSTANTS Channels, Mapped, Traffic    \* of the survey

ASSUME SurveyAssumption ==
  /\ Channels \in Seq(Int)
  /\ Mapped \subseteq Int
  /\ Traffic \subseteq Nat

VARIABLES step, k, busy, file, results, best, missed

Survey == INSTANCE ChannelSurvey

survey == <<step, k, busy, file, results, best, missed>>
matrix == vars

Init ==
  /\ Survey!Init
  /\ Ready
  /\ pc = "off"
  /\ ambient = {}

SurveyStep == Survey!Next /\ UNCHANGED matrix

(* Of the frames on the channel only HT and VHT ones can be taken for the  *)
(* cell's: the lines of legacy frames bear other marks.                    *)
StartMatrix ==
  /\ pc = "off" /\ step = "over" /\ best # 0
  /\ pc' = "row"
  /\ ambient' = IF busy[best].modern THEN Stations ELSE {}
  /\ UNCHANGED <<row, tries, wedged, left, cap, out, tx, rows, hist, survey>>

MatrixStep == Step /\ UNCHANGED survey

(* The report is written, or BEST_CHANNEL is empty.                        *)
Finished ==
  /\ step = "over" /\ pc = IF best = 0 THEN "off" ELSE "done"
  /\ UNCHANGED <<matrix, survey>>

Next == SurveyStep \/ StartMatrix \/ MatrixStep \/ Finished

Spec == Init /\ [][Next]_<<matrix, survey>>

-----------------------------------------------------------------------------
(* Type correctness of session, survey and matrix.                         *)
TypeOK ==
  /\ step \in {"capture", "replay", "report", "over"}
  /\ k \in 0 .. Len(Channels)
  /\ file \in Nat
  /\ results \subseteq [ch : Survey!Surveyed, n : Nat]
  /\ best \in Survey!Surveyed \cup {0}
  /\ pc \in {"off", "row", "start", "capture", "replay", "classify", "rx", "done"}
  /\ row \in 1 .. Len(Cells) + 1
  /\ tries \in 0 .. Retries + 1
  /\ {wedged, futile, missed} \subseteq BOOLEAN
  /\ left \in [Procs -> 0 .. Len(Cells)]
  /\ ambient \in {{}, Stations}
  /\ cap \subseteq Stations \cup {Frame(c) : c \in Reachable}
  /\ out \in [sig : BOOLEAN, data : BOOLEAN]
  /\ tx \in TxResults
  /\ rows \in Seq([tx : TxResults, rx : RxResults] \cup [tx : {"SKIP"}, rx : {"SKIP"}])
  /\ earned \cup written \cup rxHeard \cup rxKilled \subseteq Reachable

(* What the survey is for (comments of coverage_matrix.py at --channel and *)
(* first lines of channel_survey.sh): on the channel it names SIG+DATA     *)
(* means both, because no other station's frames are taken for the cell's, *)
(* provided that legacy frames are "a proxy for ambient occupancy", found  *)
(* wherever there are others, that a channel without them exists, that the *)
(* survey missed no channel that has them, and that the cell's file is of  *)
(* this run.                                                               *)
Proxy == \A c \in Survey!Surveyed : busy[c].modern => busy[c].legacy > 0
QuietChannelPays ==
  /\ Proxy /\ ~missed
  /\ \E c \in Survey!Surveyed : busy[c].legacy = 0
  /\ row \in written
  => FullMeansBoth
=============================================================================
