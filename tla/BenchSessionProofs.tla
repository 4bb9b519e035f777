-------------------------- MODULE BenchSessionProofs --------------------------
(***************************************************************************)
(* Rate indices, then the matrix and the session for any cells, channels   *)
(* and number of retries.                                                  *)
(***************************************************************************)
EXTENDS BenchSession, TLAPS

-----------------------------------------------------------------------------
(* Rate indices: decode() inverts the two encoders over the ranges its     *)
(* docstring names, so that what run_rx_cell() compares, the index, stands *)
(* for the rate.                                                           *)

(* The HT half: "mcs is 0..31 (nss = mcs//8 + 1 ...)".                     *)
THEOREM HtRoundTrip ==
  ASSUME NEW mcs \in 0 .. 31
  PROVE  decode(encode_ht(mcs)) = Phy("HT", mcs, mcs \div 8 + 1)
BY DEF decode, encode_ht, DESC_RATEMCS0, DESC_RATEVHTSS1MCS0

(* The VHT half: "mcs is 0..9 and nss is 1..4".                            *)
THEOREM VhtRoundTrip ==
  ASSUME NEW nss \in 1 .. 4, NEW mcs \in 0 .. 9
  PROVE  decode(encode_vht(nss, mcs)) = Phy("VHT", mcs, nss)
<1> DEFINE off == (nss - 1) * 10 + mcs
<1>1. /\ off \in Nat
      /\ off % 10 = mcs
      /\ off \div 10 + 1 = nss
  OBVIOUS
<1>2. encode_vht(nss, mcs) = 44 + off
  BY DEF encode_vht, DESC_RATEVHTSS1MCS0
<1> HIDE DEF off
<1>3. decode(44 + off) = Phy("VHT", off % 10, off \div 10 + 1)
  BY <1>1 DEF decode, DESC_RATEMCS0, DESC_RATEVHTSS1MCS0
<1>4. QED
  BY <1>1, <1>2, <1>3

(* No index stands for two rates, so an HT cell cannot pass on a VHT frame *)
(* and no MCS on another (coverage_matrix.py compares indices alone).      *)
THEOREM RatesDistinct ==
  ASSUME NEW h \in 0 .. 31, NEW h2 \in 0 .. 31,
         NEW s \in 1 .. 4, NEW v \in 0 .. 9, NEW s2 \in 1 .. 4, NEW v2 \in 0 .. 9
  PROVE  /\ encode_ht(h) # encode_vht(s, v)
         /\ encode_ht(h) = encode_ht(h2) => h = h2
         /\ encode_vht(s, v) = encode_vht(s2, v2) => s = s2 /\ v = v2
BY DEF encode_ht, encode_vht, DESC_RATEMCS0, DESC_RATEVHTSS1MCS0

-----------------------------------------------------------------------------
RowType == [tx : TxResults, rx : RxResults] \cup [tx : {"SKIP"}, rx : {"SKIP"}]

-----------------------------------------------------------------------------
(* The matrix: types, the row being measured and the attempts made.        *)
Owners == 0 .. Len(Cells)       \* rows, and 0 for none

Typed ==
  /\ pc \in {"off", "row", "start", "capture", "replay", "classify", "rx", "done"}
  /\ row \in 1 .. Len(Cells) + 1
  /\ tries \in Nat
  /\ wedged \in BOOLEAN
  /\ left \in [Procs -> Owners]
  /\ out \in [sig : BOOLEAN, data : BOOLEAN]
  /\ tx \in TxResults
  /\ rows \in Seq(RowType)
  /\ futile \in BOOLEAN
  /\ earned \cup written \cup rxHeard \cup rxKilled \subseteq Reachable

Attempts ==
  /\ pc \in {"start", "capture", "replay", "classify", "rx"} => row \in Reachable
  /\ tries <= Retries + 1
  /\ pc = "start" => tries <= Retries

MInv == Typed /\ Attempts

LEMMA CellFacts ==
  /\ Len(Cells) \in Nat
  /\ Retries \in Nat
  /\ Reachable = {c \in 1 .. Len(Cells) : Cells[c].reachable}
BY MatrixAssumption DEF Reachable

(* Updates of the table of processes left behind.                          *)
LEMMA OwnerFacts ==
  /\ 0 \in Owners
  /\ \A r \in Reachable : r \in Owners
BY CellFacts DEF Owners

LEMMA LeftUpdate ==
  ASSUME NEW f \in [Procs -> Owners], NEW p, NEW v \in Owners
  PROVE  [f EXCEPT ![p] = v] \in [Procs -> Owners]
OBVIOUS

(* A step of the session either leaves the matrix alone, starts it or is   *)
(* one of its own.                                                         *)
LEMMA StepCases ==
  ASSUME [Next]_<<matrix, survey>>
  PROVE  UNCHANGED vars \/ StartMatrix \/ Step
BY DEF Next, SurveyStep, MatrixStep, Finished, matrix

(* What a step does to the file of the cell being measured and to its      *)
(* history.                                                                *)
LEMMA CaptureCases ==
  ASSUME [Next]_<<matrix, survey>>
  PROVE  \/ UNCHANGED captures
         \/ StartRow
         \/ /\ SomeCaptured /\ Step
            /\ pc \in {"capture", "replay"} /\ pc' \in {"capture", "replay", "classify"}
            /\ pc' = "classify" => out' = Nothing
            /\ UNCHANGED <<row, rows, ambient, tx>>
<1>1. UNCHANGED vars \/ StartMatrix \/ Step
  BY StepCases
<1>2. CASE Capture \/ CellTimeout \/ LeftoverEnds
  BY <1>2 DEF Capture, CellTimeout, LeftoverEnds, captures, Step
<1>3. QED
  BY <1>1, <1>2 DEF Step, vars, hist, captures, StartMatrix, SkipRow, StartTx, Replay, EndAttempt,
     RxCell, RxTimeout, WriteReport

LEMMA CapturedTyped ==
  ASSUME MInv, row \in Reachable, SomeCaptured
  PROVE  earned' \cup written' \subseteq Reachable
BY DEF MInv, Typed, SomeCaptured, Captured

LEMMA ReadyMInv ==
  ASSUME Ready, pc = "off"
  PROVE  MInv
<1>1. left \in [Procs -> Owners]
  BY OwnerFacts, Zenon DEF Ready
<1>2. out \in [sig : BOOLEAN, data : BOOLEAN] /\ rows \in Seq(RowType) /\ tx \in TxResults
  BY DEF Ready, Nothing, TxResults
<1>3. wedged \in BOOLEAN /\ futile \in BOOLEAN
  BY Zenon DEF Ready
<1>4. row \in 1 .. Len(Cells) + 1 /\ tries \in Nat /\ tries <= Retries + 1
  BY CellFacts DEF Ready
<1>5. earned \cup written \cup rxHeard \cup rxKilled \subseteq Reachable
  BY DEF Ready
<1> QED
  BY <1>1, <1>2, <1>3, <1>4, <1>5 DEF MInv, Typed, Attempts

LEMMA StepMInv ==
  ASSUME MInv, [Next]_<<matrix, survey>>
  PROVE  MInv'
<1> USE CellFacts DEF MInv, Typed, Attempts, hist
<1>1. CASE UNCHANGED vars
  BY <1>1 DEF vars
<1>2. CASE StartMatrix
  BY <1>2 DEF StartMatrix
<1>3. CASE StartRow
  BY <1>3 DEF StartRow
<1>4. CASE SkipRow
  BY <1>4 DEF SkipRow, RowType
<1>5. CASE StartTx
  <2>1. left' \in [Procs -> Owners]
    BY <1>5, OwnerFacts, LeftUpdate DEF StartTx, OldTransmitterEnded
  <2>2. wedged' \in BOOLEAN /\ pc' \in {"classify", "capture"}
    BY <1>5 DEF StartTx
  <2> QED
    BY <1>5, <2>1, <2>2 DEF StartTx, Nothing
<1>6. CASE Capture
  <2>1. earned' \cup written' \subseteq Reachable
    BY <1>6, CapturedTyped DEF Capture, captures
  <2> QED
    BY <1>6, <2>1 DEF Capture
<1>7. CASE Replay
  BY <1>7 DEF Replay
<1>8. CASE CellTimeout
  <2>1. row \in Owners
    BY <1>8, OwnerFacts DEF CellTimeout
  <2>2. left' \in [Procs -> Owners]
    BY <1>8, <2>1, LeftUpdate DEF CellTimeout, Procs, AdapterUsers, SdrUsers
  <2>3. earned' \cup written' \subseteq Reachable
    BY <1>8, CapturedTyped DEF CellTimeout, captures
  <2> QED
    BY <1>8, <2>2, <2>3 DEF CellTimeout, Nothing
<1>9. CASE EndAttempt
  <2>1. left' \in [Procs -> Owners]
    BY <1>9, OwnerFacts DEF EndAttempt, Recover
  <2>2. wedged' \in BOOLEAN /\ futile' \in BOOLEAN
    BY <1>9, MatrixAssumption DEF EndAttempt, Recover
  <2> QED
    BY <1>9, <2>1, <2>2 DEF EndAttempt, Classify, TxResults, captures
<1>10. CASE RxCell
  <2>1. left' \in [Procs -> Owners]
    BY <1>10, OwnerFacts, LeftUpdate DEF RxCell, Cleanup
  <2>2. rows' \in Seq(RowType)
    BY <1>10 DEF RxCell, RxResult, RxResults, RowType
  <2>3. rxHeard' \subseteq Reachable /\ wedged' \in BOOLEAN
    BY <1>10 DEF RxCell
  <2> QED
    BY <1>10, <2>1, <2>2, <2>3 DEF RxCell, EndRow, Reachable, captures
<1>11. CASE RxTimeout
  <2>1. row \in Owners
    BY <1>11, OwnerFacts DEF RxTimeout
  <2>2. left' \in [Procs -> Owners]
    <3> DEFINE rxd == IF Running(AdapterUsers) THEN left["rxdemo"] ELSE row
               std == IF Running({"iqcap"}) THEN 0 ELSE row
               withRx == [left EXCEPT !["rxdemo"] = rxd]
    <3>1. \/ left' = [left EXCEPT !["sdrtx"] = 0]
          \/ left' = [withRx EXCEPT !["sdrtx"] = std]
      BY <1>11 DEF RxTimeout
    <3>2. left["rxdemo"] \in Owners
      BY DEF Procs, AdapterUsers
    <3>3. rxd \in Owners /\ std \in Owners
      BY <2>1, <3>2, OwnerFacts
    <3> HIDE DEF rxd, std
    <3>4. withRx \in [Procs -> Owners]
      BY <3>3, LeftUpdate
    <3> HIDE DEF withRx
    <3> QED
      BY <3>1, <3>3, <3>4, OwnerFacts, LeftUpdate
  <2>3. rows' \in Seq(RowType)
    BY <1>11 DEF RxTimeout, RxResults, RowType
  <2>4. rxKilled' \subseteq Reachable /\ wedged' \in BOOLEAN
    BY <1>11 DEF RxTimeout
  <2> QED
    BY <1>11, <2>2, <2>3, <2>4 DEF RxTimeout, EndRow, captures
<1>12. CASE WriteReport
  BY <1>12 DEF WriteReport
<1>13. CASE LeftoverEnds
  <2>1. left' \in [Procs -> Owners]
    BY <1>13, OwnerFacts, LeftUpdate DEF LeftoverEnds
  <2>2. earned' \cup written' \subseteq Reachable
    BY <1>13, CapturedTyped DEF LeftoverEnds, captures
  <2> QED
    BY <1>13, <2>1, <2>2 DEF LeftoverEnds
<1>14. QED
  BY <1>1, <1>2, <1>3, <1>4, <1>5, <1>6, <1>7, <1>8, <1>9, <1>10, <1>11, <1>12, <1>13,
     StepCases DEF Step

LEMMA SpecMInv == Spec => []MInv
<1>1. Init => MInv
  BY ReadyMInv DEF Init
<1>2. MInv /\ [Next]_<<matrix, survey>> => MInv'
  BY StepMInv
<1>3. QED
  BY <1>1, <1>2, PTL DEF Spec

-----------------------------------------------------------------------------
(* No attempt inherits a wedge but through a recovery that failed, and     *)
(* NO-DECODE is given up to after every retry only.  The property          *)
(* is inductive beside MInv: an attempt that starts anew or ends the TX    *)
(* direction comes from EndAttempt, which has recovered the adapter.       *)
LEMMA StepRetries ==
  ASSUME MInv, RetriesStartHealthy, [Next]_<<matrix, survey>>
  PROVE  RetriesStartHealthy'
<1> USE CellFacts DEF MInv, Typed, Attempts, RetriesStartHealthy
<1>1. CASE UNCHANGED vars
  BY <1>1 DEF vars, hist
<1>2. CASE StartMatrix
  BY <1>2 DEF StartMatrix
<1>3. CASE StartRow
  BY <1>3 DEF StartRow
<1>4. CASE SkipRow \/ Capture \/ Replay \/ CellTimeout
  BY <1>4 DEF SkipRow, Capture, Replay, CellTimeout, hist
<1>5. CASE StartTx
  BY <1>5 DEF StartTx
<1>6. CASE EndAttempt
  <2>1. HasRecover /\ wedged' => futile'
    BY <1>6, Zenon DEF EndAttempt, Recover
  <2>2. pc' = "rx" /\ tx' = "NO-DECODE" => tries' = Retries + 1
    BY <1>6 DEF EndAttempt
  <2> QED
    BY <2>1, <2>2, Zenon DEF RetriesStartHealthy
<1>7. CASE RxCell \/ RxTimeout \/ WriteReport
  BY <1>7 DEF RxCell, RxTimeout, WriteReport, EndRow
<1>8. CASE LeftoverEnds
  BY <1>8 DEF LeftoverEnds
<1>9. QED
  BY <1>1, <1>2, <1>3, <1>4, <1>5, <1>6, <1>7, <1>8, StepCases DEF Step

(* RetriesStartHealthy holds for every matrix and number of retries.       *)
THEOREM AttemptsStartHealthy == Spec => []RetriesStartHealthy
<1>1. Init => RetriesStartHealthy
  BY DEF Init, Ready, RetriesStartHealthy
<1>2. MInv /\ RetriesStartHealthy /\ [Next]_<<matrix, survey>> => RetriesStartHealthy'
  BY StepRetries
<1>3. QED
  BY <1>1, <1>2, SpecMInv, PTL DEF Spec

-----------------------------------------------------------------------------
(* The report: what a step appends to it.                                  *)
Appends ==
  \/ UNCHANGED <<rows, row>>
  \/ \E line \in RowType :
       /\ rows' = Append(rows, line)
       /\ row' = row + 1
       /\ row \in 1 .. Len(Cells)
       /\ line.tx = "SKIP" <=> ~Cells[row].reachable

LEMMA StepAppends ==
  ASSUME MInv, [Next]_<<matrix, survey>>
  PROVE  Appends
<1> USE CellFacts DEF MInv, Typed, Attempts, Appends, RowType
<1>1. CASE UNCHANGED vars \/ StartMatrix \/ StartRow \/ StartTx \/ Capture \/ Replay
             \/ CellTimeout \/ EndAttempt \/ WriteReport \/ LeftoverEnds
  BY <1>1 DEF vars, StartMatrix, StartRow, StartTx, Capture, Replay, CellTimeout,
              EndAttempt, WriteReport, LeftoverEnds
<1>2. CASE SkipRow
  BY <1>2 DEF SkipRow
<1>3. CASE RxCell
  <2>1. PICK lines : rows' = Append(rows, [tx |-> tx, rx |-> RxResult(lines)])
    BY <1>3 DEF RxCell
  <2>2. [tx |-> tx, rx |-> RxResult(lines)] \in RowType
    BY DEF RxResult, RxResults
  <2>3. row \in Reachable /\ row' = row + 1 /\ tx # "SKIP"
    BY <1>3 DEF RxCell, EndRow, TxResults
  <2> QED
    BY <2>1, <2>2, <2>3
<1>4. CASE RxTimeout
  <2>1. [tx |-> tx, rx |-> "RX-LINK"] \in RowType
    BY DEF RxResults
  <2>2. row \in Reachable /\ row' = row + 1 /\ tx # "SKIP"
    BY <1>4 DEF RxTimeout, EndRow, TxResults
  <2> QED
    BY <1>4, <2>1, <2>2 DEF RxTimeout
<1>5. QED
  BY <1>1, <1>2, <1>3, <1>4, StepCases DEF Step

LEMMA StepReport ==
  ASSUME MInv, ReportMatchesMatrix, [Next]_<<matrix, survey>>
  PROVE  ReportMatchesMatrix'
<1>1. Appends /\ rows \in Seq(RowType) /\ row \in Nat
  BY StepAppends, CellFacts DEF MInv, Typed
<1>2. CASE UNCHANGED <<rows, row>>
  BY <1>2 DEF ReportMatchesMatrix
<1>3. ASSUME NEW line \in RowType, rows' = Append(rows, line), row' = row + 1,
             line.tx = "SKIP" <=> ~Cells[row].reachable
      PROVE  ReportMatchesMatrix'
  <2>1. Len(rows') = row /\ Len(rows) = row - 1
    BY <1>1, <1>3 DEF ReportMatchesMatrix
  <2>2. \A r \in 1 .. row : rows'[r] = IF r = row THEN line ELSE rows[r]
    BY <1>1, <1>3, <2>1
  <2> QED
    BY <1>1, <1>3, <2>1, <2>2 DEF ReportMatchesMatrix
<1> QED
  BY <1>1, <1>2, <1>3 DEF Appends

(* ReportMatchesMatrix holds for every matrix.                             *)
THEOREM ReportComplete == Spec => []ReportMatchesMatrix
<1>1. Init => ReportMatchesMatrix
  BY DEF Init, Ready, ReportMatchesMatrix
<1>2. MInv /\ ReportMatchesMatrix /\ [Next]_<<matrix, survey>> => ReportMatchesMatrix'
  BY StepReport
<1>3. QED
  BY <1>1, <1>2, SpecMInv, PTL DEF Spec

(* A property of every row of the report is kept by a step that appends a  *)
(* row which has it.                                                       *)
LEMMA RowByRow ==
  ASSUME MInv, ReportMatchesMatrix, NEW line \in RowType,
         rows' = Append(rows, line)
  PROVE  /\ Len(rows') = row
         /\ \A r \in 1 .. Len(rows') :
              \/ r = row /\ rows'[r] = line
              \/ r \in 1 .. Len(rows) /\ rows'[r] = rows[r]
BY CellFacts DEF MInv, Typed, ReportMatchesMatrix

-----------------------------------------------------------------------------
(* Where a transmitter or receiver that was left behind can still be.      *)
LEMMA StepTimeout ==
  ASSUME MInv, TimeoutContained, [Next]_<<matrix, survey>>
  PROVE  TimeoutContained'
<1> USE CellFacts DEF MInv, Typed, Attempts, TimeoutContained, Procs, AdapterUsers, SdrUsers
<1>1. CASE UNCHANGED vars
  BY <1>1 DEF vars, hist
<1>2. CASE StartMatrix \/ StartRow \/ WriteReport \/ Capture \/ Replay
  BY <1>2 DEF StartMatrix, StartRow, WriteReport, Capture, Replay, hist
<1>3. CASE SkipRow
  <2>1. /\ row' = row + 1 /\ pc' = "row" /\ row \notin Reachable
        /\ left' = left /\ rxKilled' = rxKilled
    BY <1>3 DEF SkipRow, hist, Reachable
  <2> QED
    BY <2>1
<1>4. CASE StartTx
  <2>1. left' = OldTransmitterEnded /\ row' = row /\ rxKilled' = rxKilled
    BY <1>4 DEF StartTx, hist
  <2> QED
    BY <2>1 DEF OldTransmitterEnded
<1>5. CASE CellTimeout
  <2>1. row' = row /\ rxKilled' = rxKilled /\ left'["rxdemo"] = left["rxdemo"] /\ pc' = "classify"
    BY <1>5 DEF CellTimeout
  <2> QED
    BY <2>1
<1>6. CASE EndAttempt
  <2>1. row' = row /\ rxKilled' = rxKilled /\ pc' \in {"start", "rx"}
    BY <1>6 DEF EndAttempt, hist
  <2>2. left'["rxdemo"] \in {0, left["rxdemo"]}
    BY <1>6 DEF EndAttempt, Recover
  <2> QED
    BY <2>1, <2>2
<1>7. CASE RxCell
  <2>1. left'["rxdemo"] = 0 /\ pc' = "row"
    BY <1>7 DEF RxCell, Cleanup, EndRow
  <2> QED
    BY <2>1
<1>8. CASE RxTimeout
  <2>1. row' = row + 1 /\ pc' = "row" /\ rxKilled' = rxKilled \cup {row}
    BY <1>8 DEF RxTimeout, EndRow
  <2>2. \/ left'["rxdemo"] = left["rxdemo"]
        \/ left'["rxdemo"] = row
    BY <1>8 DEF RxTimeout
  <2> QED
    BY <2>1, <2>2 DEF Owners
<1>9. CASE LeftoverEnds
  <2>1. /\ left'["rxdemo"] = left["rxdemo"] /\ row' = row /\ rxKilled' = rxKilled
        /\ left'["txdemo"] = left["txdemo"] /\ pc' = pc
    BY <1>9 DEF LeftoverEnds, hist
  <2> QED
    BY <2>1
<1>10. QED
  BY <1>1, <1>2, <1>3, <1>4, <1>5, <1>6, <1>7, <1>8, <1>9, StepCases DEF Step

(* TimeoutContained holds for every matrix, however many scripts are       *)
(* killed.                                                                 *)
THEOREM KilledScriptsContained == Spec => []TimeoutContained
<1>1. Init => TimeoutContained
  BY DEF Init, Ready, TimeoutContained, Procs, AdapterUsers, SdrUsers
<1>2. MInv /\ TimeoutContained /\ [Next]_<<matrix, survey>> => TimeoutContained'
  BY StepTimeout
<1>3. QED
  BY <1>1, <1>2, SpecMInv, PTL DEF Spec

-----------------------------------------------------------------------------
(* A decode on its way to the report: the file holds what a capture of     *)
(* this run put there, once there was one, and so does what the replay     *)
(* found in it, to classify() and into the row.                            *)
Measuring == pc \in {"start", "capture", "replay", "classify", "rx"}
Backed == row \in earned \/ Frame(row) \in ambient \/ row \notin written

File ==
  /\ Measuring /\ row \in written =>
       cap \subseteq ambient \cup (IF row \in earned THEN {Frame(row)} ELSE {})
  /\ \A r \in written : r <= row /\ (~Measuring => r < row)
  /\ pc = "off" => rows = <<>>

Pending ==
  /\ pc = "classify" /\ (out.sig \/ (out.data /\ ambient = {})) => Backed
  /\ pc = "rx" /\ (tx = "SIG-ONLY" \/ (tx = "SIG+DATA" /\ ambient = {})) => Backed

EarnedInv == DecodeEarned /\ File /\ Pending

LEMMA StepFile ==
  ASSUME MInv, File, [Next]_<<matrix, survey>>
  PROVE  File'
<1> USE CellFacts DEF MInv, Typed, Attempts, File, Measuring
<1>1. CASE StartRow
  <2>1. row \notin written
    BY <1>1 DEF StartRow
  <2> QED
    BY <1>1, <2>1 DEF StartRow, hist
<1>2. CASE SomeCaptured /\ pc \in {"capture", "replay"}
           /\ pc' \in {"capture", "replay", "classify"} /\ UNCHANGED <<row, rows, ambient, tx>>
  <2>1. PICK own \in SUBSET {Frame(row)}, amb \in SUBSET ambient : Captured(own, amb)
    BY <1>2 DEF SomeCaptured
  <2>2. /\ cap' = own \cup amb /\ written' = written \cup {row}
        /\ own # {} => row \in earned'
    BY <2>1 DEF Captured
  <2>3. cap' \subseteq ambient \cup (IF row \in earned' THEN {Frame(row)} ELSE {})
    BY <2>1, <2>2
  <2>4. Frame(row)' = Frame(row)
    BY <1>2 DEF Frame
  <2> QED
    BY <1>2, <2>2, <2>3, <2>4
<1>3. CASE UNCHANGED captures
  <2> USE <1>3 DEF captures
  <2>1. CASE UNCHANGED vars
    BY <2>1 DEF vars, Frame
  <2>2. CASE StartMatrix
    BY <2>2 DEF StartMatrix
  <2>3. CASE UNCHANGED <<row, ambient>> /\ pc # "off" /\ Measuring /\ Measuring'
    BY <2>3 DEF Frame
  <2>4. CASE row' = row + 1 /\ pc' = "row"
    BY <2>4
  <2>5. CASE WriteReport
    BY <2>5 DEF WriteReport
  <2>6. StartTx \/ Capture \/ Replay \/ CellTimeout \/ EndAttempt \/ LeftoverEnds =>
          UNCHANGED <<row, ambient>> /\ pc # "off" /\ Measuring /\ Measuring'
    BY DEF StartTx, Capture, Replay, CellTimeout, EndAttempt, LeftoverEnds
  <2>7. SkipRow \/ RxCell \/ RxTimeout => row' = row + 1 /\ pc' = "row"
    BY DEF SkipRow, RxCell, RxTimeout, EndRow
  <2>8. QED
    BY <1>1, <2>1, <2>2, <2>3, <2>4, <2>5, <2>6, <2>7, StepCases DEF Step
<1>4. QED
  BY <1>1, <1>2, <1>3, CaptureCases

LEMMA StepEarned ==
  ASSUME MInv, ReportMatchesMatrix, EarnedInv, [Next]_<<matrix, survey>>
  PROVE  DecodeEarned' /\ Pending'
<1> USE CellFacts DEF MInv, Typed, Attempts, EarnedInv, Pending, Backed, hist, captures, Frame
<1>1. CASE UNCHANGED vars
  BY <1>1 DEF vars, DecodeEarned
<1>2. CASE StartMatrix
  BY <1>2 DEF StartMatrix, DecodeEarned, File
<1>3. CASE StartRow \/ WriteReport
  BY <1>3 DEF StartRow, WriteReport, DecodeEarned
<1>4. CASE SkipRow
  <2>1. PICK line \in [tx : {"SKIP"}, rx : {"SKIP"}] : rows' = Append(rows, line)
    BY <1>4 DEF SkipRow
  <2>2. DecodeEarned'
    BY <1>4, <2>1, RowByRow DEF SkipRow, RowType, DecodeEarned
  <2> QED
    BY <1>4, <2>2 DEF SkipRow
<1>5. CASE StartTx
  <2>1. out' = Nothing /\ pc' \in {"classify", "capture"}
    BY <1>5 DEF StartTx
  <2>2. UNCHANGED <<rows, earned, written, ambient>>
    BY <1>5 DEF StartTx
  <2> QED
    BY <2>1, <2>2 DEF Nothing, DecodeEarned
<1>6. ASSUME SomeCaptured, pc \in {"capture", "replay"}, UNCHANGED <<row, rows, ambient, tx>>
      PROVE  DecodeEarned'
  <2>1. Len(rows) = row - 1 /\ row \in Nat
    BY <1>6 DEF ReportMatchesMatrix
  <2>2. earned \subseteq earned' /\ written' = written \cup {row}
    BY <1>6 DEF SomeCaptured, Captured
  <2> QED
    BY <1>6, <2>1, <2>2 DEF DecodeEarned
<1>7. CASE UNCHANGED captures /\ (Capture \/ CellTimeout \/ LeftoverEnds)
  BY <1>7 DEF Capture, CellTimeout, LeftoverEnds, Nothing, DecodeEarned
<1>8. CASE SomeCaptured /\ (Capture \/ CellTimeout \/ (LeftoverEnds /\ pc # "rx"))
  BY <1>6, <1>8 DEF Capture, CellTimeout, LeftoverEnds, Nothing
<1>9. CASE Replay
  <2>1. PICK sigs \in SUBSET cap : \E passes \in SUBSET sigs :
          out' = [sig |-> Frame(row) \in sigs, data |-> \E f \in passes : Marked(f)]
    BY <1>9 DEF Replay
  <2>2. PICK passes \in SUBSET sigs :
          out' = [sig |-> Frame(row) \in sigs, data |-> \E f \in passes : Marked(f)]
    BY <2>1
  <2>3. out'.data = (\E f \in passes : Marked(f)) /\ out'.sig = (Frame(row) \in sigs)
    BY <2>2, Zenon
  <2>4. row \in written => cap \subseteq ambient \cup (IF row \in earned THEN {Frame(row)} ELSE {})
    BY <1>9 DEF Replay, File, Measuring
  <2>5. out'.sig => Backed
    BY <2>1, <2>3, <2>4
  <2>6. out'.data /\ ambient = {} => Backed
    BY <2>1, <2>2, <2>3, <2>4
  <2> QED
    BY <1>9, <2>5, <2>6 DEF Replay, DecodeEarned
<1>10. CASE EndAttempt
  <2>1. tx' = Classify(out) /\ pc' \in {"start", "rx"} /\ pc = "classify"
        /\ UNCHANGED <<row, rows, earned, written, ambient>>
    BY <1>10 DEF EndAttempt
  <2>2. /\ tx' = "SIG-ONLY" => out.sig
        /\ tx' = "SIG+DATA" => out.data
    BY <2>1 DEF Classify
  <2> QED
    BY <2>1, <2>2 DEF DecodeEarned
<1>11. CASE RxCell \/ RxTimeout
  <2>1. PICK rx : rows' = Append(rows, [tx |-> tx, rx |-> rx]) /\ rx \in RxResults
    BY <1>11 DEF RxCell, RxTimeout, RxResult, RxResults
  <2>2. [tx |-> tx, rx |-> rx] \in RowType /\ pc = "rx"
    BY <1>11, <2>1 DEF RxCell, RxTimeout, RowType
  <2>3. UNCHANGED <<earned, written, ambient>> /\ pc' = "row"
    BY <1>11 DEF RxCell, RxTimeout, EndRow
  <2>4. DecodeEarned'
    BY <2>1, <2>2, <2>3, RowByRow DEF DecodeEarned
  <2> QED
    BY <2>3, <2>4
<1>12. Capture \/ CellTimeout \/ LeftoverEnds =>
         UNCHANGED captures \/ (SomeCaptured /\ (Capture \/ CellTimeout \/ (LeftoverEnds /\ pc # "rx")))
  BY DEF Capture, CellTimeout, LeftoverEnds
<1>13. QED
  BY <1>1, <1>2, <1>3, <1>4, <1>5, <1>7, <1>8, <1>9, <1>10, <1>11, <1>12, StepCases DEF Step

LEMMA SpecEarnedInv == Spec => []EarnedInv
<1>1. Init => EarnedInv
  BY DEF Init, Ready, EarnedInv, File, Measuring, Pending, DecodeEarned
<1>2. MInv /\ ReportMatchesMatrix /\ EarnedInv /\ [Next]_<<matrix, survey>> => EarnedInv'
  BY StepEarned, StepFile DEF EarnedInv
<1>3. QED
  BY <1>1, <1>2, SpecMInv, ReportComplete, PTL DEF Spec

(* DecodeEarned holds for every matrix and number of retries, whatever     *)
(* other stations send, whatever an earlier run left in /tmp and wherever  *)
(* captures fail, are killed or run on.                                    *)
THEOREM DecodesAreEarned == Spec => []DecodeEarned
<1>1. EarnedInv => DecodeEarned
  BY DEF EarnedInv
<1>2. QED
  BY <1>1, SpecEarnedInv, PTL

-----------------------------------------------------------------------------
(* The RX direction.  Two cells of the matrix never expect the same index. *)
LEMMA ExpectDistinct ==
  ASSUME NEW c \in 1 .. Len(Cells), NEW d \in 1 .. Len(Cells), Expect(c) = Expect(d)
  PROVE  c = d
<1>1. \A e \in 1 .. Len(Cells) :
        \/ Cells[e].mode = "ht" /\ Cells[e].mcs \in 0 .. 31
        \/ Cells[e].mode = "vht" /\ Cells[e].mcs \in 0 .. 9
  <2>1. TAKE e \in 1 .. Len(Cells)
  <2>2. Cells[e] \in [mode : {"ht"}, mcs : 0 .. 31, reachable : BOOLEAN]
                      \cup [mode : {"vht"}, mcs : 0 .. 9, reachable : BOOLEAN]
    BY <2>1, MatrixAssumption
  <2> QED
    BY <2>2
<1>2. \A e \in 1 .. Len(Cells) :
        \/ Cells[e].mode = "ht" /\ Cells[e].mcs \in 0 .. 31 /\ Expect(e) = encode_ht(Cells[e].mcs)
        \/ Cells[e].mode = "vht" /\ Cells[e].mcs \in 0 .. 9 /\ Expect(e) = encode_vht(1, Cells[e].mcs)
  BY <1>1 DEF Expect
<1>3. Cells[c].mode = Cells[d].mode /\ Cells[c].mcs = Cells[d].mcs
  <2> DEFINE m == Cells[c].mcs  n == Cells[d].mcs
  <2>1. CASE Cells[c].mode = "ht" /\ Cells[d].mode = "ht"
    <3>1. m \in 0 .. 31 /\ n \in 0 .. 31 /\ encode_ht(m) = encode_ht(n)
      BY <2>1, <1>2
    <3> HIDE DEF m, n
    <3>2. m = n
      BY <3>1 DEF encode_ht, DESC_RATEMCS0
    <3> QED
      BY <2>1, <3>2 DEF m, n
  <2>2. CASE Cells[c].mode = "vht" /\ Cells[d].mode = "vht"
    <3>1. m \in 0 .. 9 /\ n \in 0 .. 9 /\ encode_vht(1, m) = encode_vht(1, n)
      BY <2>2, <1>2
    <3> HIDE DEF m, n
    <3>2. m = n
      BY <3>1 DEF encode_vht, DESC_RATEVHTSS1MCS0
    <3> QED
      BY <2>2, <3>2 DEF m, n
  <2>3. CASE Cells[c].mode # Cells[d].mode
    <3>1. PICK h \in 0 .. 31, v \in 0 .. 9 : encode_ht(h) = encode_vht(1, v)
      BY <2>3, <1>2
    <3> QED
      BY <3>1 DEF encode_ht, encode_vht, DESC_RATEMCS0, DESC_RATEVHTSS1MCS0
  <2>4. QED
    BY <2>1, <2>2, <2>3, <1>2
<1>4. QED
  BY <1>3, MatrixAssumption

LEMMA StepRxOk ==
  ASSUME MInv, ReportMatchesMatrix, RxOkEarned, [Next]_<<matrix, survey>>
  PROVE  RxOkEarned'
<1> USE CellFacts DEF MInv, Typed, Attempts, hist
<1>1. CASE UNCHANGED <<rows, rxHeard>>
  BY <1>1 DEF RxOkEarned
<1>2. CASE SkipRow
  <2>1. PICK line \in [tx : {"SKIP"}, rx : {"SKIP"}] : rows' = Append(rows, line)
    BY <1>2 DEF SkipRow
  <2> QED
    BY <1>2, <2>1, RowByRow DEF SkipRow, RowType, RxOkEarned
<1>3. CASE RxTimeout
  <2>1. [tx |-> tx, rx |-> "RX-LINK"] \in RowType
    BY DEF RowType, RxResults
  <2> QED
    BY <1>3, <2>1, RowByRow DEF RxTimeout, RxOkEarned
<1>4. CASE RxCell
  <2>1. PICK c \in Reachable, d \in Reachable :
          /\ d # c => d = row
          /\ \E lines \in RxLines(c, d) :
               /\ rows' = Append(rows, [tx |-> tx, rx |-> RxResult(lines)])
               /\ rxHeard' = IF \E n \in DOMAIN lines : lines[n].cell = row /\ lines[n].clean
                             THEN rxHeard \cup {row} ELSE rxHeard
    BY <1>4 DEF RxCell
  <2>2. PICK lines \in RxLines(c, d) :
          /\ rows' = Append(rows, [tx |-> tx, rx |-> RxResult(lines)])
          /\ rxHeard' = IF \E n \in DOMAIN lines : lines[n].cell = row /\ lines[n].clean
                        THEN rxHeard \cup {row} ELSE rxHeard
    BY <2>1
  <2>3. row \in Reachable /\ [tx |-> tx, rx |-> RxResult(lines)] \in RowType
    BY <1>4 DEF RxCell, RowType, RxResult, RxResults
  <2>4. RxResult(lines) = "RX-OK" => row \in rxHeard'
    <3>1. SUFFICES ASSUME RxResult(lines) = "RX-OK" PROVE row \in rxHeard'
      OBVIOUS
    <3>2. lines # <<>> /\ Expect(lines[1].cell) = Expect(row)
      BY <3>1, Zenon DEF RxResult
    <3>3. PICK n \in DOMAIN lines : lines[n].clean
      BY <3>1, <3>2, Zenon DEF RxResult
    <3>4. PICK m \in 0 .. 2 : lines \in [1 .. m -> [cell : {c, d}, clean : BOOLEAN]]
      BY DEF RxLines
    <3>5. Len(lines) = m /\ DOMAIN lines = 1 .. m /\ m # 0
      BY <3>2, <3>4
    <3>6. \A j \in 1 .. m : lines[j].cell \in {c, d}
      BY <3>4
    <3>7. lines[1].cell = row
      BY <2>1, <2>3, <3>2, <3>5, <3>6, ExpectDistinct DEF Reachable
    <3>8. lines[n].cell = row
      <4>1. CASE n = 1
        BY <3>7, <4>1
      <4>2. CASE n = 2
        <5>1. m = 2
          BY <3>3, <3>5, <4>2
        <5>2. lines[1].cell # lines[2].cell => lines[1].cell = c
          BY <3>5, <5>1 DEF RxLines
        <5> QED
          BY <2>1, <3>6, <3>7, <4>2, <5>1, <5>2
      <4>3. QED
        BY <3>3, <3>5, <4>1, <4>2
    <3> QED
      BY <2>2, <3>3, <3>8
  <2>5. rxHeard \subseteq rxHeard'
    BY <2>2
  <2> QED
    BY <2>2, <2>3, <2>4, <2>5, RowByRow DEF RxOkEarned
<1>5. QED
  <2>1. UNCHANGED <<rows, rxHeard>> \/ SkipRow \/ RxTimeout \/ RxCell
    BY StepCases DEF Step, vars, StartMatrix, StartRow, StartTx, Capture, Replay,
       CellTimeout, EndAttempt, WriteReport, LeftoverEnds
  <2> QED
    BY <2>1, <1>1, <1>2, <1>3, <1>4

(* RxOkEarned holds for every matrix: by ExpectDistinct comparing indices  *)
(* is as good as comparing format and MCS, and a first line of the cell's  *)
(* own rate is followed by no other cell's.                                *)
THEOREM RxOksAreEarned == Spec => []RxOkEarned
<1>1. Init => RxOkEarned
  BY DEF Init, Ready, RxOkEarned
<1>2. MInv /\ ReportMatchesMatrix /\ RxOkEarned /\ [Next]_<<matrix, survey>> => RxOkEarned'
  BY StepRxOk
<1>3. QED
  BY <1>1, <1>2, SpecMInv, ReportComplete, PTL DEF Spec

-----------------------------------------------------------------------------
(* The survey: its types, and what it knows while nothing was missed.      *)
Hush == \E c \in Survey!Surveyed : busy[c].legacy = 0

SurveyTyped ==
  /\ step \in {"capture", "replay", "report", "over"}
  /\ k \in 0 .. Len(Channels)
  /\ step \in {"capture", "replay"} => k < Len(Channels)
  /\ step = "report" => k = Len(Channels)
  /\ step = "replay" => Survey!Ch \in Mapped
  /\ busy \in [Survey!Surveyed -> [legacy : Traffic, modern : BOOLEAN]]
  /\ file \in Nat
  /\ results \subseteq [ch : Survey!Surveyed, n : Nat]
  /\ best \in Survey!Surveyed \cup {0}
  /\ missed \in BOOLEAN

(* A channel dealt with has a line, a line counts none only for a channel  *)
(* without legacy frames, and so BEST_CHANNEL is one if there is any.      *)
Accurate ==
  /\ step = "replay" => file = busy[Survey!Ch].legacy
  /\ step # "over" =>
       /\ \A l \in results : l.n = 0 <=> busy[l.ch].legacy = 0
       /\ \A i \in 1 .. k : Channels[i] \in Mapped => \E l \in results : l.ch = Channels[i]
  /\ step = "over" /\ Hush => best \in Survey!Surveyed /\ busy[best].legacy = 0

SInv == SurveyTyped /\ (~missed => Accurate)

LEMMA ChannelFacts ==
  /\ Len(Channels) \in Nat
  /\ Survey!Surveyed = {Channels[i] : i \in 1 .. Len(Channels)} \cap Mapped
  /\ Traffic \subseteq Nat
BY SurveyAssumption DEF Survey!Surveyed

LEMMA InitSInv == Init => SInv
<1> SUFFICES ASSUME Init PROVE SInv
  OBVIOUS
<1> USE ChannelFacts DEF Init, Survey!Init, Survey!StepAfter
<1>1. SurveyTyped
  <2>1. /\ step \in {"capture", "report"} /\ k = 0 /\ file = 0 /\ results = {} /\ best = 0
        /\ busy \in [Survey!Surveyed -> [legacy : Traffic, modern : BOOLEAN]]
    OBVIOUS
  <2>2. step = "capture" => 0 < Len(Channels)
    OBVIOUS
  <2>3. step = "report" => Len(Channels) = 0
    OBVIOUS
  <2>4. missed \in BOOLEAN
    BY Zenon
  <2> QED
    BY <2>1, <2>2, <2>3, <2>4 DEF SurveyTyped
<1>2. Accurate
  BY DEF Accurate
<1> QED
  BY <1>1, <1>2 DEF SInv

(* The channel at hand is one of those surveyed, if it is mapped.          *)
LEMMA AtHand ==
  ASSUME SurveyTyped, k < Len(Channels)
  PROVE  /\ k + 1 \in 1 .. Len(Channels)
         /\ Survey!Ch = Channels[k + 1]
         /\ Survey!Ch \in Mapped =>
              Survey!Ch \in Survey!Surveyed /\ busy[Survey!Ch].legacy \in Nat
<1>1. k + 1 \in 1 .. Len(Channels) /\ Survey!Ch = Channels[k + 1]
  BY ChannelFacts DEF SurveyTyped, Survey!Ch
<1>2. ASSUME Survey!Ch \in Mapped PROVE Survey!Ch \in Survey!Surveyed
  BY <1>1, <1>2, ChannelFacts
<1>3. \A c \in Survey!Surveyed : busy[c].legacy \in Nat
  <2>1. TAKE c \in Survey!Surveyed
  <2>2. busy[c] \in [legacy : Traffic, modern : BOOLEAN]
    BY <2>1 DEF SurveyTyped
  <2> QED
    BY <2>2, ChannelFacts
<1> QED
  BY <1>1, <1>2, <1>3

LEMMA StepSurveyTyped ==
  ASSUME SurveyTyped, [Next]_<<matrix, survey>>
  PROVE  SurveyTyped'
<1> USE ChannelFacts DEF SurveyTyped
<1>1. CASE UNCHANGED survey
  BY <1>1 DEF survey, Survey!Ch
<1>2. CASE Survey!SkipUnmapped
  BY <1>2 DEF Survey!SkipUnmapped, Survey!StepAfter
<1>3. CASE Survey!Capture
  <2>1. Survey!Ch' = Survey!Ch
    BY <1>3 DEF Survey!Capture, Survey!Ch
  <2>2. busy[Survey!Ch].legacy \in Nat
    BY <1>3, AtHand DEF Survey!Capture
  <2>3. file' \in {file, busy[Survey!Ch].legacy} \cup 0 .. busy[Survey!Ch].legacy
    BY <1>3 DEF Survey!Capture
  <2>4. file' \in Nat
    BY <2>2, <2>3
  <2>5. missed' \in BOOLEAN
    BY <1>3, Zenon DEF Survey!Capture
  <2> QED
    BY <1>3, <2>1, <2>4, <2>5 DEF Survey!Capture
<1>4. CASE Survey!Replay
  <2>1. Survey!Ch \in Survey!Surveyed
    BY <1>4, AtHand DEF Survey!Replay
  <2>2. results' \subseteq [ch : Survey!Surveyed, n : Nat]
    BY <1>4, <2>1 DEF Survey!Replay
  <2>3. missed' \in BOOLEAN
    BY <1>4 DEF Survey!Replay
  <2> QED
    BY <1>4, <2>2, <2>3 DEF Survey!Replay, Survey!StepAfter
<1>5. CASE Survey!Report
  BY <1>5 DEF Survey!Report, Survey!First
<1>6. QED
  BY <1>1, <1>2, <1>3, <1>4, <1>5
  DEF Next, SurveyStep, StartMatrix, MatrixStep, Finished, Survey!Next

LEMMA StepAccurate ==
  ASSUME SInv, ~missed', [Next]_<<matrix, survey>>
  PROVE  Accurate'
<1> USE ChannelFacts DEF SInv, SurveyTyped
<1>1. CASE UNCHANGED survey
  BY <1>1 DEF survey, Accurate, Hush, Survey!Ch
<1>2. CASE Survey!SkipUnmapped
  BY <1>2, AtHand DEF Survey!SkipUnmapped, Survey!StepAfter, Accurate
<1>3. CASE Survey!Capture
  BY <1>3 DEF Survey!Capture, Accurate, Survey!Ch
<1>4. CASE Survey!Replay
  <2>1. PICK n \in 0 .. file :
          /\ results' = results \cup {[ch |-> Survey!Ch, n |-> n]}
          /\ missed' = (missed \/ (n = 0 /\ file > 0))
    BY <1>4 DEF Survey!Replay
  <2>2. ~missed /\ (n = 0 <=> file = 0)
    <3>1. ~(missed \/ (n = 0 /\ file > 0))
      BY <2>1, Zenon
    <3> QED
      BY <3>1
  <2>3. file = busy[Survey!Ch].legacy /\ k' = k + 1 /\ busy' = busy /\ step' \notin {"replay", "over"}
    BY <1>4, <2>2 DEF Survey!Replay, Survey!StepAfter, Accurate
  <2>4. \A l \in results' : l.n = 0 <=> busy[l.ch].legacy = 0
    BY <1>4, <2>1, <2>2, <2>3 DEF Survey!Replay, Accurate
  <2>5. \A i \in 1 .. k + 1 : Channels[i] \in Mapped => \E l \in results' : l.ch = Channels[i]
    <3>1. \A i \in 1 .. k + 1 : i \in 1 .. k \/ i = k + 1
      OBVIOUS
    <3>2. [ch |-> Survey!Ch, n |-> n] \in results' /\ Survey!Ch = Channels[k + 1]
      BY <2>1, <1>4, AtHand DEF Survey!Replay
    <3> QED
      BY <1>4, <2>1, <2>2, <3>1, <3>2 DEF Survey!Replay, Accurate
  <2> QED
    BY <2>3, <2>4, <2>5 DEF Accurate
<1>5. CASE Survey!Report
  <2>1. ASSUME Hush PROVE best' \in Survey!Surveyed /\ busy[best'].legacy = 0
    <3>1. Accurate /\ k = Len(Channels) /\ step = "report"
      BY <1>5 DEF Survey!Report
    <3>2. PICK c \in Survey!Surveyed : busy[c].legacy = 0
      BY <2>1 DEF Hush
    <3>3. PICK i \in 1 .. Len(Channels) : c = Channels[i] /\ c \in Mapped
      BY <3>2
    <3>4. PICK l0 \in results : l0.ch = c
      BY <3>1, <3>3 DEF Accurate
    <3>5. l0.n = 0
      BY <3>1, <3>2, <3>4 DEF Accurate
    <3>6. PICK l \in Survey!First : best' = l.ch
      BY <1>5, <3>4 DEF Survey!Report
    <3>7. l \in results /\ l.n <= 0
      BY <3>4, <3>5, <3>6, Zenon DEF Survey!First
    <3>8. l.n \in Nat /\ l.ch \in Survey!Surveyed
      BY <3>7
    <3>9. l.n = 0
      BY <3>7, <3>8
    <3> QED
      BY <3>1, <3>6, <3>7, <3>8, <3>9 DEF Accurate
  <2>2. busy' = busy /\ step' = "over" /\ (Hush' <=> Hush)
    BY <1>5 DEF Survey!Report, Hush
  <2> QED
    BY <2>1, <2>2 DEF Accurate
<1>6. QED
  BY <1>1, <1>2, <1>3, <1>4, <1>5
  DEF Next, SurveyStep, StartMatrix, MatrixStep, Finished, Survey!Next

LEMMA SpecSInv == Spec => []SInv
<1>1. SInv /\ [Next]_<<matrix, survey>> => SInv'
  BY StepSurveyTyped, StepAccurate DEF SInv
<1>2. QED
  BY InitSInv, <1>1, PTL DEF Spec

-----------------------------------------------------------------------------
(* The session: the frames on the air of the matrix are those of the       *)
(* channel that was named, and a capture file holds no others but the      *)
(* cell's own and what stations send.                                      *)
Frames == Stations \cup {Frame(c) : c \in Reachable}

Joined ==
  /\ cap \subseteq Frames
  /\ ambient \in {{}, Stations}
  /\ pc = "off" => ambient = {}
  /\ pc # "off" =>
       step = "over" /\ best # 0 /\ ambient = IF busy[best].modern THEN Stations ELSE {}

LEMMA StepJoined ==
  ASSUME MInv, Joined, [Next]_<<matrix, survey>>
  PROVE  Joined'
<1> USE CellFacts DEF Joined
<1>1. CASE UNCHANGED vars
  <2>1. step = "over" => UNCHANGED <<step, best, busy>>
    BY DEF Next, SurveyStep, StartMatrix, MatrixStep, Finished, Survey!Next, survey,
       Survey!SkipUnmapped, Survey!Capture, Survey!Replay, Survey!Report
  <2> QED
    BY <1>1, <2>1 DEF vars
<1>2. CASE StartMatrix
  BY <1>2 DEF StartMatrix, survey
<1>3. ASSUME Step
      PROVE  UNCHANGED <<step, best, busy, ambient>> /\ pc # "off" /\ pc' # "off"
  <2>1. UNCHANGED <<ambient>> /\ pc # "off" /\ pc' # "off"
    BY <1>3 DEF Step, StartRow, SkipRow, StartTx, Capture, Replay, CellTimeout, EndAttempt,
       RxCell, RxTimeout, WriteReport, LeftoverEnds, EndRow
  <2>2. UNCHANGED survey
    <3>1. CASE SurveyStep
      BY <3>1, <2>1, Zenon DEF SurveyStep, Joined, Survey!Next,
         Survey!SkipUnmapped, Survey!Capture, Survey!Replay, Survey!Report
    <3>2. QED
      BY <3>1, <2>1 DEF Next, StartMatrix, MatrixStep, Finished
  <2> QED
    BY <2>1, <2>2 DEF survey
<1>4. cap' \subseteq Frames
  <2>1. row \in Reachable => Frame(row) \in Frames
    BY DEF Frames
  <2>2. CASE StartRow
    <3>1. row \in Reachable
      BY <2>2 DEF StartRow, Reachable, MInv, Typed
    <3>2. cap' \subseteq {Frame(row)} \cup Stations
      BY <2>2 DEF StartRow
    <3> QED
      BY <2>1, <3>1, <3>2 DEF Frames
  <2>3. CASE SomeCaptured /\ pc \in {"capture", "replay"}
    <3>1. row \in Reachable
      BY <2>3 DEF MInv, Attempts
    <3> QED
      BY <2>1, <2>3, <3>1 DEF SomeCaptured, Captured, Frames
  <2>4. QED
    BY <2>2, <2>3, CaptureCases DEF captures
<1>5. CASE Step
  BY <1>3, <1>4, <1>5
<1>6. QED
  BY <1>1, <1>2, <1>5, StepCases

LEMMA SpecJoined == Spec => []Joined
<1>1. Init => Joined
  BY DEF Init, Ready, Joined, Frames
<1>2. MInv /\ Joined /\ [Next]_<<matrix, survey>> => Joined'
  BY StepJoined
<1>3. QED
  BY <1>1, <1>2, SpecMInv, PTL DEF Spec

(* TypeOK holds for any cells, channels and stations.                      *)
THEOREM SessionTypeCorrect == Spec => []TypeOK
<1>1. MInv /\ SInv /\ Joined => TypeOK
  BY CellFacts, ChannelFacts
  DEF MInv, Typed, Attempts, SInv, SurveyTyped, Joined, Frames, TypeOK, Owners, RowType
<1>2. QED
  BY <1>1, SpecMInv, SpecSInv, SpecJoined, PTL

-----------------------------------------------------------------------------
(* Without other stations a file of this run holds the cell's own frames   *)
(* or nothing, so that a DATA line that passed has its SIG line beside it. *)
Alone ==
  ambient = {} /\ row \in written =>
    /\ pc = "classify" /\ out.data => out.sig
    /\ pc = "rx" /\ tx = "SIG+DATA" => out.sig /\ out.data

LEMMA StepAlone ==
  ASSUME MInv, Joined, File, Alone, [Next]_<<matrix, survey>>
  PROVE  Alone'
<1> USE CellFacts DEF Alone, captures
<1>1. CASE UNCHANGED vars
  BY <1>1 DEF vars, hist
<1>2. CASE StartMatrix \/ StartRow \/ SkipRow \/ WriteReport \/ RxCell \/ RxTimeout
  BY <1>2 DEF StartMatrix, StartRow, SkipRow, WriteReport, RxCell, RxTimeout, EndRow
<1>3. CASE StartTx
  BY <1>3 DEF StartTx, Nothing
<1>4. CASE Capture
  BY <1>4 DEF Capture
<1>5. CASE CellTimeout
  BY <1>5 DEF CellTimeout, Nothing
<1>6. CASE LeftoverEnds
  BY <1>6 DEF LeftoverEnds
<1>7. CASE EndAttempt
  BY <1>7 DEF EndAttempt, Classify
<1>8. CASE Replay
  <2>1. ASSUME ambient = {}, row \in written PROVE out'.data => out'.sig
    <3>1. PICK sigs \in SUBSET cap : \E passes \in SUBSET sigs :
            out' = [sig |-> Frame(row) \in sigs, data |-> \E f \in passes : Marked(f)]
      BY <1>8 DEF Replay
    <3>2. PICK passes \in SUBSET sigs :
            out' = [sig |-> Frame(row) \in sigs, data |-> \E f \in passes : Marked(f)]
      BY <3>1
    <3>3. out'.data = (\E f \in passes : Marked(f)) /\ out'.sig = (Frame(row) \in sigs)
      BY <3>2, Zenon
    <3>4. cap \subseteq {Frame(row)}
      BY <1>8, <2>1 DEF Replay, File, Measuring
    <3>5. sigs \subseteq {Frame(row)}
      BY <3>4
    <3> QED
      BY <3>3, <3>5, Zenon
  <2> QED
    BY <1>8, <2>1 DEF Replay, hist
<1>9. QED
  BY <1>1, <1>2, <1>3, <1>4, <1>5, <1>6, <1>7, <1>8, StepCases DEF Step

(* QuietChannelPays: for any cells and channels and any traffic on them,   *)
(* wherever frames are missed, captures fail or scripts are killed, on the *)
(* channel the survey names SIG+DATA means both, under the conditions the  *)
(* property names.                                                         *)
THEOREM QuietChannelMeansBoth == Spec => []QuietChannelPays
<1>1. Init => Alone
  BY DEF Init, Ready, Alone
<1>2. MInv /\ Joined /\ EarnedInv /\ Alone /\ [Next]_<<matrix, survey>> => Alone'
  BY StepAlone DEF EarnedInv
<1>3. SInv /\ Joined /\ Alone => QuietChannelPays
  <2>1. SUFFICES ASSUME SInv, Joined, Alone, Proxy, ~missed, Hush, row \in written,
                        pc = "rx", tx = "SIG+DATA"
                 PROVE  out.sig /\ out.data
    BY DEF QuietChannelPays, Hush, FullMeansBoth
  <2>2. best \in Survey!Surveyed /\ busy[best].legacy = 0
    BY <2>1 DEF SInv, Accurate, Joined
  <2>3. ~busy[best].modern
    BY <2>1, <2>2 DEF Proxy
  <2>4. ambient = {}
    BY <2>1, <2>3 DEF Joined
  <2> QED
    BY <2>1, <2>4 DEF Alone
<1>4. QED
  BY <1>1, <1>2, <1>3, SpecMInv, SpecSInv, SpecJoined, SpecEarnedInv, PTL DEF Spec
=============================================================================
