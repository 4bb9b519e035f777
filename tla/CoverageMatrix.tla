---------------------------- MODULE CoverageMatrix ----------------------------
(***************************************************************************)
(* The over-the-air coverage matrix, scripts/coverage_matrix.py with the   *)
(* single-cell scripts it runs, capture_analyze_vht.sh (the driver under   *)
(* test transmits, the SDR captures, the fork decodes) and                 *)
(* rx_grwifi_spec.sh (the SDR transmits, the driver receives).  For each   *)
(* cell of MATRIX the TX direction is tried until something decodes, with  *)
(* a recovery of the adapter in between, then the RX direction once.  A    *)
(* cell script that takes too long is killed without its cleanup trap, and *)
(* what it started runs on.                                                *)
(*                                                                         *)
(* External: the adapter, which may wedge whenever it is claimed and then  *)
(* stays silent until a recovery works, and the SDR, each open to one      *)
(* process at a time; a transmission, which may stop or be drowned once    *)
(* its rate was logged; other stations on the channel; the decoder, which  *)
(* misses frames.                                                          *)
(***************************************************************************)
EXTENDS Integers, Sequences, DescRate

CONSTANTS
  Cells,            \* MATRIX: [mode, mcs, reachable] records
  Retries,          \* --retries
  HasRecover,       \* does recover-chip.sh exist?
  Stations          \* the kinds of frames other stations send, where there are any

ASSUME MatrixAssumption ==
  /\ Cells \in Seq([mode : {"ht"}, mcs : 0 .. 31, reachable : BOOLEAN]
                    \cup [mode : {"vht"}, mcs : 0 .. 9, reachable : BOOLEAN])
  /\ \A c, d \in 1 .. Len(Cells) :
       Cells[c].mode = Cells[d].mode /\ Cells[c].mcs = Cells[d].mcs => c = d
  /\ Retries \in Nat
  /\ HasRecover \in BOOLEAN

Reachable == {c \in 1 .. Len(Cells) : Cells[c].reachable}
Frame(c) == [mode |-> Cells[c].mode, mcs |-> Cells[c].mcs]
TxResults == {"SIG+DATA", "SIG-ONLY", "NO-DECODE"}
RxResults == {"RX-OK", "RX-PART", "RX-LINK"}

(* What a killed cell script can leave behind: the driver's transmitter    *)
(* and receiver (WiFiDriverTxDemo, WiFiDriverDemo), which hold the adapter,*)
(* and iq_capture.py and rf_tx_air.py, which hold the SDR.                 *)
AdapterUsers == {"txdemo", "rxdemo"}
SdrUsers == {"iqcap", "sdrtx"}
Procs == AdapterUsers \cup SdrUsers

VARIABLES
  pc,        \* row, start, capture, replay, classify, rx, done
  row,       \* the cell being measured
  tries,     \* attempts made at its TX direction
  wedged,    \* the adapter is stuck
  left,      \* per process: the row whose killed script left it running, or 0
  cap,       \* the kinds of frames in the capture file of the cell, in /tmp
  ambient,   \* what other stations send on the channel of --channel
  out,       \* what run_cell() made of the attempt's output
  tx,        \* classify() of the last attempt
  rows,      \* the report so far
  earned,    \* history: rows whose own transmission was captured in this run
  written,   \* history: rows with a capture that reached the file
  futile,    \* history: did the last recovery fail?
  rxHeard,   \* history: rows with a clean frame of the rate asked for
  rxKilled   \* history: rows whose RX script was killed

captures == <<cap, earned, written>>
hist == <<earned, written, futile, rxHeard, rxKilled>>
vars == <<pc, row, tries, wedged, left, cap, ambient, out, tx, rows, hist>>

Nothing == [sig |-> FALSE, data |-> FALSE]

Ready ==
  /\ row = 1
  /\ tries = 0
  /\ wedged \in BOOLEAN
  /\ left = [p \in Procs |-> 0]
  /\ cap = {}
  /\ out = Nothing
  /\ tx = "NO-DECODE"
  /\ rows = <<>>
  /\ earned = {} /\ written = {} /\ futile = FALSE /\ rxHeard = {} /\ rxKilled = {}

Running(procs) == \E p \in procs : left[p] # 0

(* The file named after the cell, opened anew, gets frames of the cell's   *)
(* own transmission and of other stations, either or none.  The faulty     *)
(* variant opens it to append.                                             *)
CapturedAppended(own, amb) ==
  /\ cap' = cap \cup own \cup amb
  /\ written' = written \cup {row}
  /\ earned' = IF own # {} THEN earned \cup {row} ELSE earned
Captured(own, amb) ==
  /\ cap' = own \cup amb
  /\ written' = written \cup {row}
  /\ earned' = IF own # {} THEN earned \cup {row} ELSE earned

SomeCaptured == \E own \in SUBSET {Frame(row)}, amb \in SUBSET ambient : Captured(own, amb)

(* recover_chip(): nothing happens without the script, and whether the     *)
(* script worked is not looked at.  It resets the adapter, and a process   *)
(* that holds it may lose it.  The faulty variant never recovers.          *)
RecoverNever == UNCHANGED <<wedged, left, futile>>
Recover ==
  \E works \in {FALSE, HasRecover} :
    /\ wedged' = (wedged /\ ~works)
    /\ futile' = (HasRecover /\ ~works)
    /\ \/ left' = left
       \/ /\ HasRecover
          /\ left' = [p \in Procs |-> IF p \in AdapterUsers THEN 0 ELSE left[p]]

(* A process left behind may come to its end at last and free the SDR,     *)
(* which matters where the SDR is used next; the capture of an earlier     *)
(* attempt at this cell may write the cell's file before it ends.          *)
LeftoverEnds ==
  /\ pc \in {"capture", "replay", "rx"}
  /\ \E p \in SdrUsers :
       /\ left[p] # 0
       /\ left' = [left EXCEPT ![p] = 0]
       /\ \/ UNCHANGED captures
          \/ p = "iqcap" /\ left[p] = row /\ pc # "rx" /\ SomeCaptured
  /\ UNCHANGED <<pc, row, tries, wedged, ambient, out, tx, rows, futile, rxHeard, rxKilled>>

-----------------------------------------------------------------------------
(* The cell's file may be there from an earlier run, which may have been   *)
(* beside other stations.                                                  *)
StartRow ==
  /\ pc = "row" /\ row <= Len(Cells) /\ Cells[row].reachable
  /\ pc' = "start"
  /\ tries' = 0
  /\ cap' \in SUBSET ({Frame(row)} \cup Stations)
  /\ UNCHANGED <<row, wedged, left, ambient, out, tx, rows, hist>>

(* Faulty variant: a cell out of reach leaves no row.                      *)
SkipRowSilent ==
  /\ pc = "row" /\ row <= Len(Cells) /\ ~Cells[row].reachable
  /\ row' = row + 1
  /\ UNCHANGED <<pc, tries, wedged, left, cap, ambient, out, tx, rows, hist>>

SkipRow ==
  /\ pc = "row" /\ row <= Len(Cells) /\ ~Cells[row].reachable
  /\ rows' = Append(rows, [tx |-> "SKIP", rx |-> "SKIP"])
  /\ row' = row + 1
  /\ UNCHANGED <<pc, tries, wedged, left, cap, ambient, out, tx, hist>>

(* The script ends what is left of earlier transmitters by name, the       *)
(* faulty variant does not, ...                                            *)
OldTransmitterStays == left
OldTransmitterEnded == [left EXCEPT !["txdemo"] = 0]

(* ... starts its own and reads its log: unless the rate it reports is the *)
(* expected one the script aborts, with nothing to parse.                  *)
StartTx ==
  /\ pc = "start"
  /\ tries' = tries + 1
  /\ wedged' \in {wedged, TRUE}
  /\ left' = OldTransmitterEnded
  /\ out' = Nothing
  /\ pc' = IF wedged' \/ Running({"rxdemo"}) THEN "classify" ELSE "capture"
  /\ UNCHANGED <<row, cap, ambient, tx, rows, hist>>

(* Two seconds of IQ go to a file named after the cell; whether they did   *)
(* is not looked at, nor whether the transmitter still sends.  iq_capture  *)
(* opens the SDR before it opens the file.                                 *)
Capture ==
  /\ pc = "capture"
  /\ \/ ~Running(SdrUsers) /\ SomeCaptured
     \/ UNCHANGED captures
  /\ pc' = "replay"
  /\ UNCHANGED <<row, tries, wedged, left, ambient, out, tx, rows, futile, rxHeard, rxKilled>>

(* The replay prints a SIG line for each frame it detects and a DATA line  *)
(* with the FCS outcome.  run_cell() looks for a SIG line of the cell's    *)
(* format and MCS, and for any DATA line that passed; the pattern of an HT *)
(* cell, "HT-DATA.*PASS", is found in the lines of VHT frames too.         *)
Marked(f) == Cells[row].mode = "ht" \/ f.mode = "vht"

Replay ==
  /\ pc = "replay"
  /\ \E sigs \in SUBSET cap : \E passes \in SUBSET sigs :
       out' = [sig |-> Frame(row) \in sigs,
               data |-> \E f \in passes : Marked(f)]
  /\ pc' = "classify"
  /\ UNCHANGED <<row, tries, wedged, left, cap, ambient, tx, rows, hist>>

(* subprocess.run() gives a cell 300 seconds in all.  At the capture the   *)
(* transmitter and iq_capture.py are left behind, the file as it was or    *)
(* cut short.                                                              *)
CellTimeout ==
  /\ pc \in {"capture", "replay"}
  /\ IF pc = "replay" THEN UNCHANGED <<left, captures>>
     ELSE /\ left' = [left EXCEPT !["txdemo"] = row,
                                 !["iqcap"] = IF Running(SdrUsers) THEN @ ELSE row]
          /\ \/ ~Running(SdrUsers) /\ SomeCaptured
             \/ UNCHANGED captures
  /\ out' = Nothing
  /\ pc' = "classify"
  /\ UNCHANGED <<row, tries, wedged, ambient, tx, rows, futile, rxHeard, rxKilled>>

(* classify().                                                             *)
Classify(o) ==
  IF o.data THEN "SIG+DATA" ELSE IF o.sig THEN "SIG-ONLY" ELSE "NO-DECODE"

(* Faulty variant of EndAttempt: one retry too many.                       *)
EndAttemptExtra ==
  /\ pc = "classify"
  /\ tx' = Classify(out)
  /\ pc' = IF tx' = "NO-DECODE" /\ tries <= Retries + 1 THEN "start" ELSE "rx"
  /\ Recover
  /\ UNCHANGED <<row, tries, captures, ambient, out, rows, rxHeard, rxKilled>>

EndAttempt ==
  /\ pc = "classify"
  /\ tx' = Classify(out)
  /\ pc' = IF tx' = "NO-DECODE" /\ tries < Retries + 1 THEN "start" ELSE "rx"
  /\ Recover         \* after a NO-DECODE, and always before the RX direction
  /\ UNCHANGED <<row, tries, captures, ambient, out, rows, rxHeard, rxKilled>>

(* The RX direction: the driver streams out the frames it receives, of     *)
(* which the script prints the first two with their rate and FCS.  The SDR *)
(* may send the file of another cell c for a while, if an earlier          *)
(* transmitter still has it, then d; lines of both do not interleave.      *)
Expect(c) ==
  IF Cells[c].mode = "ht" THEN encode_ht(Cells[c].mcs) ELSE encode_vht(1, Cells[c].mcs)
RxLines(c, d) ==
  {lines \in UNION {[1 .. n -> [cell : {c, d}, clean : BOOLEAN]] : n \in 0 .. 2} :
     Len(lines) = 2 /\ lines[1].cell # lines[2].cell => lines[1].cell = c}

(* run_rx_cell() reads the rate from the first line and is content with a  *)
(* good FCS in any.  The faulty variant reads it from the last.            *)
RxResultLastRate(lines) ==
  IF lines = <<>> THEN "RX-LINK"
  ELSE IF /\ Expect(lines[Len(lines)].cell) = Expect(row)
          /\ \E n \in DOMAIN lines : lines[n].clean
  THEN "RX-OK" ELSE "RX-PART"
RxResult(lines) ==
  IF lines = <<>> THEN "RX-LINK"
  ELSE IF Expect(lines[1].cell) = Expect(row) /\ \E n \in DOMAIN lines : lines[n].clean
  THEN "RX-OK" ELSE "RX-PART"

(* The cleanup trap ends receivers and SDR transmitters by name, whoever   *)
(* started them.                                                           *)
Cleanup == [left EXCEPT !["rxdemo"] = 0, !["sdrtx"] = 0]

EndRow == row' = row + 1 /\ pc' = "row"

(* There is one file for all cells, written anew by a generator that may   *)
(* fail: it holds this cell's frame, or still that of any cell measured    *)
(* last, which is also what a transmitter left behind by the last RX       *)
(* script sends.                                                           *)
RxCell ==
  /\ pc = "rx"
  /\ \E c \in Reachable, d \in Reachable :
       /\ d # c => d = row /\ Running({"sdrtx"})
       /\ \E lines \in RxLines(c, d) :
            /\ wedged \/ Running(AdapterUsers \cup {"iqcap"}) => lines = <<>>
            /\ rows' = Append(rows, [tx |-> tx, rx |-> RxResult(lines)])
            /\ rxHeard' = IF \E n \in DOMAIN lines : lines[n].cell = row /\ lines[n].clean
                          THEN rxHeard \cup {row} ELSE rxHeard
  /\ wedged' \in {wedged, TRUE}
  /\ left' = Cleanup
  /\ EndRow
  /\ UNCHANGED <<tries, captures, ambient, out, tx, futile, rxKilled>>

(* 120 seconds, up before or after receiver and SDR transmitter started;   *)
(* rf_tx_air.py has 30, so that an earlier one is over.                    *)
RxTimeout ==
  /\ pc = "rx"
  /\ rows' = Append(rows, [tx |-> tx, rx |-> "RX-LINK"])
  /\ rxKilled' = rxKilled \cup {row}
  /\ wedged' \in {wedged, TRUE}
  /\ left' \in {[left EXCEPT !["sdrtx"] = 0],
                [left EXCEPT !["rxdemo"] = IF Running(AdapterUsers) THEN @ ELSE row,
                             !["sdrtx"] = IF Running({"iqcap"}) THEN 0 ELSE row]}
  /\ EndRow
  /\ UNCHANGED <<tries, captures, ambient, out, tx, futile, rxHeard>>

WriteReport ==
  /\ pc = "row" /\ row > Len(Cells)
  /\ pc' = "done"
  /\ UNCHANGED <<row, tries, wedged, left, cap, ambient, out, tx, rows, hist>>

Step ==
  \/ StartRow \/ SkipRow
  \/ StartTx \/ Capture \/ Replay \/ CellTimeout \/ EndAttempt
  \/ RxCell \/ RxTimeout
  \/ WriteReport
  \/ LeftoverEnds

-----------------------------------------------------------------------------
(* A decode is this run's own: a row says SIG-ONLY, or SIG+DATA on a       *)
(* channel without other stations, only if a frame of the cell itself was  *)
(* captured in this run, or the same frame is on the air anyway (docstring *)
(* of coverage_matrix.py, "proves devourer transmitted the right           *)
(* modulation/format").  However many captures failed, were killed or were *)
(* cut short, what an earlier run left counts only where none of them      *)
(* reached the file.                                                       *)
DecodeEarned ==
  \A r \in 1 .. Len(rows) :
    rows[r].tx = "SIG-ONLY" \/ (rows[r].tx = "SIG+DATA" /\ ambient = {}) =>
      r \in earned \/ Frame(r) \in ambient \/ r \notin written

(* SIG+DATA means both (legend, "decode confirmed AND data FCS passed").   *)
FullMeansBoth == pc = "rx" /\ tx = "SIG+DATA" => out.sig /\ out.data

(* A wedged adapter does not cost a cell its result: no attempt after the  *)
(* first, and no RX direction, begins with a wedged adapter unless the     *)
(* recovery in between was run and failed, and NO-DECODE is given up to    *)
(* only after every retry.                                                 *)
RetriesStartHealthy ==
  /\ HasRecover /\ wedged /\ ((pc = "start" /\ tries > 0) \/ pc = "rx") => futile
  /\ pc = "rx" /\ tx = "NO-DECODE" => tries = Retries + 1

(* A killed script does not spoil the rest of the run: its transmitter is  *)
(* off the air before the next capture, and its receiver holds the adapter *)
(* only until an RX script comes to its end.                               *)
TimeoutContained ==
  /\ pc \in {"capture", "replay"} => left["txdemo"] = 0
  /\ left["rxdemo"] # 0 =>
       \A r \in left["rxdemo"] .. row - 1 : r \in Reachable => r \in rxKilled

(* The report has one row per cell in the order of MATRIX, and SKIP stands *)
(* for exactly the cells out of reach.                                     *)
ReportMatchesMatrix ==
  /\ Len(rows) = row - 1
  /\ \A r \in 1 .. Len(rows) : rows[r].tx = "SKIP" <=> ~Cells[r].reachable

(* RX-OK means what the docstring of run_rx_cell says: a clean frame of    *)
(* the expected rate was received, although rate and FCS are read from     *)
(* different lines, these may be of different transmitters, and the file   *)
(* on the air may be another cell's.                                       *)
RxOkEarned ==
  \A r \in 1 .. Len(rows) : rows[r].rx = "RX-OK" => r \in rxHeard

=============================================================================
