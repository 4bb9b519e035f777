------------------------------ MODULE AirWindow ------------------------------
(***************************************************************************)
(* The tools that run a flowgraph for a fixed time, stop it and judge what *)
(* message_debug has stored: fused_fec_rung3.py ("rung3"), wifi_rx_sniff   *)
(* ("sniff"), the two loopbacks, loopback_headless.py and rf_loopback      *)
(* ("loopback"), and the checks of a capture or a noisy loopback,          *)
(* ht_hier_check.py ("hier"), iq_diag.py ("diag") and                      *)
(* keep_corrupted_check.py ("keep").  They differ in what of a stored PDU  *)
(* they look at.                                                           *)
(*                                                                         *)
(* External: the transmitter, which sends one Reed-Solomon block again and *)
(* again, a body at a time; other stations; the receiver, which may store  *)
(* a frame twice, an HT frame's L-SIG cover being decoded as a "ghost";    *)
(* and the FusedFecReceiver of rung3 (see FusedFec).                       *)
(***************************************************************************)
EXTENDS Integers, Sequences, FiniteSets

CONSTANTS
  K,           \* source symbols of the block
  Bodies,      \* the bodies sent, as sets of symbol numbers
  MaxFrames    \* most frames received in the window

ASSUME WindowAssumption ==
  /\ K \in Nat \ {0}
  /\ IsFiniteSet(Bodies) /\ \A b \in Bodies : IsFiniteSet(b) /\ b \subseteq Nat
  /\ MaxFrames \in Nat

VARIABLES
  tool,
  tagging,   \* is decode_mac one that tags frames with crc_ok?
  keep,      \* is GR_KEEP_CORRUPTED set, so that FCS failures surface too?
  pc,        \* start, window, scan, done
  dbg,       \* stored PDUs in order of arrival
  i,         \* PDUs looked at
  rep,       \* the counters of the report
  verdict,   \* what RESULT says
  heard      \* history: what was on the air and received

env == <<tool, tagging, keep>>
vars == <<env, pc, dbg, i, rep, verdict, heard>>

(* What the tools tell apart of a PDU: how long it is (not a byte vector,  *)
(* no frame control, no SA, no sub-block, or full), its format, whether    *)
(* its SA is the transmitter's and its type Trigger, the FCS outcome, the  *)
(* symbols in it whose own CRC holds, and its SNR.                         *)
Sizes == {"novector", "nofc", "nosa", "nobody", "full"}
PDU(size, ht, sa, trig, crc, syms) ==
  [size |-> size, ht |-> ht, sa |-> sa, trig |-> trig, crc |-> crc, syms |-> syms,
   snr |-> "high"]
Ghost(m) ==
  [PDU("full", FALSE, FALSE, FALSE, "bad", {}) EXCEPT !.snr = m.snr]

(* Other stations: control frames, beacons, triggers, HT traffic.          *)
Ambient(crc) ==
  {PDU("novector", FALSE, FALSE, FALSE, crc, {}),
   PDU("nofc", FALSE, FALSE, FALSE, crc, {}),
   PDU("nosa", FALSE, FALSE, FALSE, crc, {}),
   PDU("nobody", FALSE, FALSE, TRUE, crc, {}),
   PDU("full", FALSE, FALSE, FALSE, crc, {}),
   PDU("nobody", TRUE, FALSE, FALSE, crc, {}),
   PDU("full", TRUE, FALSE, FALSE, crc, {})}

Counted(c) == IF c THEN 1 ELSE 0

Init ==
  /\ tool \in {"rung3", "sniff", "loopback", "hier", "diag", "keep"}
  /\ tagging \in BOOLEAN
  /\ keep \in IF tool \in {"rung3", "hier", "diag"} THEN {TRUE} ELSE BOOLEAN
  /\ pc = "start"
  /\ dbg = <<>>
  /\ i = 0
  /\ rep = [total |-> 0, dev |-> 0, trig |-> 0, seen |-> 0, corrupt |-> 0,
            base |-> {}, sbi |-> {}, salvaged |-> 0, passHigh |-> 0, failHigh |-> 0]
  /\ verdict = "none yet"
  /\ heard = [frames |-> 0, ht |-> 0, bad |-> 0, ours |-> FALSE, syms |-> {}]

(* --check opens the device and returns; loopback_headless lacks the       *)
(* option, like the rest.                                                  *)
Check ==
  /\ pc = "start" /\ tool \in {"sniff", "loopback"}
  /\ pc' = "done"
  /\ verdict' = "CHECKED"
  /\ UNCHANGED <<env, dbg, i, rep, heard>>

Start ==
  /\ pc = "start"
  /\ pc' = "window"
  /\ UNCHANGED <<env, dbg, i, rep, verdict, heard>>

-----------------------------------------------------------------------------
(* Frames received while the flowgraph runs.  Only clean ones surface      *)
(* unless decode_mac is told otherwise and able to.                        *)
Outcomes == IF ~tagging THEN {"absent"} ELSE IF keep THEN {"ok", "bad"} ELSE {"ok"}

Store(m, ghost) ==
  /\ pc = "window" /\ heard.frames < MaxFrames
  /\ dbg' = IF ghost THEN dbg \o <<m, Ghost(m)>> ELSE Append(dbg, m)
  /\ UNCHANGED <<env, pc, i, rep, verdict>>

Heard(m, ours) ==
  heard' = [frames |-> heard.frames + 1,
            ht |-> heard.ht + Counted(m.ht),
            bad |-> heard.bad + Counted(m.crc = "bad" /\ (m.ht \/ tool # "rung3")),
            ours |-> heard.ours \/ ours,
            syms |-> heard.syms \cup m.syms]

(* A frame of the transmitter's, HT or (loopback, PrecoderDemo) legacy; a  *)
(* corrupt one keeps its SA or not.                                        *)
Ours(ht, crc) ==
  {m \in {PDU("full", ht, sa, FALSE, crc, {}) : sa \in BOOLEAN} : crc # "bad" => m.sa}

(* What it carries: for rung3 a body, of which a corrupt frame keeps some  *)
(* symbols.  Only diag looks at the SNR.                                   *)
Loaded(m) ==
  CASE tool = "rung3" ->
         {[m EXCEPT !.syms = s] :
            s \in IF m.crc = "bad" THEN UNION {SUBSET b : b \in Bodies} ELSE Bodies}
    [] tool = "diag" -> {[m EXCEPT !.snr = snr] : snr \in {"high", "low"}}
    [] tool \notin {"rung3", "diag"} -> {m}

HearOurs ==
  \E ht, ghost \in BOOLEAN, crc \in Outcomes :
    /\ tool \in {"rung3", "hier"} => ht
    /\ tool = "keep" => ~ht
    /\ ghost => ht /\ "bad" \in Outcomes
    /\ \E m0 \in Ours(ht, crc) : \E m \in Loaded(m0) : Store(m, ghost) /\ Heard(m, TRUE)

HearAmbient ==
  \E ghost \in BOOLEAN, crc \in Outcomes : \E m \in Ambient(crc) :
    /\ tool \in {"rung3", "sniff", "diag"}
    /\ ghost => m.ht /\ "bad" \in Outcomes
    /\ Store(m, ghost) /\ Heard(m, FALSE)

(* The sleep ends; what is still inside the flowgraph is lost.             *)
Stop ==
  /\ pc = "window"
  /\ pc' = "scan"
  /\ UNCHANGED <<env, dbg, i, rep, verdict, heard>>

-----------------------------------------------------------------------------
(* The loops over the stored PDUs.                                         *)

KeptAnyFormat(m) == m.size # "novector"          \* faulty: ghosts are kept
Kept(m) == m.size # "novector" /\ m.ht           \* encoding >= 8

CrcOkTagOnly(m) == m.crc = "ok"                  \* faulty: no tag is a failure
CrcOk(m) == m.crc # "bad"

(* rung3: every HT frame with room for a sub-block goes to the receiver.   *)
Rung3Report(m) ==
  IF ~Kept(m) THEN rep
  ELSE IF m.size # "full" THEN [rep EXCEPT !.total = @ + 1]
  ELSE [rep EXCEPT !.total = @ + 1,
                   !.dev = @ + Counted(m.sa),
                   !.seen = @ + 1,
                   !.corrupt = @ + Counted(~CrcOk(m)),
                   !.base = IF CrcOk(m) THEN @ \cup m.syms ELSE @,
                   !.sbi = @ \cup m.syms,
                   !.salvaged = @ + (IF CrcOk(m) THEN 0 ELSE Cardinality(m.syms))]

(* sniff: scan_frames() and scan_triggers(), the SA and the type.          *)
SniffReport(m) ==
  [rep EXCEPT !.total = @ + 1,
              !.dev = @ + Counted(m.size \in {"nobody", "full"} /\ m.sa),
              !.trig = @ + Counted(m.size \notin {"novector", "nofc"} /\ m.trig)]

(* hier and keep: the format, and the tag if there is one.                 *)
CheckReport(m) ==
  [rep EXCEPT !.total = @ + 1,
              !.seen = @ + Counted(m.ht),
              !.corrupt = @ + Counted(m.crc = "bad")]

(* diag: frames with a good and a failed FCS, and how many more of them    *)
(* had a high SNR than a low one.                                          *)
DiagReport(m) ==
  LET d == IF m.snr = "high" THEN 1 ELSE -1
  IN  IF CrcOk(m)
      THEN [rep EXCEPT !.total = @ + 1, !.passHigh = @ + d]
      ELSE [rep EXCEPT !.total = @ + 1, !.corrupt = @ + 1, !.failHigh = @ + d]

Scan ==
  /\ pc = "scan" /\ i < Len(dbg)
  /\ LET m == dbg[i + 1]
     IN  rep' = CASE tool = "rung3" -> Rung3Report(m)
                  [] tool = "sniff" -> SniffReport(m)
                  [] tool = "loopback" -> [rep EXCEPT !.total = @ + 1]
                  [] tool \in {"hier", "keep"} -> CheckReport(m)
                  [] tool = "diag" -> DiagReport(m)
  /\ i' = i + 1
  /\ UNCHANGED <<env, pc, dbg, verdict, heard>>

Blocks(S) == IF Cardinality(S) >= K THEN 1 ELSE 0
Gain == Blocks(rep.sbi) - Blocks(rep.base)

(* The median SNR of a list, by how many more are high than low: -1, 0 (in *)
(* the middle) or 1.                                                       *)
Level(d) == IF d > 0 THEN 1 ELSE IF d < 0 THEN -1 ELSE 0

(* RESULT; the faulty variant is satisfied with any frame.                 *)
JudgedAnyFrame == IF rep.total > 0 THEN "PASS" ELSE "NONE"
Judged ==
  CASE tool = "rung3" -> IF Blocks(rep.sbi) = 0 THEN "NONE" ELSE "PASS"
    [] tool = "sniff" -> IF rep.dev > 0 THEN "PASS"
                         ELSE IF rep.total > 0 THEN "PARTIAL" ELSE "NONE"
    [] tool = "loopback" -> IF rep.total > 0 THEN "PASS" ELSE "NONE"
    [] tool = "hier" -> IF rep.seen > 0 THEN "PASS" ELSE "FAIL"
    [] tool = "keep" -> IF (rep.corrupt > 0) = keep THEN "PASS"
                        ELSE IF keep THEN "INCONCLUSIVE" ELSE "FAIL"
    [] tool = "diag" -> IF rep.corrupt \in {0, rep.total} THEN "NONE"
                        ELSE IF Level(rep.failHigh) >= Level(rep.passHigh)
                        THEN "DEFECT" ELSE "NOISE"

Judge ==
  /\ pc = "scan" /\ i = Len(dbg)
  /\ verdict' = Judged
  /\ pc' = "done"
  /\ UNCHANGED <<env, dbg, i, rep, heard>>

Finished == pc = "done" /\ UNCHANGED vars

Next ==
  \/ Check \/ Start
  \/ HearOurs \/ HearAmbient
  \/ Stop \/ Scan \/ Judge
  \/ Finished

Spec == Init /\ [][Next]_vars

-----------------------------------------------------------------------------
(* The corruption metric is about the link: no frame of the air is counted *)
(* twice, and none as corrupt because of its ghost (comment in main() of   *)
(* rung3, "so the corrupt metric reflects the actual link").               *)
FramesCountedOnce ==
  tool = "rung3" => rep.seen <= heard.ht /\ rep.corrupt <= heard.bad

(* PASS is earned: the transmitter was heard and not only other stations,  *)
(* in rung3 with enough symbols for its block, in hier in an HT frame; and *)
(* keep's PASS says that failures surfaced exactly when they should.       *)
PassEarned ==
  verdict = "PASS" =>
    /\ heard.ours \/ (tool = "keep" /\ ~keep)
    /\ tool = "rung3" => Cardinality(heard.syms) >= K
    /\ tool = "hier" => heard.ht > 0
    /\ tool = "keep" => (keep <=> heard.bad > 0)

(* A gain over the baseline means that the link corrupted frames: a        *)
(* decode_mac that tags nothing never shows one.                           *)
GainMeansCorruption == Gain > 0 => heard.bad > 0 /\ rep.salvaged > 0

(* What the verdict of iq_diag.py says ("corruption is a RECEIVER          *)
(* CORRECTION DEFECT"): a frame of the air was corrupted.                  *)
DefectMeansCorruption == verdict = "DEFECT" => heard.bad > 0
=============================================================================
