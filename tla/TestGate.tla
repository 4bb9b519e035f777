------------------------------ MODULE TestGate ------------------------------
(***************************************************************************)
(* The CI gate scripts/run-tests.sh.  It runs the deterministic self-tests *)
(* once, then each PHY format end to end: for each MCS a generator writes  *)
(* a capture to one fixed file and a replay decodes that file, again and   *)
(* again, because the synchroniser misses frames at random.  The exit code *)
(* is 0 when no check has been counted as failed.                          *)
(*                                                                         *)
(* The decoder and its synchroniser are external: a replay of a capture    *)
(* prints any mix of clean and wrong-FCS lines, or nothing.                *)
(***************************************************************************)
EXTENDS Integers, Sequences

CONSTANTS
  Plan,         \* the format_e2e calls, in order
  Retries,      \* RETRIES
  NSelftests,   \* how many deterministic self-tests precede the formats
  GenMayFail    \* may tools_gen_wifi.py exit without writing a capture?

(* A format: the output marker counted, the replay bandwidth, whether it   *)
(* runs with SOFT=1, and the number of MCS cells.                          *)
Format == [marker : STRING, bw : Nat, soft : BOOLEAN, cells : Nat \ {0}]

ASSUME GateAssumption ==
  /\ Plan \in Seq(Format)
  /\ Len(Plan) > 0
  /\ Retries \in Nat \ {0}
  /\ NSelftests \in Nat
  /\ GenMayFail \in BOOLEAN

FormatIds == 1 .. Len(Plan)
NoFile == <<0, 0>>

VARIABLES
  pc,        \* selftest, generate, replay, final, exited
  fmt,       \* the format being gated
  cell,      \* its MCS cell
  attempt,   \* replays of this cell so far
  any,       \* has a cell of this format passed?
  file,      \* whose capture $GEN holds
  failures,  \* FAILURES
  exit,      \* exit code, -1 while running
  clean,     \* history: formats with a clean decode of a capture of theirs
  wrong,     \* history: formats one of whose replays had a wrong FCS
  broken,    \* history: self-tests, loopback or soft check that failed
  unmade     \* history: formats of which a capture was not written

vars == <<pc, fmt, cell, attempt, any, file, failures, exit, clean, wrong, broken,
          unmade>>
hist == <<clean, wrong, broken, unmade>>

Init ==
  /\ pc = "selftest"
  /\ fmt = 1
  /\ cell = 1
  /\ attempt = 0
  /\ any = FALSE
  /\ file \in {NoFile} \cup {<<f, 1>> : f \in FormatIds}   \* an earlier run's
  /\ failures = 0
  /\ exit = -1
  /\ clean = {}
  /\ wrong = {}
  /\ broken = FALSE
  /\ unmade = {}

(* The self-tests: bad() once for each that does not report a pass.        *)
Selftests ==
  /\ pc = "selftest"
  /\ \E n \in 0 .. NSelftests :
       /\ failures' = failures + n
       /\ broken' = (n > 0)
  /\ pc' = "generate"
  /\ UNCHANGED <<fmt, cell, attempt, any, file, exit, clean, wrong, unmade>>

-----------------------------------------------------------------------------
(* format_e2e() and replay_cell().                                         *)

(* The generator's exit status is not looked at.                           *)
Generate ==
  /\ pc = "generate"
  /\ \E made \in IF GenMayFail THEN BOOLEAN ELSE {TRUE} :
       /\ file' = IF made THEN <<fmt, cell>> ELSE file
       /\ unmade' = IF made THEN unmade ELSE unmade \cup {fmt}
  /\ attempt' = 0
  /\ pc' = "replay"
  /\ UNCHANGED <<fmt, cell, any, failures, exit, clean, wrong, broken>>

(* Faulty variant: the next format starts with the verdict of this one.    *)
NextFormatKeepsAny ==
  /\ pc' = IF fmt = Len(Plan) THEN "final" ELSE "generate"
  /\ fmt' = IF fmt = Len(Plan) THEN fmt ELSE fmt + 1
  /\ cell' = 1
  /\ UNCHANGED any

NextFormat ==
  /\ pc' = IF fmt = Len(Plan) THEN "final" ELSE "generate"
  /\ fmt' = IF fmt = Len(Plan) THEN fmt ELSE fmt + 1
  /\ cell' = 1
  /\ any' = FALSE

(* Faulty variant: SOFT is not looked at when the format ends.             *)
NextCellAllHard(passed) ==
  IF cell < Plan[fmt].cells
  THEN /\ pc' = "generate"
       /\ cell' = cell + 1
       /\ any' = (any \/ passed)
       /\ UNCHANGED <<fmt, failures>>
  ELSE /\ failures' = IF any \/ passed THEN failures ELSE failures + 1
       /\ NextFormat

NextCell(passed) ==
  IF cell < Plan[fmt].cells
  THEN /\ pc' = "generate"
       /\ cell' = cell + 1
       /\ any' = (any \/ passed)
       /\ UNCHANGED <<fmt, failures>>
  ELSE /\ failures' = IF any \/ passed \/ Plan[fmt].soft
                      THEN failures ELSE failures + 1
       /\ NextFormat

(* A line of the decoder begins with the marker of its format, and the     *)
(* gate looks for "HT-DATA]" with nothing before it, which is also in      *)
(* "[VHT-DATA]".                                                           *)
Shows(marker, line) ==
  line = marker \/ (marker = "HT-DATA" /\ line = "VHT-DATA")

(* A capture yields lines that format f counts only if they show its       *)
(* marker and the two use one bandwidth.                                   *)
Counts(f) ==
  file # NoFile /\ Shows(Plan[f].marker, Plan[file[1]].marker)
                /\ Plan[file[1]].bw = Plan[f].bw

(* One replay of the capture: p says it printed a clean decode, w a wrong  *)
(* FCS.  The legacy marker has no line for a wrong FCS, so there w goes    *)
(* unseen; a timeout or a crash looks like silence.                        *)
Seen(w) == w /\ Plan[fmt].marker # "legacy"

Observe(p, w) ==
  /\ p \/ w => Counts(fmt)
  /\ clean' = IF p /\ file[1] = fmt THEN clean \cup {fmt} ELSE clean
  /\ wrong' = IF w THEN wrong \cup {fmt} ELSE wrong
  /\ UNCHANGED <<file, exit, broken, unmade>>

(* Faulty variant: a clean line is looked for before a wrong FCS.          *)
CellErrorCleanFirst(p) ==
  /\ pc = "replay"
  /\ attempt < Retries
  /\ Seen(TRUE)
  /\ Observe(p, TRUE)
  /\ attempt' = attempt + 1
  /\ IF p \/ Plan[fmt].soft
     THEN NextCell(p)
     ELSE failures' = failures + 1 /\ NextFormat

CellError(p) ==
  /\ pc = "replay"
  /\ attempt < Retries
  /\ Seen(TRUE)
  /\ Observe(p, TRUE)
  /\ attempt' = attempt + 1
  /\ IF Plan[fmt].soft
     THEN NextCell(FALSE)
     ELSE failures' = failures + 1 /\ NextFormat

CellPass(w) ==
  /\ pc = "replay"
  /\ attempt < Retries
  /\ ~Seen(w)
  /\ Observe(TRUE, w)
  /\ attempt' = attempt + 1
  /\ NextCell(TRUE)

CellSilent(w) ==
  /\ pc = "replay"
  /\ attempt < Retries
  /\ ~Seen(w)
  /\ Observe(FALSE, w)
  /\ attempt' = attempt + 1
  /\ UNCHANGED <<pc, fmt, cell, any, failures>>

CellNoDetection ==
  /\ pc = "replay"
  /\ attempt = Retries
  /\ UNCHANGED <<attempt, file, exit, hist>>
  /\ NextCell(FALSE)

-----------------------------------------------------------------------------
(* The rung-1 loopback (skipped without gr-foo) and the soft-Viterbi check *)
(* run once each; then the exit code.                                      *)
Final ==
  /\ pc = "final"
  /\ \E n \in 0 .. 2 :
       /\ failures' = failures + n
       /\ broken' = (broken \/ n > 0)
       /\ exit' = IF failures + n = 0 THEN 0 ELSE 1
  /\ pc' = "exited"
  /\ UNCHANGED <<fmt, cell, attempt, any, file, clean, wrong, unmade>>

Exited == pc = "exited" /\ UNCHANGED vars

Step ==
  \/ Selftests
  \/ Generate
  \/ \E b \in BOOLEAN : CellError(b) \/ CellPass(b) \/ CellSilent(b)
  \/ CellNoDetection
  \/ Final

Next == Step \/ Exited

Spec == Init /\ [][Next]_vars

-----------------------------------------------------------------------------
Hard == {f \in FormatIds : ~Plan[f].soft}
Legacy == {f \in FormatIds : Plan[f].marker = "legacy"}

(* Type correctness.                                                       *)
TypeOK ==
  /\ pc \in {"selftest", "generate", "replay", "final", "exited"}
  /\ fmt \in FormatIds
  /\ cell \in 1 .. Plan[fmt].cells
  /\ attempt \in 0 .. Retries
  /\ any \in BOOLEAN
  /\ file = NoFile \/ file \in FormatIds \X (Nat \ {0})
  /\ failures \in Nat
  /\ exit \in {-1, 0, 1}
  /\ clean \subseteq FormatIds
  /\ wrong \subseteq FormatIds
  /\ broken \in BOOLEAN
  /\ unmade \subseteq FormatIds

(* Green means decoded: exit 0 only if every format without SOFT, all of   *)
(* whose captures were written, decoded a capture of its own cleanly.      *)
GreenMeansDecoded == exit = 0 => Hard \ unmade \subseteq clean

(* The same without the condition, as the comment of format_e2e has it     *)
(* ("the format passes iff >=1 of its MCS decoded clean").                 *)
GreenAlwaysDecoded == exit = 0 => Hard \subseteq clean

(* A wrong FCS is never retried away: once a replay of a hard format that  *)
(* reports them has shown one, the suite does not exit 0.                  *)
WrongFcsFails == exit = 0 => wrong \cap (Hard \ Legacy) = {}

(* No false alarm: if every hard format decoded cleanly, no wrong FCS was  *)
(* seen in one and every run-once check passed, the suite exits 0 whatever *)
(* the SOFT formats did.                                                   *)
NoFalseAlarm ==
  exit = 1 => broken \/ wrong \cap (Hard \ Legacy) # {} \/ ~(Hard \subseteq clean)

=============================================================================
