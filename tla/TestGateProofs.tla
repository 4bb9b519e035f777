--------------------------- MODULE TestGateProofs ---------------------------
(***************************************************************************)
(* The gate for any plan of formats and any number of retries.             *)
(***************************************************************************)
EXTENDS TestGate, TLAPS

LEMMA PlanFacts ==
  /\ Len(Plan) \in Nat /\ 1 <= Len(Plan)
  /\ \A f \in FormatIds : Plan[f].cells \in Nat /\ 1 <= Plan[f].cells
                          /\ Plan[f].soft \in BOOLEAN
  /\ FormatIds = 1 .. Len(Plan)
  /\ Retries \in Nat /\ 1 <= Retries
  /\ NSelftests \in Nat
<1>1. \A f \in FormatIds : Plan[f] \in Format
  BY GateAssumption DEF FormatIds
<1>2. QED
  BY <1>1, GateAssumption DEF FormatIds, Format

-----------------------------------------------------------------------------
(* Type correctness.  Without the attempt counter's bound, which needs the *)
(* guards of the replays, nothing here depends on another part.            *)
LEMMA NextFormatTyped ==
  ASSUME TypeOK, NextFormat
  PROVE  /\ pc' \in {"generate", "final"}
         /\ fmt' \in FormatIds
         /\ cell' \in 1 .. Plan[fmt'].cells
         /\ any' \in BOOLEAN
<1>1. fmt' \in FormatIds /\ cell' = 1
  BY PlanFacts DEF TypeOK, NextFormat
<1>2. cell' \in 1 .. Plan[fmt'].cells
  BY <1>1, PlanFacts
<1>3. QED
  BY <1>1, <1>2 DEF NextFormat

LEMMA NextCellTyped ==
  ASSUME TypeOK, NEW passed \in BOOLEAN, NextCell(passed)
  PROVE  /\ pc' \in {"generate", "final"}
         /\ fmt' \in FormatIds
         /\ cell' \in 1 .. Plan[fmt'].cells
         /\ any' \in BOOLEAN
         /\ failures' \in Nat
<1>1. CASE cell < Plan[fmt].cells
  <2>1. pc' = "generate" /\ fmt' = fmt /\ cell' = cell + 1 /\ failures' = failures
        /\ any' = (any \/ passed)
    BY <1>1 DEF NextCell
  <2>2. cell + 1 \in 1 .. Plan[fmt].cells
    BY <1>1, PlanFacts DEF TypeOK
  <2> QED
    BY <2>1, <2>2 DEF TypeOK
<1>2. CASE ~(cell < Plan[fmt].cells)
  BY <1>2, NextFormatTyped DEF NextCell, TypeOK
<1>3. QED
  BY <1>1, <1>2

LEMMA ObserveTyped ==
  ASSUME TypeOK, NEW p \in BOOLEAN, NEW w \in BOOLEAN, Observe(p, w)
  PROVE  /\ UNCHANGED <<file, exit, broken, unmade>>
         /\ clean' \subseteq FormatIds
         /\ wrong' \subseteq FormatIds
BY DEF TypeOK, Observe

LEMMA StepTyped ==
  ASSUME TypeOK, [Next]_vars
  PROVE  TypeOK'
<1>1. CASE UNCHANGED vars
  BY <1>1 DEF vars, TypeOK
<1>0. ASSUME attempt < Retries, attempt' = attempt + 1
      PROVE  attempt' \in 0 .. Retries
  BY <1>0, PlanFacts DEF TypeOK
<1>2. CASE Selftests
  BY <1>2, PlanFacts DEF Selftests, TypeOK
<1>3. CASE Generate
  <2>1. file' = NoFile \/ file' \in FormatIds \X (Nat \ {0})
    BY <1>3 DEF Generate, TypeOK
  <2>2. unmade' \subseteq FormatIds
    BY <1>3 DEF Generate, TypeOK
  <2> QED
    BY <1>3, <2>1, <2>2, PlanFacts DEF Generate, TypeOK
<1>4. ASSUME NEW b \in BOOLEAN, CellError(b)
      PROVE  TypeOK'
  <2>1. Observe(b, TRUE) /\ attempt' \in 0 .. Retries
    BY <1>4, <1>0 DEF CellError
  <2>2. \/ NextCell(FALSE)
        \/ failures' = failures + 1 /\ NextFormat
    BY <1>4 DEF CellError
  <2>3. CASE NextCell(FALSE)
    BY <2>1, <2>3, ObserveTyped, NextCellTyped DEF TypeOK
  <2>4. CASE failures' = failures + 1 /\ NextFormat
    <3>1. failures' \in Nat
      BY <2>4 DEF TypeOK
    <3> QED
      BY <2>1, <2>4, <3>1, ObserveTyped, NextFormatTyped DEF TypeOK
  <2> QED
    BY <2>2, <2>3, <2>4
<1>5. ASSUME NEW b \in BOOLEAN, CellPass(b)
      PROVE  TypeOK'
  <2>1. Observe(TRUE, b) /\ attempt' \in 0 .. Retries /\ NextCell(TRUE)
    BY <1>5, <1>0 DEF CellPass
  <2> QED
    BY <2>1, ObserveTyped, NextCellTyped DEF TypeOK
<1>6. ASSUME NEW b \in BOOLEAN, CellSilent(b)
      PROVE  TypeOK'
  <2>1. Observe(FALSE, b) /\ attempt' \in 0 .. Retries
    BY <1>6, <1>0 DEF CellSilent
  <2>2. UNCHANGED <<pc, fmt, cell, any, failures>>
    BY <1>6 DEF CellSilent
  <2>3. /\ pc' \in {"selftest", "generate", "replay", "final", "exited"}
        /\ fmt' \in FormatIds /\ cell' \in 1 .. Plan[fmt'].cells
        /\ any' \in BOOLEAN /\ failures' \in Nat
    BY <2>2, Zenon DEF TypeOK
  <2> QED
    BY <2>1, <2>3, ObserveTyped DEF TypeOK
<1>7. CASE CellNoDetection
  <2>1. NextCell(FALSE) /\ UNCHANGED <<attempt, file, exit, hist>>
    BY <1>7 DEF CellNoDetection
  <2> QED
    BY <2>1, NextCellTyped DEF TypeOK, hist
<1>8. CASE Final
  BY <1>8, PlanFacts DEF Final, TypeOK
<1>9. QED
  BY <1>1, <1>2, <1>3, <1>4, <1>5, <1>6, <1>7, <1>8 DEF Next, Step, Exited

LEMMA GateTypeCorrectInit == Init => TypeOK
<1>1. SUFFICES ASSUME Init PROVE TypeOK
  OBVIOUS
<1>2. 1 \in FormatIds /\ Len(Plan) \in FormatIds
  BY PlanFacts
<1>3. fmt \in FormatIds /\ cell \in 1 .. Plan[fmt].cells
  BY <1>1, <1>2, PlanFacts DEF Init
<1>4. file = NoFile \/ file \in FormatIds \X (Nat \ {0})
  BY <1>1, <1>2, PlanFacts DEF Init
<1>5. attempt \in 0 .. Retries /\ failures \in Nat
  BY <1>1, PlanFacts DEF Init
<1>6. any \in BOOLEAN /\ broken \in BOOLEAN
  BY <1>1, Zenon DEF Init
<1> QED
  BY <1>1, <1>3, <1>4, <1>5, <1>6 DEF Init, TypeOK

(* TypeOK holds for every plan.                                            *)
THEOREM GateTypeCorrect == Spec => []TypeOK
<1>1. Init => TypeOK
  BY GateTypeCorrectInit
<1>2. TypeOK /\ [Next]_vars => TypeOK'
  BY StepTyped
<1>3. QED
  BY <1>1, <1>2, PTL DEF Spec

-----------------------------------------------------------------------------
(* What the counters and the exit code stand for.  Track relates the       *)
(* verdict variable of the format in progress to what was decoded, Ledger  *)
(* the failures to the formats that are done.                              *)
Bad == Hard \ Legacy
Done == {f \in FormatIds : f < fmt \/ pc \in {"final", "exited"}}

Track ==
  /\ pc = "replay" /\ fmt \notin unmade => file[1] = fmt
  /\ any => fmt \in clean \cup unmade
  /\ fmt \in clean \cap Hard /\ pc \notin {"final", "exited"} => any
  /\ \A f \in clean : f <= fmt
  /\ pc \in {"final", "exited"} => fmt = Len(Plan)

Ledger ==
  /\ failures = 0 => Done \cap Hard \subseteq clean \cup unmade
  /\ failures = 0 => wrong \cap Bad = {}
  /\ failures > 0 => \/ broken
                     \/ wrong \cap Bad # {}
                     \/ \E f \in Done \cap Hard : f \notin clean
  /\ pc = "selftest" => failures = 0

ExitCode ==
  /\ pc # "exited" => exit = -1
  /\ pc = "exited" => exit = IF failures = 0 THEN 0 ELSE 1

GInv == TypeOK /\ Track /\ Ledger /\ ExitCode

(* A format ends: it joins the ones done and the next starts afresh.       *)
LEMMA FormatEnds ==
  ASSUME TypeOK, Track, pc = "replay", NextFormat,
         clean \subseteq clean', clean' \subseteq clean \cup {fmt}, unmade' = unmade
  PROVE  /\ Track'
         /\ Done' = Done \cup {fmt}
         /\ fmt \notin Done
         /\ pc' \in {"generate", "final"}
<1>1. /\ fmt \in 1 .. Len(Plan) /\ Len(Plan) \in Nat
      /\ any' = FALSE
      /\ pc' = IF fmt = Len(Plan) THEN "final" ELSE "generate"
      /\ fmt' = IF fmt = Len(Plan) THEN fmt ELSE fmt + 1
  BY PlanFacts DEF TypeOK, NextFormat
<1>2. Track'
  BY <1>1, PlanFacts DEF TypeOK, Track
<1>3. Done' = Done \cup {fmt} /\ fmt \notin Done
  BY <1>1, PlanFacts DEF Done
<1> QED
  BY <1>1, <1>2, <1>3

(* A cell is followed by another of the same format.                       *)
LEMMA CellFollows ==
  ASSUME TypeOK, Track, pc = "replay", fmt' = fmt, pc' = "generate",
         NEW passed \in BOOLEAN, any' = (any \/ passed),
         passed => fmt \in clean' \cup unmade',
         clean \subseteq clean', clean' \subseteq clean \cup {fmt}, unmade' = unmade,
         fmt \in clean' \cap Hard => any \/ passed
  PROVE  /\ Track'
         /\ Done' = Done
<1>1. fmt \in 1 .. Len(Plan) /\ Len(Plan) \in Nat
  BY PlanFacts DEF TypeOK
<1>2. \A f \in clean' : f <= fmt
  BY <1>1 DEF Track
<1>3. any' => fmt' \in clean' \cup unmade'
  BY Zenon DEF Track
<1>4. fmt' \in clean' \cap Hard => any'
  BY Zenon
<1>5. Track'
  BY <1>2, <1>3, <1>4 DEF Track
<1>6. Done' = Done
  BY DEF Done
<1> QED
  BY <1>5, <1>6

(* Both ways on after a cell.                                              *)
LEMMA CellEffect ==
  ASSUME TypeOK, Track, pc = "replay", NEW passed \in BOOLEAN, NextCell(passed),
         passed => fmt \in clean' \cup unmade',
         clean \subseteq clean', clean' \subseteq clean \cup {fmt}, unmade' = unmade,
         fmt \in clean' \cap Hard => any \/ passed
  PROVE  /\ Track'
         /\ pc' \in {"generate", "final"}
         /\ \/ Done' = Done /\ failures' = failures
            \/ /\ Done' = Done \cup {fmt} /\ fmt \notin Done
               /\ any \/ passed \/ fmt \notin Hard
               /\ failures' = failures
            \/ /\ Done' = Done \cup {fmt} /\ fmt \notin Done
               /\ ~any /\ ~passed /\ fmt \in Hard
               /\ failures' = failures + 1
<1>1. CASE cell < Plan[fmt].cells
  <2>1. pc' = "generate" /\ fmt' = fmt /\ failures' = failures /\ any' = (any \/ passed)
    BY <1>1 DEF NextCell
  <2> QED
    BY <2>1, CellFollows
<1>2. CASE ~(cell < Plan[fmt].cells)
  <2>1. NextFormat /\ failures' = IF any \/ passed \/ Plan[fmt].soft
                                  THEN failures ELSE failures + 1
    BY <1>2 DEF NextCell
  <2>2. fmt \in Hard <=> ~Plan[fmt].soft
    BY DEF Hard, TypeOK
  <2> QED
    BY <2>1, <2>2, FormatEnds, Zenon
<1>3. QED
  BY <1>1, <1>2

(* What a replay leaves in the history.                                    *)
LEMMA ObserveEffect ==
  ASSUME TypeOK, Track, pc = "replay", NEW p \in BOOLEAN, NEW w \in BOOLEAN, Observe(p, w)
  PROVE  /\ UNCHANGED <<file, exit, broken, unmade>>
         /\ clean \subseteq clean' /\ clean' \subseteq clean \cup {fmt}
         /\ p => fmt \in clean' \cup unmade'
         /\ ~p => clean' = clean
         /\ wrong \subseteq wrong' /\ wrong' \subseteq wrong \cup {fmt}
         /\ ~w => wrong' = wrong
         /\ w => fmt \in wrong'
BY DEF Observe, Track

(* A wrong FCS goes unseen in a legacy format only.                        *)
LEMMA SeenInBad ==
  ASSUME TypeOK, NEW w \in BOOLEAN
  PROVE  Seen(w) <=> w /\ fmt \notin Legacy
BY DEF TypeOK, Seen, Legacy

(* How a step may change the ledger: by a cell's result, ...               *)
LEMMA LedgerCell ==
  ASSUME TypeOK, Track, Ledger, pc = "replay", pc' # "selftest", UNCHANGED <<broken, unmade>>,
         clean \subseteq clean', clean' \subseteq clean \cup {fmt},
         wrong \subseteq wrong',
         \/ Done' = Done /\ failures' = failures /\ wrong' \cap Bad = wrong \cap Bad
         \/ /\ Done' = Done \cup {fmt} /\ fmt \notin Done /\ failures' = failures
            /\ wrong' \cap Bad = wrong \cap Bad
            /\ fmt \in clean' \cup unmade' \/ fmt \notin Hard
         \/ /\ Done' = Done \cup {fmt} /\ fmt \notin Done /\ failures' = failures + 1
            /\ fmt \in Hard
            /\ fmt \notin clean' \/ wrong' \cap Bad # {}
  PROVE  Ledger'
<1>1. failures \in Nat
  BY DEF TypeOK
<1>2. fmt \notin Done
  BY PlanFacts DEF TypeOK, Done
<1>3. CASE failures' = failures /\ wrong' \cap Bad = wrong \cap Bad
           /\ \/ Done' = Done
              \/ Done' = Done \cup {fmt} /\ (fmt \in clean' \cup unmade' \/ fmt \notin Hard)
  <2>1. failures' = 0 => Done' \cap Hard \subseteq clean' \cup unmade'
    BY <1>3 DEF Ledger
  <2>2. (\E f \in Done \cap Hard : f \notin clean) => \E f \in Done' \cap Hard : f \notin clean'
    BY <1>2, <1>3
  <2> QED
    BY <1>3, <2>1, <2>2 DEF Ledger, Bad, Hard, Legacy
<1>4. CASE /\ Done' = Done \cup {fmt} /\ failures' = failures + 1 /\ fmt \in Hard
           /\ fmt \notin clean' \/ wrong' \cap Bad # {}
  <2>1. failures' # 0
    BY <1>1, <1>4
  <2> QED
    BY <1>4, <2>1 DEF Ledger, Bad, Hard, Legacy
<1>5. QED
  BY <1>3, <1>4

LEMMA StepGInv ==
  ASSUME GInv, [Next]_vars
  PROVE  GInv'
<1>0. TypeOK' /\ failures \in Nat
  BY StepTyped DEF GInv, TypeOK
<1> USE DEF GInv
<1>1. CASE UNCHANGED vars
  BY <1>0, <1>1 DEF vars, Track, Ledger, ExitCode, Done, Bad, Hard, Legacy
<1>2. CASE Selftests
  <2>1. PICK m \in 0 .. NSelftests : failures' = failures + m /\ broken' = (m > 0)
    BY <1>2 DEF Selftests
  <2>2. failures' > 0 => broken'
    <3>1. failures = 0
      BY <1>2 DEF Selftests, Ledger
    <3>2. failures' > 0 => m > 0
      BY <2>1, <3>1, PlanFacts
    <3> QED
      BY <2>1, <3>2, Zenon
  <2>3. failures' = 0 => failures = 0
    BY <1>0, <2>1, PlanFacts
  <2>4. Done' = Done /\ Ledger'
    BY <1>2, <2>2, <2>3 DEF Selftests, Done, Ledger, Bad, Hard, Legacy
  <2> QED
    BY <1>0, <1>2, <2>4 DEF Selftests, Track, ExitCode
<1>3. CASE Generate
  <2>1. Done' = Done /\ unmade \subseteq unmade'
    BY <1>3 DEF Generate, Done
  <2>2. fmt \notin unmade' => file' = <<fmt, cell>>
    BY <1>3 DEF Generate
  <2>3. Track'
    BY <1>3, <2>1, <2>2 DEF Generate, Track
  <2>4. Ledger'
    BY <1>3, <2>1 DEF Generate, Ledger, Bad, Hard, Legacy
  <2> QED
    BY <1>0, <1>3, <2>3, <2>4 DEF Generate, ExitCode
<1>4. ASSUME NEW p \in BOOLEAN, CellError(p)
      PROVE  GInv'
  <2>1. Observe(p, TRUE) /\ pc = "replay" /\ fmt \notin Legacy /\ fmt \in FormatIds
    BY <1>4, SeenInBad DEF CellError, TypeOK
  <2>2. /\ clean \subseteq clean' /\ clean' \subseteq clean \cup {fmt}
        /\ UNCHANGED <<file, exit, broken, unmade>>
        /\ wrong \subseteq wrong' /\ wrong' \subseteq wrong \cup {fmt} /\ fmt \in wrong'
    BY <2>1, ObserveEffect
  <2>3. CASE Plan[fmt].soft
    <3>1. fmt \notin Hard /\ wrong' \cap Bad = wrong \cap Bad
      BY <2>2, <2>3 DEF Hard, Bad
    <3>2. NextCell(FALSE)
      BY <1>4, <2>3 DEF CellError
    <3>3. /\ Track' /\ pc' \in {"generate", "final"}
          /\ \/ Done' = Done /\ failures' = failures
             \/ Done' = Done \cup {fmt} /\ fmt \notin Done /\ failures' = failures
      BY <2>1, <2>2, <3>1, <3>2, CellEffect
    <3>4. Ledger'
      BY <2>1, <2>2, <3>1, <3>3, LedgerCell
    <3> QED
      BY <1>0, <2>1, <2>2, <3>3, <3>4 DEF ExitCode
  <2>4. CASE ~Plan[fmt].soft
    <3>1. fmt \in Hard /\ wrong' \cap Bad # {}
      BY <2>1, <2>2, <2>4 DEF Hard, Bad
    <3>2. NextFormat /\ failures' = failures + 1
      BY <1>4, <2>4 DEF CellError
    <3>3. /\ Track' /\ pc' \in {"generate", "final"}
          /\ Done' = Done \cup {fmt} /\ fmt \notin Done
      BY <2>1, <2>2, <3>2, FormatEnds
    <3>4. Ledger'
      BY <2>1, <2>2, <3>1, <3>2, <3>3, LedgerCell
    <3> QED
      BY <1>0, <2>1, <2>2, <3>3, <3>4 DEF ExitCode
  <2>5. QED
    BY <2>3, <2>4
<1>5. ASSUME NEW w \in BOOLEAN, CellPass(w)
      PROVE  GInv'
  <2>1. Observe(TRUE, w) /\ pc = "replay" /\ NextCell(TRUE) /\ (w => fmt \in Legacy)
    BY <1>5, SeenInBad DEF CellPass
  <2>2. /\ clean \subseteq clean' /\ clean' \subseteq clean \cup {fmt}
        /\ UNCHANGED <<file, exit, broken, unmade>>
        /\ fmt \in clean' \cup unmade'
        /\ wrong \subseteq wrong' /\ wrong' \cap Bad = wrong \cap Bad
    BY <2>1, ObserveEffect DEF Bad
  <2>3. /\ Track' /\ pc' \in {"generate", "final"}
        /\ \/ Done' = Done /\ failures' = failures
           \/ Done' = Done \cup {fmt} /\ fmt \notin Done /\ failures' = failures
    BY <2>1, <2>2, CellEffect
  <2>4. Ledger'
    BY <2>1, <2>2, <2>3, LedgerCell
  <2> QED
    BY <1>0, <2>1, <2>2, <2>3, <2>4 DEF ExitCode
<1>6. ASSUME NEW w \in BOOLEAN, CellSilent(w)
      PROVE  GInv'
  <2>1. /\ Observe(FALSE, w) /\ pc = "replay" /\ (w => fmt \in Legacy)
        /\ UNCHANGED <<pc, fmt, cell, any, failures>>
    BY <1>6, SeenInBad DEF CellSilent
  <2>2. /\ clean' = clean
        /\ UNCHANGED <<file, exit, broken, unmade>>
        /\ wrong' \cap Bad = wrong \cap Bad
    BY <2>1, ObserveEffect DEF Bad
  <2>3. Track' /\ Ledger'
    BY <2>1, <2>2 DEF Track, Ledger, Done, Bad, Hard, Legacy
  <2> QED
    BY <1>0, <2>1, <2>2, <2>3 DEF ExitCode
<1>7. CASE CellNoDetection
  <2>1. pc = "replay" /\ NextCell(FALSE) /\ UNCHANGED <<file, exit, hist>>
    BY <1>7 DEF CellNoDetection
  <2>2. fmt \in clean \cap Hard => any
    BY <2>1 DEF Track
  <2>3. /\ Track' /\ pc' \in {"generate", "final"}
        /\ \/ Done' = Done /\ failures' = failures
           \/ /\ Done' = Done \cup {fmt} /\ fmt \notin Done /\ failures' = failures
              /\ any \/ fmt \notin Hard
           \/ /\ Done' = Done \cup {fmt} /\ fmt \notin Done /\ failures' = failures + 1
              /\ ~any /\ fmt \in Hard
    BY <2>1, <2>2, CellEffect DEF hist
  <2>4. any => fmt \in clean \cup unmade
    BY DEF Track
  <2>5. Ledger'
    BY <2>1, <2>2, <2>3, <2>4, LedgerCell DEF hist
  <2> QED
    BY <1>0, <2>1, <2>3, <2>5 DEF ExitCode, hist
<1>8. CASE Final
  <2>1. PICK m \in 0 .. 2 : /\ failures' = failures + m
                            /\ broken' = (broken \/ m > 0)
                            /\ exit' = IF failures + m = 0 THEN 0 ELSE 1
    BY <1>8 DEF Final
  <2>2. Done' = Done
    BY <1>8 DEF Final, Done
  <2>3. /\ failures' = 0 => failures = 0
        /\ failures' > 0 => m > 0 \/ failures > 0
    BY <1>0, <2>1
  <2>4. Ledger'
    BY <1>8, <2>1, <2>2, <2>3 DEF Final, Ledger, Bad, Hard, Legacy
  <2> QED
    BY <1>0, <1>8, <2>1, <2>4 DEF Final, Track, ExitCode
<1>9. QED
  BY <1>1, <1>2, <1>3, <1>4, <1>5, <1>6, <1>7, <1>8 DEF Next, Step, Exited

LEMMA SpecGInv == Spec => []GInv
<1>1. Init => GInv
  <2>1. SUFFICES ASSUME Init PROVE Track /\ Ledger /\ ExitCode
    BY GateTypeCorrectInit DEF GInv
  <2> QED
    BY <2>1, PlanFacts DEF Init, Track, Ledger, ExitCode, Done
<1>2. GInv /\ [Next]_vars => GInv'
  BY StepGInv
<1>3. QED
  BY <1>1, <1>2, PTL DEF Spec

-----------------------------------------------------------------------------
(* GreenMeansDecoded holds for every plan and number of retries.           *)
THEOREM GreenDecoded == Spec => []GreenMeansDecoded
<1>1. GInv => GreenMeansDecoded
  BY PlanFacts DEF GInv, ExitCode, Ledger, Done, Hard, GreenMeansDecoded
<1>2. QED
  BY <1>1, SpecGInv, PTL

(* WrongFcsFails holds for every plan and number of retries.               *)
THEOREM WrongFcsNeverGreen == Spec => []WrongFcsFails
<1>1. GInv => WrongFcsFails
  BY DEF GInv, ExitCode, Ledger, Bad, WrongFcsFails
<1>2. QED
  BY <1>1, SpecGInv, PTL

(* NoFalseAlarm holds for every plan and number of retries.                *)
THEOREM RedHasACause == Spec => []NoFalseAlarm
<1>1. GInv => NoFalseAlarm
  BY DEF GInv, TypeOK, ExitCode, Ledger, Bad, NoFalseAlarm
<1>2. QED
  BY <1>1, SpecGInv, PTL
=============================================================================
