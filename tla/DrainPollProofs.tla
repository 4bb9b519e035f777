--------------------------- MODULE DrainPollProofs ---------------------------
(***************************************************************************)
(* The polling scripts for any capture and any bounds of the loop.         *)
(***************************************************************************)
EXTENDS DrainPoll, FiniteSetTheorems, TLAPS

(* The steps of the loop at the numbers it keeps.                          *)
Typed ==
  /\ pc \in {"poll", "stopping", "tally", "report", "crashed"}
  /\ tool \in {"fec_diag", "survivor_hist"} /\ tagged \in BOOLEAN
  /\ dbg \in Seq(Kinds) /\ Len(dbg) <= NMsgs
  /\ last \in -1 .. NMsgs /\ last <= Len(dbg)
  /\ stable \in 0 .. Patience
  /\ polls \in 0 .. Cap
  /\ silent \in 0 .. polls
  /\ paused \in BOOLEAN
  /\ pc = "poll" => polls < Cap /\ stable < Patience

(* The decoder stores nothing after stop().                                *)
Tallied ==
  /\ n \in 0 .. Len(dbg)
  /\ {pass, fail, ghosts} \subseteq Nat
  /\ given \in Seq(Kinds)
  /\ pc \in {"poll", "stopping"} => n = 0

DInv == Typed /\ Tallied

LEMMA Bounds ==
  /\ NMsgs \in Nat /\ Cap \in Nat /\ 1 <= Cap /\ Patience \in Nat /\ 1 <= Patience
BY PollAssumption

LEMMA StepTypedPoll ==
  ASSUME DInv, [Next]_vars
  PROVE  Typed'
<1> USE Bounds DEF DInv, Typed, Tallied, env, tallies
<1>1. CASE UNCHANGED vars
  BY <1>1 DEF vars, Kinds
<1>2. CASE Decode
  <2>1. PICK m \in Kinds : dbg' = Append(dbg, m)
    BY <1>2 DEF Decode
  <2>2. Len(dbg') = Len(dbg) + 1 /\ Kinds' = Kinds
    BY <1>2, <2>1 DEF Decode, Kinds
  <2> QED
    BY <1>2, <2>1, <2>2 DEF Decode
<1>3. CASE Poll
  <2>1. /\ last' = Len(dbg) /\ polls' = polls + 1 /\ silent' = silent + 1
        /\ stable' \in {0, stable + 1}
        /\ pc' = IF stable' >= Patience \/ polls' = Cap THEN "stopping" ELSE "poll"
        /\ pc = "poll" /\ UNCHANGED <<env, dbg, tallies>>
    BY <1>3 DEF Poll, StableAfter, Enough
  <2>2. Kinds' = Kinds
    BY <2>1 DEF Kinds
  <2>3. paused' \in BOOLEAN
    BY <1>3 DEF Poll
  <2> QED
    BY <2>1, <2>2, <2>3
<1>4. CASE Stop \/ Report \/ Finished
  BY <1>4 DEF Stop, Report, Finished, Kinds, vars
<1>5. CASE Tally
  <2>1. UNCHANGED <<env, dbg, last, stable, polls, silent, paused>> /\ pc' \in {"tally", "crashed"}
    BY <1>5 DEF Tally
  <2> QED
    BY <2>1 DEF Kinds
<1>6. QED
  BY <1>1, <1>2, <1>3, <1>4, <1>5 DEF Next

LEMMA StepTallied ==
  ASSUME DInv, [Next]_vars
  PROVE  Tallied'
<1> USE DEF DInv, Typed, Tallied, env, tallies
<1>1. CASE UNCHANGED vars \/ Stop \/ Report \/ Finished \/ Poll
  BY <1>1 DEF vars, Kinds, Stop, Report, Finished, Poll
<1>2. CASE Decode
  <2>1. Len(dbg') = Len(dbg) + 1 /\ UNCHANGED tallies /\ Kinds' = Kinds
    BY <1>2 DEF Decode, Kinds
  <2> QED
    BY <1>2, <2>1 DEF Decode
<1>3. CASE Tally
  <2>1. n' = n + 1 /\ n < Len(dbg) /\ dbg' = dbg /\ pc' \in {"tally", "crashed"} /\ Kinds' = Kinds
    BY <1>3 DEF Tally, Kinds
  <2>2. dbg[n + 1] \in Kinds
    BY <2>1
  <2>3. /\ pass' \in {pass, pass + 1} /\ fail' \in {fail, fail + 1}
        /\ ghosts' \in {ghosts, ghosts + 1}
        /\ given' = given \/ given' = Append(given, dbg[n + 1])
    BY <1>3 DEF Tally
  <2>4. n' \in 0 .. Len(dbg')
    BY <2>1
  <2>5. {pass', fail', ghosts'} \subseteq Nat
    BY <2>3
  <2>6. given' \in Seq(Kinds)
    BY <2>2, <2>3
  <2> QED
    BY <2>1, <2>4, <2>5, <2>6
<1>4. QED
  BY <1>1, <1>2, <1>3 DEF Next

LEMMA SpecDInv == Spec => []DInv
<1>1. Init => DInv
  <2> SUFFICES ASSUME Init
               PROVE  DInv
    OBVIOUS
  <2>1. paused \in BOOLEAN
    BY DEF Init
  <2> QED
    BY <2>1, Bounds DEF Init, DInv, Typed, Tallied, Kinds
<1>2. DInv /\ [Next]_vars => DInv'
  BY StepTypedPoll, StepTallied DEF DInv
<1>3. QED
  BY <1>1, <1>2, PTL DEF Spec

(* TypeOK holds for every capture and all bounds.                          *)
THEOREM PollTypeCorrect == Spec => []TypeOK
<1>1. DInv => TypeOK
  BY Bounds DEF DInv, Typed, Tallied, TypeOK
<1>2. QED
  BY <1>1, SpecDInv, PTL

-----------------------------------------------------------------------------
(* When the loop has lost its patience, the decoder has been silent for    *)
(* longer than that, or is through.                                        *)
Watched ==
  /\ pc = "poll" /\ last = Len(dbg) => silent >= stable + 1
  /\ pc # "poll" /\ polls < Cap => paused \/ Len(dbg) = NMsgs

LEMMA StepWatched ==
  ASSUME DInv, Watched, [Next]_vars
  PROVE  Watched'
<1> USE Bounds DEF DInv, Typed, Watched, env
<1>1. CASE UNCHANGED vars \/ Stop \/ Report \/ Finished
  BY <1>1 DEF vars, Stop, Report, Finished
<1>2. CASE Decode
  <2>1. Len(dbg') = Len(dbg) + 1 /\ last' = last /\ pc' = pc /\ polls' = polls
        /\ paused' = paused /\ Len(dbg) < NMsgs
    BY <1>2 DEF Decode
  <2> QED
    BY <2>1
<1>3. CASE Poll
  <2>1. /\ last' = Len(dbg) /\ silent' = silent + 1 /\ dbg' = dbg /\ polls' = polls + 1
        /\ stable' = IF Len(dbg) = last THEN stable + 1 ELSE 0
        /\ pc' = IF stable' >= Patience \/ polls' = Cap THEN "stopping" ELSE "poll"
        /\ pc = "poll"
        /\ paused' = (paused \/ (Len(dbg) < NMsgs /\ silent' > Patience))
    BY <1>3 DEF Poll, StableAfter, Enough
  <2>2. silent' >= stable' + 1
    BY <2>1
  <2>3. pc' # "poll" /\ polls' < Cap => paused' \/ Len(dbg) = NMsgs
    <3> SUFFICES ASSUME pc' # "poll", polls' < Cap, Len(dbg) # NMsgs
                 PROVE  paused'
      OBVIOUS
    <3>1. Len(dbg) < NMsgs /\ silent' > Patience
      BY <2>1, <2>2
    <3> QED
      BY <3>1, <2>1, Zenon
  <2> QED
    BY <2>1, <2>2, <2>3
<1>4. CASE Tally
  <2>1. UNCHANGED <<dbg, polls, paused>> /\ pc = "tally" /\ pc' # "poll"
    BY <1>4 DEF Tally
  <2> QED
    BY <2>1
<1>5. QED
  BY <1>1, <1>2, <1>3, <1>4 DEF Next

(* PolledToCompletion holds for every capture and all bounds of the loop:  *)
(* nothing but the cap and a pause longer than the loop's patience ends    *)
(* the polling early.                                                      *)
THEOREM PatienceSuffices == Spec => []PolledToCompletion
<1>1. Init => Watched
  BY DEF Init, Watched
<1>2. DInv /\ Watched /\ [Next]_vars => Watched'
  BY StepWatched
<1>3. Watched => PolledToCompletion
  BY DEF Watched, PolledToCompletion
<1>4. QED
  BY <1>1, <1>2, <1>3, SpecDInv, PTL DEF Spec

-----------------------------------------------------------------------------
(* While the loop runs, the silence it has counted is the decoder's: the   *)
(* first silent poll sets last, each one after it is counted in stable.    *)
InStep ==
  pc = "poll" => silent = IF last = Len(dbg) THEN stable + 1 ELSE 0

(* QuietEnds holds for every capture and all bounds of the loop, however   *)
(* long the decoder pauses.                                                *)
THEOREM SilenceIsBounded == Spec => []QuietEnds
<1>1. Init => InStep
  BY DEF Init, InStep
<1>2. DInv /\ InStep /\ [Next]_vars => InStep'
  <2> SUFFICES ASSUME DInv, InStep, [Next]_vars
               PROVE  InStep'
    OBVIOUS
  <2> USE Bounds DEF DInv, Typed, InStep, env
  <2>1. CASE UNCHANGED vars \/ Stop \/ Report \/ Finished
    BY <2>1 DEF vars, Stop, Report, Finished
  <2>2. CASE Decode
    <3>1. Len(dbg') = Len(dbg) + 1 /\ last' = last /\ silent' = 0
      BY <2>2 DEF Decode
    <3> QED
      BY <3>1
  <2>3. CASE Poll
    <3>1. /\ last' = Len(dbg) /\ silent' = silent + 1 /\ dbg' = dbg /\ pc = "poll"
          /\ stable' = IF Len(dbg) = last THEN stable + 1 ELSE 0
      BY <2>3 DEF Poll, StableAfter
    <3> QED
      BY <3>1
  <2>4. CASE Tally
    BY <2>4 DEF Tally
  <2>5. QED
    BY <2>1, <2>2, <2>3, <2>4 DEF Next
<1>3. DInv /\ InStep => QuietEnds
  BY Bounds DEF DInv, Typed, InStep, QuietEnds
<1>4. QED
  BY <1>1, <1>2, <1>3, SpecDInv, PTL DEF Spec

-----------------------------------------------------------------------------
(* The tally, message by message.                                          *)
Upto(kind, m) == {j \in 1 .. m : dbg[j] = kind}
Count(kind) == Cardinality(Upto(kind, n))

Counted ==
  pc \in {"poll", "stopping", "tally", "report"} =>
    /\ pass = Count("good") /\ fail = Count("bad")
    /\ tool = "fec_diag" => ghosts = Count("ghost") /\ Len(given) = pass + fail
    /\ tool = "survivor_hist" => Len(given) = fail

LEMMA CountNone ==
  ASSUME n = 0, NEW kind
  PROVE  Count(kind) = 0
<1>1. Upto(kind, 0) = {}
  BY DEF Upto
<1>2. QED
  BY <1>1, FS_EmptySet DEF Count

LEMMA CountOne ==
  ASSUME DInv, n < Len(dbg), NEW kind
  PROVE  Cardinality(Upto(kind, n + 1)) =
           IF dbg[n + 1] = kind THEN Count(kind) + 1 ELSE Count(kind)
<1>1. n \in Nat /\ n + 1 \notin Upto(kind, n)
  BY DEF DInv, Tallied, Upto
<1>2. IsFiniteSet(Upto(kind, n))
  <2>1. IsFiniteSet(1 .. n)
    BY <1>1, FS_Interval
  <2> QED
    BY <2>1, FS_Subset DEF Upto
<1>3. Upto(kind, n + 1) = IF dbg[n + 1] = kind THEN Upto(kind, n) \cup {n + 1} ELSE Upto(kind, n)
  BY <1>1 DEF Upto
<1>4. Cardinality(Upto(kind, n) \cup {n + 1}) = Cardinality(Upto(kind, n)) + 1
  BY <1>1, <1>2, FS_AddElement
<1>5. QED
  BY <1>3, <1>4 DEF Count

LEMMA StepCounted ==
  ASSUME DInv, Counted, [Next]_vars
  PROVE  Counted'
<1>0. Tallied'
  BY StepTallied
<1>1. CASE UNCHANGED vars \/ Stop \/ Report \/ Finished \/ Poll
  <2>1. UNCHANGED <<tool, dbg, tallies>> /\ (pc' # "crashed" => pc # "crashed")
    BY <1>1 DEF vars, Stop, Report, Finished, Poll, env, tallies
  <2>2. \A kind : Count(kind)' = Count(kind)
    BY <2>1 DEF Count, Upto, tallies
  <2> QED
    BY <2>1, <2>2, <1>1 DEF Counted, DInv, Typed, tallies, Finished, vars, Stop, Report, Poll
<1>2. CASE Decode
  <2>1. UNCHANGED <<tool, tallies>> /\ n = 0 /\ pc \in {"poll", "stopping"}
    BY <1>2 DEF Decode, env, DInv, Tallied
  <2>2. \A kind : Count(kind) = 0 /\ Count(kind)' = 0
    <3>1. n' = 0
      BY <2>1 DEF tallies
    <3>2. \A kind : Upto(kind, n) = {} /\ Upto(kind, n)' = {}
      BY <2>1, <3>1 DEF Upto
    <3> QED
      BY <3>2, FS_EmptySet DEF Count
  <2> QED
    BY <2>1, <2>2 DEF Counted, tallies
<1>3. CASE Tally
  <2> DEFINE kk == dbg[n + 1]
  <2>1. /\ pc = "tally" /\ n < Len(dbg) /\ n' = n + 1 /\ UNCHANGED <<tool, tagged, dbg>>
        /\ ghosts' = ghosts + (IF kk = "ghost" /\ tool = "fec_diag" THEN 1 ELSE 0)
    BY <1>3 DEF Tally, env
  <2>2. kk \in Kinds /\ {pass, fail, ghosts} \subseteq Nat /\ given \in Seq(Kinds)
    BY <2>1 DEF DInv, Typed, Tallied
  <2>3. \A kind : Count(kind)' = IF kk = kind THEN Count(kind) + 1 ELSE Count(kind)
    <3>1. ASSUME NEW kind PROVE Count(kind)' = Cardinality(Upto(kind, n + 1))
      BY <2>1 DEF Count, Upto
    <3> QED
      BY <2>1, <3>1, CountOne
  <2>4. CASE Skipped(kk)
    <3>1. UNCHANGED <<pass, fail, given>> /\ kk # "good" /\ kk # "bad"
      BY <1>3, <2>4 DEF Tally, Skipped
    <3> QED
      BY <2>1, <2>2, <2>3, <3>1 DEF Counted
  <2>5. CASE ~Skipped(kk) /\ kk = "untagged"
    <3>1. pc' = "crashed"
      BY <1>3, <2>5 DEF Tally
    <3> QED
      BY <3>1 DEF Counted
  <2>6. CASE ~Skipped(kk) /\ kk # "untagged"
    <3>1. kk \in {"good", "bad"}
      BY <2>2, <2>6 DEF Kinds, Skipped
    <3>2. /\ pass' = pass + (IF kk = "good" THEN 1 ELSE 0)
          /\ fail' = fail + (IF kk = "good" THEN 0 ELSE 1)
          /\ given' = IF HandedOn(kk) THEN Append(given, kk) ELSE given
      BY <1>3, <2>6 DEF Tally
    <3>3. Len(given') = IF tool = "fec_diag" \/ kk # "good" THEN Len(given) + 1 ELSE Len(given)
      BY <2>2, <3>2 DEF HandedOn
    <3>4. Len(given) \in Nat
      BY <2>2
    <3>5. Count("ghost")' = Count("ghost") /\ ghosts' = ghosts
      BY <2>1, <2>2, <2>3, <3>1
    <3>6. Count("good")' = Count("good") + (IF kk = "good" THEN 1 ELSE 0)
      <4>1. pass = Count("good")
        BY <2>1 DEF Counted
      <4>2. Count("good") \in Nat
        BY <4>1, <2>2
      <4> QED
        BY <2>3, <4>2
    <3>7. Count("bad")' = Count("bad") + (IF kk = "good" THEN 0 ELSE 1)
      <4>1. fail = Count("bad")
        BY <2>1 DEF Counted
      <4>2. Count("bad") \in Nat
        BY <4>1, <2>2
      <4> QED
        BY <2>3, <3>1, <4>2
    <3>8. /\ pass = Count("good") /\ fail = Count("bad")
          /\ tool = "fec_diag" => ghosts = Count("ghost") /\ Len(given) = pass + fail
          /\ tool = "survivor_hist" => Len(given) = fail
      BY <2>1 DEF Counted
    <3>9. pass' = Count("good")' /\ fail' = Count("bad")'
      BY <3>2, <3>6, <3>7, <3>8
    <3>10. tool' = "fec_diag" => ghosts' = Count("ghost")' /\ Len(given') = pass' + fail'
      <4> SUFFICES ASSUME tool = "fec_diag"
                   PROVE  ghosts' = Count("ghost")' /\ Len(given') = pass' + fail'
        BY <2>1
      <4>1. Len(given') = Len(given) + 1 /\ Len(given) = pass + fail
        BY <3>3, <3>8
      <4>2. pass' + fail' = pass + fail + 1
        BY <2>2, <3>2
      <4> QED
        BY <3>4, <3>5, <3>8, <4>1, <4>2
    <3>11. tool' = "survivor_hist" => Len(given') = fail'
      BY <2>1, <2>2, <3>1, <3>2, <3>3, <3>4, <3>8
    <3> QED
      BY <3>9, <3>10, <3>11 DEF Counted
  <2>7. QED
    BY <2>4, <2>5, <2>6
<1>4. QED
  BY <1>1, <1>2, <1>3 DEF Next

(* The whole list has been tallied when the report is printed.             *)
Complete == pc = "report" => n = Len(dbg)

(* TallyAddsUp holds for every capture and any interleaving of polls and   *)
(* decoded frames.                                                         *)
THEOREM TallyIsExact == Spec => []TallyAddsUp
<1>1. Init => Counted /\ Complete
  BY CountNone DEF Init, Counted, Complete
<1>2. DInv /\ Counted /\ [Next]_vars => Counted'
  BY StepCounted
<1>3. DInv /\ Complete /\ [Next]_vars => Complete'
  BY DEF DInv, Typed, Complete, Next, Decode, Poll, Stop, Tally, Report, Finished, vars, env, tallies
<1>4. Counted /\ Complete => TallyAddsUp
  BY DEF Counted, Complete, TallyAddsUp, Count, Upto, Stored
<1>5. QED
  BY <1>1, <1>2, <1>3, <1>4, SpecDInv, PTL DEF Spec
=============================================================================
