----------------------------- MODULE DrainPoll -----------------------------
(***************************************************************************)
(* The offline FEC diagnostics iq_fec_diag.py and survivor_hist.py: replay *)
(* a capture through the receiver, poll the number of decoded messages     *)
(* once a second until it stops growing, stop the flowgraph, and tally     *)
(* what was stored.  Polling runs beside the decoder, which may pause for  *)
(* any number of seconds (the soft decoder) and goes on until the          *)
(* flowgraph stops.                                                        *)
(***************************************************************************)
EXTENDS Integers, Sequences, FiniteSets

CONSTANTS
  NMsgs,      \* messages the whole capture decodes to
  Cap,        \* most polls (120 or 140)
  Patience    \* unchanged polls that end the loop (4)

ASSUME PollAssumption ==
  /\ NMsgs \in Nat
  /\ Cap \in Nat \ {0}
  /\ Patience \in Nat \ {0}

VARIABLES
  tool,     \* which script runs: "fec_diag" or "survivor_hist"
  tagged,   \* does decode_mac attach a crc_ok tag to every frame?
  pc,       \* poll, stopping, tally, report, crashed
  dbg,      \* stored messages, by kind
  last,     \* count at the last poll that saw growth, -1 before the first
  stable,   \* polls since then
  polls,    \* polls made
  silent,   \* polls since the decoder stored its last message
  paused,   \* history: was one with work left silent for more than Patience polls?
  n,        \* messages tallied
  pass, fail, ghosts,
  given     \* frames handed on: to the FEC receiver, or into the histogram

env == <<tool, tagged>>
vars == <<env, pc, dbg, last, stable, polls, silent, paused, n, pass, fail, ghosts, given>>
tallies == <<n, pass, fail, ghosts, given>>

(* What the loop over the messages tells apart: not a byte vector, a       *)
(* legacy frame (encoding < 8), too short for a header and a sub-block, a  *)
(* body without a single sub-block slot (only survivor_hist looks), FCS    *)
(* good, FCS bad, no FCS tag.                                              *)
Kinds == {"nonvector", "ghost", "short"}
           \cup (IF tool = "survivor_hist" THEN {"noblocks"} ELSE {})
           \cup (IF tagged THEN {"good", "bad"} ELSE {"untagged"})

Init ==
  /\ tool \in {"fec_diag", "survivor_hist"}
  /\ tagged \in BOOLEAN
  /\ pc = "poll"
  /\ dbg = <<>>
  /\ last = -1
  /\ stable = 0
  /\ polls = 0
  /\ silent = 0
  /\ paused = FALSE
  /\ n = 0
  /\ pass = 0
  /\ fail = 0
  /\ ghosts = 0
  /\ given = <<>>

(* The receiver (external) decodes one more frame of the file.             *)
Decode ==
  /\ pc \in {"poll", "stopping"}
  /\ Len(dbg) < NMsgs
  /\ \E k \in Kinds : dbg' = Append(dbg, k)
  /\ silent' = 0
  /\ UNCHANGED <<env, pc, last, stable, polls, paused, tallies>>

(* How long the count has been stable, seeing it at cur; and when the loop *)
(* is left.  In the faulty variant growth does not reset the count of      *)
(* silent polls.                                                           *)
StableAfterNoReset(cur) == IF cur = last THEN stable + 1 ELSE stable
StableAfter(cur) == IF cur = last THEN stable + 1 ELSE 0
Enough(st) == st >= Patience

(* Faulty variant of Poll: the count seen is never remembered, so no poll  *)
(* finds it unchanged and only the cap ends the loop.                      *)
PollForgets ==
  /\ pc = "poll"
  /\ polls' = polls + 1
  /\ silent' = silent + 1
  /\ paused' = (paused \/ (Len(dbg) < NMsgs /\ silent' > Patience))
  /\ last' = -1
  /\ stable' = 0
  /\ pc' = IF polls' = Cap THEN "stopping" ELSE "poll"
  /\ UNCHANGED <<env, dbg, tallies>>

(* One turn of the polling loop, a second after the turn before.           *)
Poll ==
  /\ pc = "poll"
  /\ polls' = polls + 1
  /\ silent' = silent + 1
  /\ paused' = (paused \/ (Len(dbg) < NMsgs /\ silent' > Patience))
  /\ last' = Len(dbg)
  /\ stable' = StableAfter(Len(dbg))
  /\ pc' = IF Enough(stable') \/ polls' = Cap THEN "stopping" ELSE "poll"
  /\ UNCHANGED <<env, dbg, tallies>>

(* stop() and wait(); the messages are counted again afterwards.           *)
Stop ==
  /\ pc = "stopping"
  /\ pc' = "tally"
  /\ UNCHANGED <<env, dbg, last, stable, polls, silent, paused, tallies>>

(* Faulty variant: the legacy ghosts are not dropped.                      *)
SkippedNoGhost(k) == k \in {"nonvector", "short", "noblocks"}

Skipped(k) == k \in {"nonvector", "ghost", "short", "noblocks"}

(* Is a tallied message handed on?                                         *)
HandedOn(k) == tool = "fec_diag" \/ k # "good"

(* One turn of the loop over the stored messages.                          *)
Tally ==
  /\ pc = "tally"
  /\ n < Len(dbg)
  /\ LET k == dbg[n + 1] IN
       /\ n' = n + 1
       /\ ghosts' = ghosts + (IF k = "ghost" /\ tool = "fec_diag" THEN 1 ELSE 0)
       /\ IF Skipped(k)
          THEN UNCHANGED <<pc, pass, fail, given>>
          ELSE IF k = "untagged"     \* to_bool(PMT_NIL) raises
          THEN pc' = "crashed" /\ UNCHANGED <<pass, fail, given>>
          ELSE /\ pass' = pass + (IF k = "good" THEN 1 ELSE 0)
               /\ fail' = fail + (IF k = "good" THEN 0 ELSE 1)
               /\ given' = IF HandedOn(k) THEN Append(given, k) ELSE given
               /\ UNCHANGED pc
  /\ UNCHANGED <<env, dbg, last, stable, polls, silent, paused>>

Report ==
  /\ pc = "tally"
  /\ n = Len(dbg)
  /\ pc' = "report"
  /\ UNCHANGED <<env, dbg, last, stable, polls, silent, paused, tallies>>

Finished == pc \in {"report", "crashed"} /\ UNCHANGED vars

Next == Decode \/ Poll \/ Stop \/ Tally \/ Report \/ Finished

Spec == Init /\ [][Next]_vars

-----------------------------------------------------------------------------
(* Type correctness.                                                       *)
TypeOK ==
  /\ pc \in {"poll", "stopping", "tally", "report", "crashed"}
  /\ dbg \in Seq(Kinds)
  /\ last \in -1 .. NMsgs
  /\ stable \in 0 .. Patience
  /\ polls \in 0 .. Cap
  /\ silent \in 0 .. Cap
  /\ paused \in BOOLEAN
  /\ n \in 0 .. Len(dbg)
  /\ tool \in {"fec_diag", "survivor_hist"} /\ tagged \in BOOLEAN
  /\ {pass, fail, ghosts} \subseteq Nat
  /\ given \in Seq(Kinds)

(* The tally is about the whole capture: when the report is printed, every *)
(* frame the file decodes to has been stored, unless the poll cap was hit  *)
(* or the decoder, with work left, stored nothing for more than Patience   *)
(* polls (comment of main() in iq_fec_diag.py, "poll to completion").      *)
(* Shorter pauses, however many, never end the loop.                       *)
PolledToCompletion ==
  pc = "report" /\ polls < Cap /\ ~paused => Len(dbg) = NMsgs

(* Nor does it poll in vain: a decoder that has gone silent, its work done *)
(* or not, is polled Patience times and once more to find that out, and no *)
(* further, however growth and polls were interleaved before.              *)
QuietEnds == pc = "poll" => silent <= Patience

(* Nothing is tallied twice or lost on the way: at the report the counts   *)
(* are those of the stored frames by their FCS, legacy ghosts and stubs    *)
(* never enter them, and the frames handed on are the ones the headline    *)
(* ratio divides by.                                                       *)
Stored(k) == Cardinality({j \in 1 .. Len(dbg) : dbg[j] = k})
TallyAddsUp ==
  pc = "report" =>
    /\ pass = Stored("good") /\ fail = Stored("bad")
    /\ tool = "fec_diag" => ghosts = Stored("ghost") /\ Len(given) = pass + fail
    /\ tool = "survivor_hist" => Len(given) = fail
=============================================================================
