------------------------------ MODULE FusedFec ------------------------------
(***************************************************************************)
(* The fused-FEC experiment of fused_fec_rung1.py: MSDU bodies, each made  *)
(* of CRC-protected sub-blocks that carry one Reed-Solomon symbol, cross   *)
(* a noisy 802.11 link; two receivers then post-process the SAME captured  *)
(* frames and a verdict compares them.  The receiver called "baseline"     *)
(* drops a frame whose FCS failed, the one called "sbi" keeps it and       *)
(* salvages the sub-blocks whose own CRC still holds.                      *)
(*                                                                         *)
(* A symbol is a pair <<block, index>>; payload bytes are not modelled.    *)
(* The PHY and decode_mac, and the decoder of stream_fec (a block is       *)
(* recovered at its K-th distinct symbol), live outside the repository and *)
(* are modelled from how the script uses them.                             *)
(***************************************************************************)
EXTENDS Integers, Sequences, FiniteSets

CONSTANTS
  NBlocks,      \* RS blocks sent                            (--n-blocks)
  K,            \* source symbols per block                  (--k)
  N,            \* symbols per block, source plus repair     (k + repair_count)
  Packings      \* sub-blocks packed into one 802.11 body    (--blocks-per-body)

ASSUME FecAssumption ==
  /\ NBlocks \in Nat \ {0}
  /\ K \in Nat \ {0}
  /\ N \in Nat
  /\ K <= N
  /\ Packings \subseteq Nat \ {0}

Blocks == 1 .. NBlocks
Symbols == Blocks \X (1 .. N)
Receivers == {"baseline", "sbi"}
Tags == {"ok", "bad", "absent"}
Verdicts == {"INCONCLUSIVE", "PASS", "PASS_NO_CONTRAST", "FAIL"}
None == "none"

VARIABLES
  perBody,  \* the packing chosen on the command line
  pc,       \* where main() is: post, drain, collect, baseline, sbi, judge, done
  posted,   \* bodies handed to the MAC so far
  air,      \* bodies inside the running flowgraph, oldest first
  tagging,  \* does decode_mac surface FCS failures, with a crc_ok tag?
  dbg,      \* the message_debug store: decoded frames in order of arrival
  i,        \* index of the message or frame a loop has handled last
  rx,       \* captured frames: the surviving symbols and the FCS outcome
  nCorrupt, \* FCS-failed frames among them
  dec,      \* per receiver: its decoder's symbols and results
  salvaged, \* sub-blocks sbi took from FCS-failed frames
  result    \* the verdict printed

vars == <<perBody, pc, posted, air, tagging, dbg, i, rx, nCorrupt, dec,
          salvaged, result>>

(* The bodies pack() makes of one block's envelopes, in the order they are *)
(* posted: body p of the whole run holds up to perBody consecutive symbols.*)
BodiesPerBlock == (N + perBody - 1) \div perBody
NBodies == NBlocks * BodiesPerBlock
BodySymbols(p) ==
  LET b == 1 + (p - 1) \div BodiesPerBlock
      j == (p - 1) % BodiesPerBlock
  IN  {b} \X {x \in 1 .. N : j * perBody < x /\ x <= (j + 1) * perBody}

Messages == [syms : SUBSET Symbols, crc : Tags, usable : BOOLEAN]
Frames == [syms : SUBSET Symbols, ok : BOOLEAN]
NewDecoder == [got |-> {}, blocks |-> 0, pkts |-> {}]

Init ==
  /\ perBody \in Packings
  /\ pc = "post"
  /\ posted = 0
  /\ air = <<>>
  /\ tagging \in BOOLEAN
  /\ dbg = <<>>
  /\ i = 0
  /\ rx = <<>>
  /\ nCorrupt = 0
  /\ dec = [r \in Receivers |-> NewDecoder]
  /\ salvaged = 0
  /\ result = None

-----------------------------------------------------------------------------
(* The transmitting side of main(): one body per post_ms, then the drain.  *)

Post ==
  /\ pc = "post"
  /\ posted < NBodies
  /\ posted' = posted + 1
  /\ air' = Append(air, posted + 1)
  /\ UNCHANGED <<perBody, pc, tagging, dbg, i, rx, nCorrupt, dec, salvaged, result>>

StartDrain ==
  /\ pc = "post"
  /\ posted = NBodies
  /\ pc' = "drain"
  /\ UNCHANGED <<perBody, posted, air, tagging, dbg, i, rx, nCorrupt, dec, salvaged, result>>

(* The one-second sleep is not synchronised with the flowgraph: stop() may *)
(* find frames still inside it, and they are lost.                         *)
Stop ==
  /\ pc = "drain"
  /\ pc' = "collect"
  /\ air' = <<>>
  /\ UNCHANGED <<perBody, posted, tagging, dbg, i, rx, nCorrupt, dec, salvaged, result>>

-----------------------------------------------------------------------------
(* The channel, the PHY receiver and decode_mac (external).  A body is     *)
(* lost, decoded, or fails its FCS with any subset of its sub-blocks       *)
(* intact; a damaged SIGNAL field can also leave a frame too short to have *)
(* a body.  Without tagging only FCS-clean frames surface, untagged.       *)

Receiving == pc \in {"post", "drain"} /\ air # <<>>

Deliver(m) ==
  /\ air' = Tail(air)
  /\ dbg' = Append(dbg, m)
  /\ UNCHANGED <<perBody, pc, posted, tagging, i, rx, nCorrupt, dec, salvaged, result>>

Lose ==
  /\ Receiving
  /\ air' = Tail(air)
  /\ UNCHANGED <<perBody, pc, posted, tagging, dbg, i, rx, nCorrupt, dec, salvaged, result>>

RecvClean ==
  /\ Receiving
  /\ Deliver([syms |-> BodySymbols(Head(air)),
              crc |-> IF tagging THEN "ok" ELSE "absent",
              usable |-> TRUE])

RecvCorrupt ==
  /\ Receiving
  /\ tagging
  /\ \E s \in SUBSET BodySymbols(Head(air)) :
       Deliver([syms |-> s, crc |-> "bad", usable |-> TRUE])

RecvShort ==
  /\ Receiving
  /\ tagging
  /\ Deliver([syms |-> {}, crc |-> "bad", usable |-> FALSE])

-----------------------------------------------------------------------------
(* main() after tb.stop(): one pass over the stored messages, then the two *)
(* receivers one after the other over the same list, then the verdict.     *)

CrcOk(m) == m.crc # "bad"    \* a missing tag counts as a good FCS

(* Faulty variant: a failed FCS is counted before the length check.        *)
CollectCountsFirst ==
  /\ pc = "collect"
  /\ i < Len(dbg)
  /\ LET m == dbg[i + 1] IN
       /\ rx' = IF m.usable
                THEN Append(rx, [syms |-> m.syms, ok |-> CrcOk(m)])
                ELSE rx
       /\ nCorrupt' = IF ~CrcOk(m) THEN nCorrupt + 1 ELSE nCorrupt
  /\ i' = i + 1
  /\ UNCHANGED <<perBody, pc, posted, air, tagging, dbg, dec, salvaged, result>>

Collect ==
  /\ pc = "collect"
  /\ i < Len(dbg)
  /\ LET m == dbg[i + 1] IN
       /\ rx' = IF m.usable
                THEN Append(rx, [syms |-> m.syms, ok |-> CrcOk(m)])
                ELSE rx
       /\ nCorrupt' = IF m.usable /\ ~CrcOk(m) THEN nCorrupt + 1 ELSE nCorrupt
  /\ i' = i + 1
  /\ UNCHANGED <<perBody, pc, posted, air, tagging, dbg, dec, salvaged, result>>

EndCollect ==
  /\ pc = "collect"
  /\ i = Len(dbg)
  /\ pc' = "baseline"
  /\ i' = 0
  /\ UNCHANGED <<perBody, posted, air, tagging, dbg, rx, nCorrupt, dec, salvaged, result>>

(* Blocks that a set of symbols determines, and the packets they carry.    *)
Indices(S, b) == {x \in 1 .. N : <<b, x>> \in S}
(* Faulty variant: one symbol more than K is asked for.                    *)
FullOffByOne(S) == {b \in Blocks : Cardinality(Indices(S, b)) > K}

Full(S) == {b \in Blocks : Cardinality(Indices(S, b)) >= K}
Packets(B) == B \X (1 .. K)

(* Faulty variant: a frame's symbols replace the earlier ones.             *)
AddSymbolsPerFrame(d, S) ==
  LET new == Full(S) \ Full(d.got)
  IN  [got |-> S,
       blocks |-> d.blocks + Cardinality(new),
       pkts |-> d.pkts \cup Packets(new)]

(* What add_symbol() does to a decoder for a whole frame's survivors.      *)
AddSymbols(d, S) ==
  LET new == Full(d.got \cup S) \ Full(d.got)
  IN  [got |-> d.got \cup S,
       blocks |-> d.blocks + Cardinality(new),
       pkts |-> d.pkts \cup Packets(new)]

(* Faulty variant: sbi works on the FCS-failed frames only.                *)
AcceptsCorruptOnly(r, f) == IF r = "sbi" THEN ~f.ok ELSE f.ok

Accepts(r, f) == f.ok \/ r = "sbi"      \* keep_corrupt is FALSE for baseline

(* Faulty variant: salvaged sub-blocks are counted in the good frames.     *)
BridgeCountsClean(r) ==
  /\ pc = r
  /\ i < Len(rx)
  /\ LET f == rx[i + 1] IN
       /\ dec' = IF Accepts(r, f)
                 THEN [dec EXCEPT ![r] = AddSymbols(@, f.syms)]
                 ELSE dec
       /\ salvaged' = IF Accepts(r, f) /\ f.ok
                      THEN salvaged + Cardinality(f.syms)
                      ELSE salvaged
  /\ i' = i + 1
  /\ UNCHANGED <<perBody, pc, posted, air, tagging, dbg, rx, nCorrupt, result>>

Bridge(r) ==
  /\ pc = r
  /\ i < Len(rx)
  /\ LET f == rx[i + 1] IN
       /\ dec' = IF Accepts(r, f)
                 THEN [dec EXCEPT ![r] = AddSymbols(@, f.syms)]
                 ELSE dec
       /\ salvaged' = IF Accepts(r, f) /\ ~f.ok
                      THEN salvaged + Cardinality(f.syms)
                      ELSE salvaged
  /\ i' = i + 1
  /\ UNCHANGED <<perBody, pc, posted, air, tagging, dbg, rx, nCorrupt, result>>

(* Faulty variant: sbi goes on where the baseline stopped reading.         *)
EndBridgeKeepsCursor(r) ==
  /\ pc = r
  /\ i = Len(rx)
  /\ pc' = IF r = "baseline" THEN "sbi" ELSE "judge"
  /\ UNCHANGED <<perBody, posted, air, tagging, dbg, i, rx, nCorrupt, dec, salvaged, result>>

EndBridge(r) ==
  /\ pc = r
  /\ i = Len(rx)
  /\ pc' = IF r = "baseline" THEN "sbi" ELSE "judge"
  /\ i' = 0
  /\ UNCHANGED <<perBody, posted, air, tagging, dbg, rx, nCorrupt, dec, salvaged, result>>

Gain == dec["sbi"].blocks - dec["baseline"].blocks

NeverWorse ==
  /\ dec["baseline"].pkts \subseteq dec["sbi"].pkts
  /\ dec["sbi"].blocks >= dec["baseline"].blocks

Judge ==
  /\ pc = "judge"
  /\ pc' = "done"
  /\ result' = CASE nCorrupt = 0            -> "INCONCLUSIVE"
                 [] nCorrupt # 0 /\ NeverWorse /\ Gain > 0 -> "PASS"
                 [] nCorrupt # 0 /\ NeverWorse /\ Gain <= 0 -> "PASS_NO_CONTRAST"
                 [] nCorrupt # 0 /\ ~NeverWorse -> "FAIL"
  /\ UNCHANGED <<perBody, posted, air, tagging, dbg, i, rx, nCorrupt, dec, salvaged>>

Finished ==        \* the script has exited
  /\ pc = "done"
  /\ UNCHANGED vars

Main ==
  \/ Post
  \/ StartDrain
  \/ Stop
  \/ Collect
  \/ EndCollect
  \/ \E r \in Receivers : Bridge(r) \/ EndBridge(r)
  \/ Judge

Link == Lose \/ RecvClean \/ RecvCorrupt \/ RecvShort

Next == Main \/ Link \/ Finished

Spec == Init /\ [][Next]_vars

-----------------------------------------------------------------------------
(* Type correctness.                                                       *)
TypeOK ==
  /\ perBody \in Packings
  /\ pc \in {"post", "drain", "collect", "baseline", "sbi", "judge", "done"}
  /\ posted \in 0 .. NBodies
  /\ air \in Seq(1 .. NBodies)
  /\ tagging \in BOOLEAN
  /\ dbg \in Seq(Messages)
  /\ i \in Nat
  /\ rx \in Seq(Frames)
  /\ nCorrupt \in Nat
  /\ dec \in [Receivers -> [got : SUBSET Symbols, blocks : Nat,
                           pkts : SUBSET (Blocks \X (1 .. K))]]
  /\ salvaged \in Nat
  /\ result \in Verdicts \cup {None}

(* What a receiver has been given by the first n captured frames.          *)
UpTo(r, n) == UNION {rx[j].syms : j \in {j2 \in 1 .. n : Accepts(r, rx[j2])}}

(* How far receiver r has read the capture: each reads all of it, and      *)
(* "sbi" starts over when "baseline" is through.                           *)
Progress(r) ==
  IF pc = r THEN i
  ELSE IF pc \in {"judge", "done"} \/ (pc = "sbi" /\ r = "baseline") THEN Len(rx)
  ELSE 0

(* Both receivers work on the SAME capture (docstring, "Two receivers      *)
(* post-process the SAME captured frames"): a decoder holds exactly the    *)
(* symbols of the accepted frames it has read, its packet set and block    *)
(* counter are those of the blocks these symbols complete.                 *)
SameCapture ==
  \A r \in Receivers :
    /\ dec[r].got = UpTo(r, Progress(r))
    /\ dec[r].blocks = Cardinality(Full(dec[r].got))
    /\ dec[r].pkts = Packets(Full(dec[r].got))

(* Keeping corrupt frames never loses anything the baseline had, so the    *)
(* verdict FAIL of main() is unreachable.                                  *)
SbiNeverWorse == result # "FAIL"

(* A gain is earned: each block sbi decodes beyond the baseline takes at   *)
(* least one sub-block salvaged from an FCS-failed frame, and a PASS is    *)
(* only reported when such frames were captured.                           *)
GainEarned ==
  /\ pc \in {"judge", "done"} => Gain <= salvaged
  /\ result = "PASS" => nCorrupt > 0 /\ salvaged > 0

(* The run is inconclusive exactly when no captured frame has a failed FCS,*)
(* so in particular always with a decoder that does not surface them.      *)
InconclusiveIffNoCorrupt ==
  result # None =>
    (result = "INCONCLUSIVE" <=> \A n \in 1 .. Len(rx) : rx[n].ok)

(* With a whole block in one frame (the default) one frame decides over a  *)
(* block: the baseline recovers it exactly when a frame of it came through *)
(* with a good FCS, sbi exactly when one came through with at most the N-K *)
(* repair symbols missing (docstring, "only the 1-2 genuinely-corrupt      *)
(* symbols are lost").                                                     *)
OneFrameOneBlock ==
  perBody >= N /\ pc = "done" =>
    \A b \in Blocks :
      /\ Packets({b}) \subseteq dec["baseline"].pkts
           <=> \E n \in 1 .. Len(rx) : rx[n].ok /\ rx[n].syms = {b} \X (1 .. N)
      /\ Packets({b}) \subseteq dec["sbi"].pkts
           <=> \E n \in 1 .. Len(rx) :
                 Cardinality(({b} \X (1 .. N)) \ rx[n].syms) <= N - K

-----------------------------------------------------------------------------
(* The refinement of SalvageSpec: the abstract capture is what the         *)
(* message_debug store holds for each receiver.                            *)

StoredFor(r, n) ==
  UNION {dbg[j].syms : j \in {j2 \in 1 .. n :
           dbg[j2].usable /\ (CrcOk(dbg[j2]) \/ r = "sbi")}}

StoredCorrupt(n) == \E j \in 1 .. n : dbg[j].usable /\ ~CrcOk(dbg[j])

Promise == INSTANCE SalvageSpec WITH
  clean <- StoredFor("baseline", Len(dbg)),
  kept <- StoredFor("sbi", Len(dbg)),
  corrupt <- StoredCorrupt(Len(dbg)),
  verdict <- result

(* The loops, the cursor and the incremental decoders of main() compute    *)
(* the declarative comparison of SalvageSpec.                              *)
ImplementsPromise == Promise!Spec
=============================================================================
