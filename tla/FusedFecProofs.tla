--------------------------- MODULE FusedFecProofs ---------------------------
(***************************************************************************)
(* Theorems about FusedFec for every number of blocks, every code (K, N)   *)
(* and every packing: its safety properties, and that it implements        *)
(* SalvageSpec.  The argument goes from the message_debug store to the     *)
(* verdict: the list of frames stands for the store (Collected), a decoder *)
(* holds what the frames it has read gave it (SameCapture), the sub-blocks *)
(* counted as salvaged bound what sbi has beyond the baseline              *)
(* (SalvageCounted), no body is captured twice and a good one is whole     *)
(* (CapturedOnce, WholeFrames), and the verdict says what was compared     *)
(* (Decided).                                                              *)
(***************************************************************************)
EXTENDS FusedFec, FiniteSetTheorems, SequenceTheorems, TLAPS

-----------------------------------------------------------------------------
(* Facts about symbols, blocks and bodies.                                 *)

(* Everything that is counted is finite.                                   *)
LEMMA FiniteCode ==
  /\ IsFiniteSet(Blocks)
  /\ IsFiniteSet(1 .. N)
  /\ IsFiniteSet(Symbols)
<1>1. IsFiniteSet(Blocks)
  BY FecAssumption, FS_Interval DEF Blocks
<1>2. IsFiniteSet(1 .. N)
  BY FecAssumption, FS_Interval
<1>3. QED
  BY <1>1, <1>2, FS_Product DEF Symbols

(* The option --blocks-per-body is a positive number.                      *)
LEMMA PackingPositive ==
  ASSUME perBody \in Packings
  PROVE  perBody \in Nat /\ perBody > 0
BY FecAssumption

(* A body posted by the script holds symbols of an existing block.         *)
LEMMA BodyIsSymbols ==
  ASSUME perBody \in Packings, NEW p \in 1 .. NBodies
  PROVE  BodySymbols(p) \in SUBSET Symbols
<1> DEFINE q == (p - 1) \div BodiesPerBlock
<1>1. BodiesPerBlock \in Nat \ {0}
  BY PackingPositive, FecAssumption DEF BodiesPerBlock
<1>2. q \in Nat /\ q * BodiesPerBlock <= p - 1
  BY <1>1
<1>3. q < NBlocks
  BY <1>1, <1>2, FecAssumption DEF NBodies
<1>4. 1 + q \in Blocks
  BY <1>2, <1>3, FecAssumption DEF Blocks
<1>5. QED
  BY <1>4 DEF BodySymbols, Symbols

(* More symbols complete at least the same blocks.                         *)
LEMMA FullMonotone ==
  ASSUME NEW T \in SUBSET Symbols, NEW S \in SUBSET T
  PROVE  Full(S) \subseteq Full(T)
<1> SUFFICES ASSUME NEW b \in Full(S)
             PROVE  b \in Full(T)
  OBVIOUS
<1>1. Indices(T, b) \in SUBSET (1 .. N) /\ Indices(S, b) \in SUBSET Indices(T, b)
  BY DEF Indices
<1>2. IsFiniteSet(Indices(T, b)) /\ Cardinality(Indices(T, b)) \in Nat
  BY <1>1, FiniteCode, FS_Subset, FS_CardinalityType
<1>3. IsFiniteSet(Indices(S, b)) /\ Cardinality(Indices(S, b)) \in Nat
      /\ Cardinality(Indices(S, b)) <= Cardinality(Indices(T, b))
  BY <1>1, <1>2, FS_Subset, FS_CardinalityType
<1>4. b \in Blocks /\ Cardinality(Indices(S, b)) >= K
  BY DEF Full
<1>5. QED
  BY <1>2, <1>3, <1>4, FecAssumption DEF Full

(* Sets of completed blocks are finite, so they can be counted.            *)
LEMMA FullFinite ==
  ASSUME NEW S
  PROVE  /\ Full(S) \in SUBSET Blocks
         /\ IsFiniteSet(Full(S))
         /\ Cardinality(Full(S)) \in Nat
BY FiniteCode, FS_Subset, FS_CardinalityType DEF Full

(* Adding a frame's survivors keeps a decoder's counter and packet set in  *)
(* step with its symbols.                                                  *)
LEMMA AddSymbolsTracks ==
  ASSUME NEW d \in [got : SUBSET Symbols, blocks : Nat,
                    pkts : SUBSET (Blocks \X (1 .. K))],
         NEW S \in SUBSET Symbols,
         d.blocks = Cardinality(Full(d.got)),
         d.pkts = Packets(Full(d.got))
  PROVE  /\ AddSymbols(d, S) \in [got : SUBSET Symbols, blocks : Nat,
                                  pkts : SUBSET (Blocks \X (1 .. K))]
         /\ AddSymbols(d, S).got = d.got \cup S
         /\ AddSymbols(d, S).blocks = Cardinality(Full(d.got \cup S))
         /\ AddSymbols(d, S).pkts = Packets(Full(d.got \cup S))
<1> DEFINE old == Full(d.got)
           all == Full(d.got \cup S)
           new == all \ old
<1>1. old \subseteq all
  BY FullMonotone
<1>2. /\ IsFiniteSet(old) /\ IsFiniteSet(all)
      /\ Cardinality(old) \in Nat /\ Cardinality(all) \in Nat
      /\ old \in SUBSET Blocks /\ all \in SUBSET Blocks
  BY FullFinite
<1>3. Cardinality(new) = Cardinality(all) - Cardinality(old)
  <2>1. all \cap old = old
    BY <1>1
  <2>2. Cardinality(new) = Cardinality(all) - Cardinality(all \cap old)
    BY <1>2, FS_Difference
  <2>3. QED
    BY <2>1, <2>2
<1>4. d.blocks = Cardinality(old) /\ d.pkts = Packets(old)
  OBVIOUS
<1>5. Packets(old) \cup Packets(new) = Packets(all)
  BY <1>1 DEF Packets
<1>6. Packets(all) \in SUBSET (Blocks \X (1 .. K))
  BY <1>2 DEF Packets
<1>7. AddSymbols(d, S) = [got |-> d.got \cup S,
                          blocks |-> d.blocks + Cardinality(new),
                          pkts |-> d.pkts \cup Packets(new)]
  BY DEF AddSymbols
<1>8. d.got \cup S \in SUBSET Symbols
  OBVIOUS
<1>9. SUFFICES /\ AddSymbols(d, S) \in [got : SUBSET Symbols, blocks : Nat,
                                        pkts : SUBSET (Blocks \X (1 .. K))]
               /\ AddSymbols(d, S).got = d.got \cup S
               /\ AddSymbols(d, S).blocks = Cardinality(all)
               /\ AddSymbols(d, S).pkts = Packets(all)
  OBVIOUS
<1> HIDE DEF old, all, new
<1>10. d.blocks + Cardinality(new) = Cardinality(all)
  <2> DEFINE x == Cardinality(new)  y == Cardinality(all)  z == Cardinality(old)
  <2>1. y \in Nat /\ z \in Nat /\ x = y - z /\ d.blocks = z
    BY <1>2, <1>3, <1>4
  <2> HIDE DEF x, y, z
  <2>2. d.blocks + x = y
    BY <2>1
  <2>3. QED
    BY <2>2 DEF x, y
<1>11. AddSymbols(d, S) = [got |-> d.got \cup S,
                           blocks |-> Cardinality(all),
                           pkts |-> Packets(all)]
  BY <1>4, <1>5, <1>7, <1>10
<1>12. QED
  BY <1>2, <1>6, <1>8, <1>11

-----------------------------------------------------------------------------
(* Facts about what the capture has given a receiver.                      *)

(* Before its loop starts a receiver has been given nothing.               *)
LEMMA UpToZero == ASSUME NEW r PROVE UpTo(r, 0) = {}
BY DEF UpTo

(* The next frame adds its symbols when the receiver accepts it.           *)
LEMMA UpToNext ==
  ASSUME NEW r, NEW n \in Nat
  PROVE  UpTo(r, n + 1) =
           UpTo(r, n) \cup (IF Accepts(r, rx[n + 1]) THEN rx[n + 1].syms ELSE {})
<1>1. (1 .. n + 1) = (1 .. n) \cup {n + 1}
  OBVIOUS
<1> DEFINE J(m) == {j2 \in 1 .. m : Accepts(r, rx[j2])}
<1>2. J(n + 1) = J(n) \cup (IF Accepts(r, rx[n + 1]) THEN {n + 1} ELSE {})
  BY <1>1
<1> HIDE DEF J
<1> DEFINE Z(m) == {rx[j].syms : j \in J(m)}
<1>3. Z(n + 1) = Z(n) \cup (IF Accepts(r, rx[n + 1]) THEN {rx[n + 1].syms} ELSE {})
  BY <1>2
<1>4. UpTo(r, n + 1) = UNION Z(n + 1) /\ UpTo(r, n) = UNION Z(n)
  BY DEF UpTo, J
<1> HIDE DEF Z
<1>5. QED
  BY <1>3, <1>4

(* sbi is given everything baseline is given.                              *)
LEMMA SbiSeesMore ==
  ASSUME NEW n \in Nat
  PROVE  UpTo("baseline", n) \subseteq UpTo("sbi", n)
BY DEF UpTo, Accepts

(* Nothing but captured symbols is given to a receiver.                    *)
LEMMA UpToSymbols ==
  ASSUME rx \in Seq(Frames), NEW r, NEW n \in 0 .. Len(rx)
  PROVE  UpTo(r, n) \in SUBSET Symbols
<1> SUFFICES ASSUME NEW j \in 1 .. n
             PROVE  rx[j].syms \in SUBSET Symbols
  BY DEF UpTo
<1>1. j \in 1 .. Len(rx)
  BY LenProperties
<1>2. rx[j] \in Frames
  BY <1>1, ElementOfSeq
<1>3. QED
  BY <1>2 DEF Frames

-----------------------------------------------------------------------------
(* Type correctness.                                                       *)
LEMMA InitTyped == Init => TypeOK
<1> SUFFICES ASSUME Init PROVE TypeOK
  OBVIOUS
<1>1. NewDecoder \in [got : SUBSET Symbols, blocks : Nat,
                      pkts : SUBSET (Blocks \X (1 .. K))]
  BY DEF NewDecoder
<1>2. NBodies \in Nat
  BY PackingPositive, FecAssumption DEF Init, NBodies, BodiesPerBlock
<1>3. QED
  BY <1>1, <1>2 DEF Init, TypeOK

(* Every step of main() and of the link keeps the types.                   *)
LEMMA NextTyped == TypeOK /\ [Next]_vars => TypeOK'
<1> SUFFICES ASSUME TypeOK, [Next]_vars PROVE TypeOK'
  OBVIOUS
<1>0. NBodies \in Nat
  <2>1. perBody \in Nat /\ perBody > 0 /\ NBlocks \in Nat /\ N \in Nat
    BY PackingPositive, FecAssumption DEF TypeOK
  <2>2. BodiesPerBlock \in Nat
    BY <2>1 DEF BodiesPerBlock
  <2>3. QED
    BY <2>1, <2>2 DEF NBodies
<1>p. perBody' = perBody
  BY DEF Next, Main, Link, Finished, Post, StartDrain, Stop, Collect, EndCollect,
         Bridge, EndBridge, Judge, Lose, RecvClean, RecvCorrupt, RecvShort,
         Deliver, vars
<1>n. NBodies' = NBodies /\ perBody' \in Packings
  BY <1>p DEF NBodies, BodiesPerBlock, TypeOK
<1>1. CASE Post
  BY <1>n, <1>1, <1>0 DEF Post, TypeOK
<1>2. CASE StartDrain
  BY <1>n, <1>2 DEF StartDrain, TypeOK
<1>3. CASE Stop
  BY <1>n, <1>3 DEF Stop, TypeOK
<1>4. CASE Collect
  <2>1. dbg[i + 1] \in Messages
    BY <1>4 DEF Collect, TypeOK
  <2>2. rx' \in Seq(Frames)
    <3>1. [syms |-> dbg[i + 1].syms, ok |-> CrcOk(dbg[i + 1])] \in Frames
      BY <2>1 DEF Messages, Frames, CrcOk
    <3>2. rx \in Seq(Frames)
      BY DEF TypeOK
    <3>3. Append(rx, [syms |-> dbg[i + 1].syms, ok |-> CrcOk(dbg[i + 1])])
            \in Seq(Frames)
      BY <3>1, <3>2, AppendProperties
    <3>4. QED
      BY <1>4, <3>2, <3>3 DEF Collect
  <2>3. nCorrupt' \in Nat /\ i' \in Nat
    BY <1>4 DEF Collect, TypeOK
  <2>4. QED
    BY <1>n, <1>4, <2>2, <2>3 DEF Collect, TypeOK
<1>5. CASE EndCollect
  BY <1>n, <1>5 DEF EndCollect, TypeOK
<1>6. ASSUME NEW r \in Receivers, Bridge(r)
      PROVE  TypeOK'
  <2> DEFINE f == rx[i + 1]
  <2>1. f \in Frames
    BY <1>6 DEF Bridge, TypeOK
  <2>2. f.syms \in SUBSET Symbols
    BY <2>1 DEF Frames
  <2>3. IsFiniteSet(f.syms) /\ Cardinality(f.syms) \in Nat
    BY <2>2, FiniteCode, FS_Subset, FS_CardinalityType
  <2>4. AddSymbols(dec[r], f.syms) \in [got : SUBSET Symbols, blocks : Nat,
                                        pkts : SUBSET (Blocks \X (1 .. K))]
    <3>1. dec[r] \in [got : SUBSET Symbols, blocks : Nat,
                      pkts : SUBSET (Blocks \X (1 .. K))]
      BY <1>6 DEF TypeOK
    <3> DEFINE new == Full(dec[r].got \cup f.syms) \ Full(dec[r].got)
    <3>2. new \in SUBSET Blocks
      BY DEF Full
    <3>3. Cardinality(new) \in Nat
      BY <3>2, FiniteCode, FS_Subset, FS_CardinalityType
    <3>4. Packets(new) \in SUBSET (Blocks \X (1 .. K))
      BY <3>2 DEF Packets
    <3>5. AddSymbols(dec[r], f.syms) =
            [got |-> dec[r].got \cup f.syms,
             blocks |-> dec[r].blocks + Cardinality(new),
             pkts |-> dec[r].pkts \cup Packets(new)]
      BY DEF AddSymbols
    <3> HIDE DEF new, f
    <3>6. QED
      BY <3>1, <2>2, <3>3, <3>4, <3>5
  <2>5. dec' \in [Receivers -> [got : SUBSET Symbols, blocks : Nat,
                                pkts : SUBSET (Blocks \X (1 .. K))]]
    BY <1>6, <2>4 DEF Bridge, TypeOK
  <2>6. salvaged' \in Nat /\ i' \in Nat
    BY <1>6, <2>3 DEF Bridge, TypeOK
  <2>7. QED
    BY <1>n, <1>6, <2>5, <2>6 DEF Bridge, TypeOK
<1>7. ASSUME NEW r \in Receivers, EndBridge(r)
      PROVE  TypeOK'
  BY <1>n, <1>7 DEF EndBridge, TypeOK
<1>8. CASE Judge
  <2>1. result' \in Verdicts
    <3>1. nCorrupt = 0 \/ nCorrupt # 0
      OBVIOUS
    <3>2. Gain > 0 \/ Gain <= 0
      BY DEF Gain, TypeOK, Receivers
    <3>3. QED
      BY <1>8, <3>1, <3>2 DEF Judge, Verdicts
  <2>2. QED
    BY <1>n, <1>8, <2>1 DEF Judge, TypeOK
<1>9. ASSUME Receiving, NEW m \in Messages, Deliver(m)
      PROVE  TypeOK'
  <2>1. air' \in Seq(1 .. NBodies') /\ dbg' \in Seq(Messages)
    BY <1>n, <1>9 DEF Receiving, Deliver, TypeOK
  <2>2. QED
    BY <1>n, <1>9, <2>1 DEF Deliver, TypeOK
<1>10. CASE Lose
  BY <1>n, <1>10 DEF Lose, Receiving, TypeOK
<1>11. ASSUME Receiving
       PROVE  BodySymbols(Head(air)) \in SUBSET Symbols
  <2>1. Head(air) \in 1 .. NBodies
    BY <1>11, HeadTailProperties DEF Receiving, TypeOK
  <2>2. QED
    BY <2>1, BodyIsSymbols DEF TypeOK
<1>12. CASE RecvClean
  BY <1>9, <1>11, <1>12 DEF RecvClean, Messages, Tags
<1>13. CASE RecvCorrupt
  <2>1. PICK s \in SUBSET BodySymbols(Head(air)) :
          Deliver([syms |-> s, crc |-> "bad", usable |-> TRUE])
    BY <1>13 DEF RecvCorrupt
  <2>2. [syms |-> s, crc |-> "bad", usable |-> TRUE] \in Messages
    BY <1>11, <1>13 DEF RecvCorrupt, Messages, Tags
  <2>3. QED
    BY <1>9, <1>13, <2>1, <2>2 DEF RecvCorrupt
<1>14. CASE RecvShort
  <2>1. [syms |-> {}, crc |-> "bad", usable |-> FALSE] \in Messages
    BY DEF Messages, Tags
  <2>2. QED
    BY <1>9, <1>14, <2>1 DEF RecvShort
<1>15. CASE UNCHANGED vars
  BY <1>n, <1>15 DEF vars, TypeOK
<1>16. QED
  BY <1>1, <1>2, <1>3, <1>4, <1>5, <1>6, <1>7, <1>8, <1>10, <1>12, <1>13,
     <1>14, <1>15 DEF Next, Main, Link, Finished

(* Type correctness of fused_fec_rung1.py's variables, for every number of *)
(* blocks, code and packing.                                               *)
THEOREM TypeCorrect == Spec => []TypeOK
BY InitTyped, NextTyped, PTL DEF Spec

-----------------------------------------------------------------------------
(* Safety.  The comparison in Judge is about two decoders, so the          *)
(* induction needs what each of them holds (SameCapture), and that needs   *)
(* the loop index to stay inside the capture.                              *)
CursorOK == pc \in Receivers => i <= Len(rx)

IInv == TypeOK /\ CursorOK /\ SameCapture /\ SbiNeverWorse

(* When both receivers have read the capture, sbi is at least as good.     *)
LEMMA BothThrough ==
  ASSUME TypeOK, SameCapture, pc = "judge"
  PROVE  NeverWorse
<1> DEFINE B == UpTo("baseline", Len(rx))
           S == UpTo("sbi", Len(rx))
<1>1. Len(rx) \in Nat /\ rx \in Seq(Frames)
  BY LenProperties DEF TypeOK
<1>2. B \in SUBSET S /\ S \in SUBSET Symbols
  BY <1>1, SbiSeesMore, UpToSymbols
<1>3. /\ dec["baseline"].got = B /\ dec["sbi"].got = S
      /\ dec["baseline"].blocks = Cardinality(Full(B))
      /\ dec["sbi"].blocks = Cardinality(Full(S))
      /\ dec["baseline"].pkts = Packets(Full(B))
      /\ dec["sbi"].pkts = Packets(Full(S))
  BY DEF SameCapture, Progress, Receivers
<1> HIDE DEF B, S
<1>4. Full(B) \in SUBSET Full(S)
  BY <1>2, FullMonotone
<1>5. Cardinality(Full(B)) <= Cardinality(Full(S))
  BY <1>4, FullFinite, FS_Subset
<1>6. Cardinality(Full(B)) \in Nat /\ Cardinality(Full(S)) \in Nat
  BY FullFinite
<1>7. Packets(Full(B)) \subseteq Packets(Full(S))
  BY <1>4 DEF Packets
<1>8. QED
  BY <1>3, <1>5, <1>6, <1>7 DEF NeverWorse

(* One frame read by a receiver's loop keeps decoder and capture in step.  *)
LEMMA BridgeTracks ==
  ASSUME TypeOK, CursorOK, SameCapture, NEW r \in Receivers, Bridge(r)
  PROVE  SameCapture'
<1> DEFINE f == rx[i + 1]
<1>1. /\ pc = r /\ pc' = pc /\ rx' = rx /\ i' = i + 1 /\ i \in Nat
      /\ i < Len(rx) /\ rx \in Seq(Frames)
  BY DEF Bridge, TypeOK
<1>2. f.syms \in SUBSET Symbols
  <2>1. f \in Frames
    BY <1>1, ElementOfSeq, LenProperties
  <2>2. QED
    BY <2>1 DEF Frames
<1>3. /\ dec[r].got = UpTo(r, i)
      /\ dec[r].blocks = Cardinality(Full(dec[r].got))
      /\ dec[r].pkts = Packets(Full(dec[r].got))
  BY <1>1 DEF SameCapture, Progress
<1>5. dec'[r].got = UpTo(r, i + 1)
      /\ dec'[r].blocks = Cardinality(Full(dec'[r].got))
      /\ dec'[r].pkts = Packets(Full(dec'[r].got))
  <2>1. dec[r] \in [got : SUBSET Symbols, blocks : Nat,
                    pkts : SUBSET (Blocks \X (1 .. K))]
    BY DEF TypeOK
  <2>2. UpTo(r, i + 1) =
          UpTo(r, i) \cup (IF Accepts(r, f) THEN f.syms ELSE {})
    BY <1>1, UpToNext
  <2> HIDE DEF f
  <2>3. CASE Accepts(r, f)
    <3>1. dec'[r] = AddSymbols(dec[r], f.syms)
      BY <2>3 DEF Bridge, f, TypeOK
    <3>2. UpTo(r, i + 1) = dec[r].got \cup f.syms
      BY <1>3, <2>2, <2>3
    <3> DEFINE d == dec[r]
               S == f.syms
    <3>3. /\ d \in [got : SUBSET Symbols, blocks : Nat,
                    pkts : SUBSET (Blocks \X (1 .. K))]
          /\ S \in SUBSET Symbols
          /\ d.blocks = Cardinality(Full(d.got))
          /\ d.pkts = Packets(Full(d.got))
      BY <1>2, <1>3, <2>1
    <3> HIDE DEF d, S
    <3>4. /\ AddSymbols(d, S).got = d.got \cup S
          /\ AddSymbols(d, S).blocks = Cardinality(Full(d.got \cup S))
          /\ AddSymbols(d, S).pkts = Packets(Full(d.got \cup S))
      BY <3>3, AddSymbolsTracks
    <3>5. QED
      BY <3>1, <3>2, <3>4 DEF d, S
  <2>4. CASE ~Accepts(r, f)
    <3>1. dec'[r] = dec[r]
      BY <2>4 DEF Bridge, f
    <3>2. QED
      BY <1>3, <2>2, <2>4, <3>1
  <2>5. QED
    BY <2>3, <2>4
<1>6. \A q \in Receivers : q # r => dec'[q] = dec[q]
  BY DEF Bridge, TypeOK
<1>7. \A q \in Receivers : q # r => Progress(q)' = Progress(q)
  BY <1>1 DEF Progress, Receivers
<1>8. \A q \in Receivers, n \in Nat : UpTo(q, n)' = UpTo(q, n)
  BY <1>1 DEF UpTo, Accepts
<1>9. \A q \in Receivers : Progress(q) \in Nat
  BY <1>1, LenProperties DEF Progress, TypeOK
<1>10. Progress(r)' = i + 1
  BY <1>1 DEF Progress
<1> HIDE DEF f
<1>11. QED
  <2> SUFFICES ASSUME NEW q \in Receivers
               PROVE  /\ dec'[q].got = UpTo(q, Progress(q))'
                      /\ dec'[q].blocks = Cardinality(Full(dec'[q].got))
                      /\ dec'[q].pkts = Packets(Full(dec'[q].got))
    BY DEF SameCapture
  <2>1. CASE q = r
    BY <2>1, <1>1, <1>5, <1>8, <1>10 DEF UpTo, Accepts
  <2>2. CASE q # r
    <3>1. dec'[q] = dec[q] /\ Progress(q)' = Progress(q)
      BY <2>2, <1>6, <1>7
    <3>2. UpTo(q, Progress(q))' = UpTo(q, Progress(q))
      BY <3>1, <1>1 DEF UpTo, Accepts
    <3>3. QED
      BY <3>1, <3>2 DEF SameCapture
  <2>3. QED
    BY <2>1, <2>2

(* A step that leaves the decoders, the capture and the progress of both   *)
(* receivers alone keeps them in step.                                     *)
LEMMA SameCaptureFrame ==
  ASSUME SameCapture, UNCHANGED <<dec, rx>>,
         \A r \in Receivers : Progress(r)' = Progress(r)
  PROVE  SameCapture'
BY DEF SameCapture, UpTo, Accepts

(* Before the first loop both decoders are empty whatever is captured.     *)
LEMMA SameCaptureEarly ==
  ASSUME SameCapture, UNCHANGED dec,
         \A r \in Receivers : Progress(r) = 0 /\ Progress(r)' = 0
  PROVE  SameCapture'
<1>1. \A r \in Receivers : UpTo(r, 0) = {} /\ UpTo(r, 0)' = {}
  BY UpToZero DEF UpTo
<1>2. \A r \in Receivers : UpTo(r, Progress(r))' = UpTo(r, 0)'
  BY DEF UpTo, Accepts
<1>3. QED
  BY <1>1, <1>2 DEF SameCapture

(* The decoders always hold exactly what the capture gave them, and the    *)
(* verdict FAIL is never reached.                                          *)
THEOREM SafetyInvariant == Spec => []IInv
<1>1. Init => IInv
  <2> SUFFICES ASSUME Init, TypeOK PROVE CursorOK /\ SameCapture /\ SbiNeverWorse
    BY InitTyped DEF IInv
  <2>1. CursorOK
    BY DEF Init, CursorOK, Receivers
  <2>2. SbiNeverWorse
    BY DEF Init, SbiNeverWorse, None
  <2>3. \A r \in Receivers : Progress(r) = 0
    BY DEF Init, Progress, Receivers
  <2>4. Full({}) = {}
    BY FS_EmptySet, FecAssumption DEF Full, Indices
  <2>5. SameCapture
    BY <2>3, <2>4, UpToZero, FS_EmptySet DEF SameCapture, Init, NewDecoder, Packets
  <2>6. QED
    BY <2>1, <2>2, <2>5
<1>2. IInv /\ [Next]_vars => IInv'
  <2> SUFFICES ASSUME TypeOK, CursorOK, SameCapture, SbiNeverWorse, [Next]_vars, TypeOK'
               PROVE  CursorOK' /\ SameCapture' /\ SbiNeverWorse'
    BY NextTyped DEF IInv
  <2>1. ASSUME pc \in {"post", "drain"}, pc' \in {"post", "drain", "collect"},
               UNCHANGED <<rx, dec, result>>
        PROVE  CursorOK' /\ SameCapture' /\ SbiNeverWorse'
    <3>1. \A r \in Receivers : Progress(r) = 0 /\ Progress(r)' = 0
      BY <2>1 DEF Progress, Receivers
    <3>2. QED
      BY <2>1, <3>1, SameCaptureEarly DEF CursorOK, Receivers, SbiNeverWorse
  <2>2. CASE Post
    BY <2>1, <2>2 DEF Post
  <2>3. CASE StartDrain
    BY <2>1, <2>3 DEF StartDrain
  <2>4. CASE Stop
    BY <2>1, <2>4 DEF Stop
  <2>5. CASE Link
    BY <2>1, <2>5 DEF Link, Lose, RecvClean, RecvCorrupt, RecvShort, Receiving, Deliver
  <2>6. CASE Collect
    <3>1. \A r \in Receivers : Progress(r) = 0 /\ Progress(r)' = 0
      BY <2>6 DEF Collect, Progress, Receivers
    <3>2. QED
      BY <2>6, <3>1, SameCaptureEarly DEF Collect, CursorOK, Receivers, SbiNeverWorse
  <2>7. CASE EndCollect
    <3>1. \A r \in Receivers : Progress(r) = 0 /\ Progress(r)' = 0
      BY <2>7 DEF EndCollect, Progress, Receivers
    <3>2. SameCapture'
      BY <2>7, <3>1, SameCaptureEarly DEF EndCollect
    <3>3. CursorOK'
      BY <2>7, LenProperties DEF EndCollect, CursorOK, TypeOK
    <3>4. QED
      BY <2>7, <3>2, <3>3 DEF EndCollect, SbiNeverWorse
  <2>8. ASSUME NEW r \in Receivers, Bridge(r)
        PROVE  CursorOK' /\ SameCapture' /\ SbiNeverWorse'
    <3>1. SameCapture'
      BY <2>8, BridgeTracks
    <3>2. CursorOK'
      BY <2>8, LenProperties DEF Bridge, CursorOK, TypeOK
    <3>3. QED
      BY <2>8, <3>1, <3>2 DEF Bridge, SbiNeverWorse
  <2>9. ASSUME NEW r \in Receivers, EndBridge(r)
        PROVE  CursorOK' /\ SameCapture' /\ SbiNeverWorse'
    <3>1. \A q \in Receivers : Progress(q)' = Progress(q)
      BY <2>9 DEF EndBridge, Progress, Receivers
    <3>2. SameCapture'
      BY <2>9, <3>1, SameCaptureFrame DEF EndBridge
    <3>3. CursorOK'
      BY <2>9, LenProperties DEF EndBridge, CursorOK, TypeOK
    <3>4. QED
      BY <2>9, <3>2, <3>3 DEF EndBridge, SbiNeverWorse
  <2>10. CASE Judge
    <3>1. \A q \in Receivers : Progress(q)' = Progress(q)
      BY <2>10 DEF Judge, Progress, Receivers
    <3>2. SameCapture'
      BY <2>10, <3>1, SameCaptureFrame DEF Judge
    <3>3. NeverWorse
      BY <2>10, BothThrough DEF Judge
    <3>4. result' # "FAIL"
      <4>1. Gain > 0 \/ Gain <= 0
        BY DEF Gain, TypeOK, Receivers
      <4>2. QED
        BY <2>10, <3>3, <4>1 DEF Judge
    <3>5. QED
      BY <2>10, <3>2, <3>4 DEF Judge, CursorOK, Receivers, SbiNeverWorse
  <2>11. CASE UNCHANGED vars
    <3>1. \A q \in Receivers : Progress(q)' = Progress(q)
      BY <2>11 DEF vars, Progress
    <3>2. QED
      BY <2>11, <3>1, SameCaptureFrame DEF vars, CursorOK, SbiNeverWorse
  <2>12. QED
    BY <2>2, <2>3, <2>4, <2>5, <2>6, <2>7, <2>8, <2>9, <2>10, <2>11
       DEF Next, Main, Finished
<1>3. QED
  BY <1>1, <1>2, PTL DEF Spec

(* Keeping FCS-failed frames never loses what the baseline decodes.        *)
THEOREM NeverFails == Spec => []SbiNeverWorse
<1>1. IInv => SbiNeverWorse
  BY DEF IInv
<1>2. QED
  BY <1>1, SafetyInvariant, PTL

(* Both receivers decode exactly the capture.                              *)
THEOREM DecodersFollowCapture == Spec => []SameCapture
<1>1. IInv => SameCapture
  BY DEF IInv
<1>2. QED
  BY <1>1, SafetyInvariant, PTL

-----------------------------------------------------------------------------
(* The capture.  main() copies the usable messages of the store into its   *)
(* list of frames; from then on the list stands for the store.             *)

Before == {"post", "drain"}

(* How many stored messages the collecting loop has copied.                *)
Taken == IF pc \in Before THEN 0 ELSE IF pc = "collect" THEN i ELSE Len(dbg)

(* The frames give each receiver what the copied messages hold for it, and *)
(* the counter tells whether one of them had failed its FCS.               *)
Collected ==
  /\ pc \in Before => i = 0 /\ rx = <<>> /\ nCorrupt = 0
  /\ pc = "collect" => i <= Len(dbg)
  /\ \A r \in Receivers : UpTo(r, Len(rx)) = StoredFor(r, Taken)
  /\ nCorrupt > 0 <=> StoredCorrupt(Taken)
  /\ nCorrupt > 0 <=> \E n \in 1 .. Len(rx) : ~rx[n].ok

(* What one message adds to a receiver's share of the store.               *)
Share(r, m) == IF m.usable /\ (CrcOk(m) \/ r = "sbi") THEN m.syms ELSE {}

(* One more copied message adds its share.                                 *)
LEMMA StoredNext ==
  ASSUME NEW r, NEW n \in Nat
  PROVE  /\ StoredFor(r, n + 1) = StoredFor(r, n) \cup Share(r, dbg[n + 1])
         /\ StoredCorrupt(n + 1) <=>
              StoredCorrupt(n) \/ (dbg[n + 1].usable /\ ~CrcOk(dbg[n + 1]))
<1>1. (1 .. n + 1) = (1 .. n) \cup {n + 1}
  OBVIOUS
<1> DEFINE J(m) == {j2 \in 1 .. m : dbg[j2].usable /\ (CrcOk(dbg[j2]) \/ r = "sbi")}
           Z(m) == {dbg[j].syms : j \in J(m)}
<1>2. J(n + 1) = J(n) \cup
        (IF dbg[n + 1].usable /\ (CrcOk(dbg[n + 1]) \/ r = "sbi") THEN {n + 1} ELSE {})
  BY <1>1
<1>3. StoredFor(r, n + 1) = UNION Z(n + 1) /\ StoredFor(r, n) = UNION Z(n)
  BY DEF StoredFor
<1> HIDE DEF J
<1>4. Z(n + 1) = Z(n) \cup
        (IF dbg[n + 1].usable /\ (CrcOk(dbg[n + 1]) \/ r = "sbi")
         THEN {dbg[n + 1].syms} ELSE {})
  BY <1>2
<1> HIDE DEF Z
<1>5. StoredFor(r, n + 1) = StoredFor(r, n) \cup Share(r, dbg[n + 1])
  BY <1>3, <1>4 DEF Share
<1>6. QED
  BY <1>1, <1>5 DEF StoredCorrupt

(* A message that arrives adds its share to the whole store.               *)
LEMMA StoredAppend ==
  ASSUME dbg \in Seq(Messages), NEW m \in Messages, dbg' = Append(dbg, m), NEW r
  PROVE  /\ StoredFor(r, Len(dbg))' = StoredFor(r, Len(dbg)) \cup Share(r, m)
         /\ StoredCorrupt(Len(dbg))' <=>
              StoredCorrupt(Len(dbg)) \/ (m.usable /\ ~CrcOk(m))
<1> DEFINE L == Len(dbg)
<1>1. /\ L \in Nat /\ Len(dbg') = L + 1 /\ dbg'[L + 1] = m
      /\ \A j \in 1 .. L : dbg'[j] = dbg[j]
  BY AppendProperties, LenProperties
<1>2. (1 .. L + 1) = (1 .. L) \cup {L + 1}
  BY <1>1
<1> HIDE DEF L
<1> DEFINE J == {j2 \in 1 .. L : dbg[j2].usable /\ (CrcOk(dbg[j2]) \/ r = "sbi")}
           Jn == {j2 \in 1 .. L + 1 : dbg'[j2].usable /\ (CrcOk(dbg'[j2]) \/ r = "sbi")}
           Z == {dbg[j].syms : j \in J}
           Zn == {dbg'[j].syms : j \in Jn}
<1>3. Jn = J \cup (IF m.usable /\ (CrcOk(m) \/ r = "sbi") THEN {L + 1} ELSE {})
  BY <1>1, <1>2
<1>4. StoredFor(r, Len(dbg))' = UNION Zn /\ StoredFor(r, Len(dbg)) = UNION Z
  BY <1>1 DEF StoredFor, L, CrcOk
<1>5. J \subseteq 1 .. L
  OBVIOUS
<1> HIDE DEF J, Jn
<1>6. Zn = Z \cup (IF m.usable /\ (CrcOk(m) \/ r = "sbi") THEN {m.syms} ELSE {})
  BY <1>1, <1>3, <1>5
<1> HIDE DEF Z, Zn
<1>7. StoredFor(r, Len(dbg))' = StoredFor(r, Len(dbg)) \cup Share(r, m)
  BY <1>4, <1>6 DEF Share
<1>8. QED
  BY <1>1, <1>2, <1>7 DEF StoredCorrupt, L, CrcOk

(* Copying a message into the list of frames adds its share to what the    *)
(* frames give a receiver.                                                 *)
LEMMA CollectAdds ==
  ASSUME rx \in Seq(Frames), NEW m \in Messages, NEW r \in Receivers,
         rx' = IF m.usable
               THEN Append(rx, [syms |-> m.syms, ok |-> CrcOk(m)])
               ELSE rx
  PROVE  /\ UpTo(r, Len(rx))' = UpTo(r, Len(rx)) \cup Share(r, m)
         /\ (\E n \in 1 .. Len(rx') : ~rx'[n].ok) <=>
              (\E n \in 1 .. Len(rx) : ~rx[n].ok) \/ (m.usable /\ ~CrcOk(m))
<1>1. CASE ~m.usable
  BY <1>1 DEF Share, UpTo, Accepts
<1>2. CASE m.usable
  <2> DEFINE L == Len(rx)
             f == [syms |-> m.syms, ok |-> CrcOk(m)]
  <2>0. f \in Frames
    BY DEF Messages, Frames, CrcOk
  <2>1. /\ L \in Nat /\ Len(rx') = L + 1 /\ rx'[L + 1] = f
        /\ \A j \in 1 .. L : rx'[j] = rx[j]
    BY <1>2, <2>0, AppendProperties, LenProperties
  <2>2. (1 .. L + 1) = (1 .. L) \cup {L + 1}
    BY <2>1
  <2>a. f.syms = m.syms /\ (f.ok <=> CrcOk(m))
    OBVIOUS
  <2> HIDE DEF L, f
  <2> DEFINE J == {j2 \in 1 .. L : Accepts(r, rx[j2])}
             Jn == {j2 \in 1 .. L + 1 : Accepts(r, rx'[j2])}
             Z == {rx[j].syms : j \in J}
             Zn == {rx'[j].syms : j \in Jn}
  <2>3. Jn = J \cup (IF Accepts(r, f) THEN {L + 1} ELSE {})
    BY <2>1, <2>2
  <2>4. UpTo(r, Len(rx))' = UNION Zn /\ UpTo(r, Len(rx)) = UNION Z
    BY <2>1 DEF UpTo, L, Accepts
  <2>5. J \subseteq 1 .. L
    OBVIOUS
  <2> HIDE DEF J, Jn
  <2>6. Zn = Z \cup (IF Accepts(r, f) THEN {f.syms} ELSE {})
    BY <2>1, <2>3, <2>5
  <2> HIDE DEF Z, Zn
  <2>7. UpTo(r, Len(rx))' = UpTo(r, Len(rx)) \cup Share(r, m)
    BY <1>2, <2>4, <2>6, <2>a DEF Share, Accepts
  <2>8. QED
    BY <1>2, <2>1, <2>2, <2>7, <2>a DEF L
<1>3. QED
  BY <1>1, <1>2

(* Nothing is collected while frames still arrive; the loop copies one     *)
(* message at a time; afterwards nothing touches store, frames or counter. *)
LEMMA CollectedNext ==
  ASSUME TypeOK, TypeOK', Collected, [Next]_vars
  PROVE  Collected'
<1>0. /\ dbg \in Seq(Messages) /\ Len(dbg) \in Nat /\ i \in Nat /\ nCorrupt \in Nat
      /\ rx \in Seq(Frames)
  BY LenProperties DEF TypeOK
<1>1. ASSUME pc \in Before, pc' \in Before \cup {"collect"}, UNCHANGED <<i, rx, nCorrupt>>
      PROVE  Collected'
  <2>1. i' = 0 /\ rx' = <<>> /\ nCorrupt' = 0 /\ Taken = 0 /\ Taken' = 0
    BY <1>1 DEF Collected, Taken, Before
  <2>2. \A r \in Receivers : UpTo(r, Len(rx))' = {} /\ StoredFor(r, Taken)' = {}
    BY <2>1 DEF UpTo, StoredFor
  <2>3. ~StoredCorrupt(Taken)' /\ ~\E n \in 1 .. Len(rx') : ~rx'[n].ok
    BY <2>1 DEF StoredCorrupt
  <2>4. 0 <= Len(dbg')
    BY TypeOK', LenProperties DEF TypeOK
  <2>5. QED
    BY <2>1, <2>2, <2>3, <2>4 DEF Collected
<1>2. CASE Post
  BY <1>1, <1>2 DEF Post, Before
<1>3. CASE StartDrain
  BY <1>1, <1>3 DEF StartDrain, Before
<1>4. CASE Stop
  BY <1>1, <1>4 DEF Stop, Before
<1>5. CASE Link
  BY <1>1, <1>5
     DEF Link, Lose, RecvClean, RecvCorrupt, RecvShort, Receiving, Deliver, Before
<1>6. CASE Collect
  <2> DEFINE m == dbg[i + 1]
  <2>1. /\ pc = "collect" /\ pc' = "collect" /\ i' = i + 1 /\ i < Len(dbg) /\ dbg' = dbg
        /\ rx' = IF m.usable
                 THEN Append(rx, [syms |-> m.syms, ok |-> CrcOk(m)])
                 ELSE rx
        /\ nCorrupt' = IF m.usable /\ ~CrcOk(m) THEN nCorrupt + 1 ELSE nCorrupt
    BY <1>6 DEF Collect
  <2>2. Taken = i /\ Taken' = i + 1
    BY <2>1 DEF Taken, Before
  <2>3. m \in Messages
    BY <1>0, <2>1, ElementOfSeq
  <2>4. /\ \A r \in Receivers : UpTo(r, Len(rx)) = StoredFor(r, i)
        /\ nCorrupt > 0 <=> StoredCorrupt(i)
        /\ nCorrupt > 0 <=> \E n \in 1 .. Len(rx) : ~rx[n].ok
    BY <2>2 DEF Collected
  <2>5. \A r \in Receivers : StoredFor(r, Taken)' = StoredFor(r, i + 1)
    BY <2>1, <2>2 DEF StoredFor, CrcOk
  <2>6. StoredCorrupt(Taken)' <=> StoredCorrupt(i + 1)
    BY <2>1, <2>2 DEF StoredCorrupt, CrcOk
  <2> HIDE DEF m
  <2>7. \A r \in Receivers : UpTo(r, Len(rx))' = UpTo(r, Len(rx)) \cup Share(r, m)
    BY <1>0, <2>1, <2>3, CollectAdds
  <2>8. (\E n \in 1 .. Len(rx') : ~rx'[n].ok) <=>
          (\E n \in 1 .. Len(rx) : ~rx[n].ok) \/ (m.usable /\ ~CrcOk(m))
    BY <1>0, <2>1, <2>3, CollectAdds DEF Receivers
  <2>9. \A r \in Receivers : StoredFor(r, i + 1) = StoredFor(r, i) \cup Share(r, m)
    BY <1>0, StoredNext DEF m
  <2>10. StoredCorrupt(i + 1) <=> StoredCorrupt(i) \/ (m.usable /\ ~CrcOk(m))
    BY <1>0, StoredNext DEF m
  <2>11. nCorrupt' > 0 <=> nCorrupt > 0 \/ (m.usable /\ ~CrcOk(m))
    BY <1>0, <2>1
  <2>12. \A r \in Receivers : UpTo(r, Len(rx))' = StoredFor(r, Taken)'
    BY <2>4, <2>5, <2>7, <2>9
  <2>13. i' <= Len(dbg')
    BY <1>0, <2>1
  <2>14. /\ nCorrupt' > 0 <=> StoredCorrupt(Taken)'
         /\ nCorrupt' > 0 <=> \E n \in 1 .. Len(rx') : ~rx'[n].ok
    BY <2>4, <2>6, <2>8, <2>10, <2>11
  <2>15. pc' \notin Before
    BY <2>1 DEF Before
  <2>16. QED
    BY <2>12, <2>13, <2>14, <2>15 DEF Collected
<1>7. ASSUME pc' \notin Before \cup {"collect"}, UNCHANGED <<dbg, rx, nCorrupt>>,
             Taken = Len(dbg)
      PROVE  Collected'
  <2>1. Taken' = Len(dbg')
    BY <1>7 DEF Taken
  <2>2. \A r \in Receivers : StoredFor(r, Taken)' = StoredFor(r, Taken)
    BY <1>7, <2>1 DEF StoredFor, CrcOk
  <2>3. \A r \in Receivers : UpTo(r, Len(rx))' = UpTo(r, Len(rx))
    BY <1>7 DEF UpTo, Accepts
  <2>4. StoredCorrupt(Taken)' <=> StoredCorrupt(Taken)
    BY <1>7, <2>1 DEF StoredCorrupt, CrcOk
  <2>5. QED
    BY <1>7, <2>2, <2>3, <2>4 DEF Collected
<1>8. CASE EndCollect
  BY <1>7, <1>8 DEF EndCollect, Taken, Before
<1>9. ASSUME NEW r \in Receivers, Bridge(r) \/ EndBridge(r)
      PROVE  Collected'
  BY <1>7, <1>9 DEF Bridge, EndBridge, Taken, Before, Receivers
<1>10. CASE Judge
  BY <1>7, <1>10 DEF Judge, Taken, Before
<1>11. CASE UNCHANGED vars
  <2>1. Taken' = Taken
    BY <1>11 DEF vars, Taken
  <2>2. \A r \in Receivers : /\ UpTo(r, Len(rx))' = UpTo(r, Len(rx))
                             /\ StoredFor(r, Taken)' = StoredFor(r, Taken)
    BY <1>11, <2>1 DEF vars, UpTo, Accepts, StoredFor, CrcOk
  <2>3. StoredCorrupt(Taken)' <=> StoredCorrupt(Taken)
    BY <1>11, <2>1 DEF vars, StoredCorrupt, CrcOk
  <2>4. QED
    BY <1>11, <2>2, <2>3 DEF vars, Collected
<1>12. QED
  BY <1>2, <1>3, <1>4, <1>5, <1>6, <1>8, <1>9, <1>10, <1>11
     DEF Next, Main, Finished

(* The list of frames stands for what has been copied of the store.        *)
LEMMA CaptureKept == Spec => []Collected
<1>1. Init => Collected
  <2> SUFFICES ASSUME Init PROVE Collected
    OBVIOUS
  <2>1. pc \in Before /\ Taken = 0 /\ i = 0 /\ rx = <<>> /\ nCorrupt = 0 /\ pc # "collect"
    BY DEF Init, Before, Taken
  <2>2. \A r \in Receivers : UpTo(r, Len(rx)) = {} /\ StoredFor(r, Taken) = {}
    BY <2>1 DEF UpTo, StoredFor
  <2>3. ~StoredCorrupt(Taken) /\ ~\E n \in 1 .. Len(rx) : ~rx[n].ok
    BY <2>1 DEF StoredCorrupt
  <2>4. ~(nCorrupt > 0)
    BY <2>1
  <2>5. QED
    BY <2>1, <2>2, <2>3, <2>4 DEF Collected
<1>2. IInv /\ IInv' /\ Collected /\ [Next]_vars => Collected'
  BY CollectedNext DEF IInv
<1>3. QED
  BY <1>1, <1>2, SafetyInvariant, PTL DEF Spec

-----------------------------------------------------------------------------
(* The verdict.                                                            *)

(* It is printed once, by the comparison, and says what was compared.      *)
Decided ==
  /\ pc # "done" => result = None
  /\ pc = "done" => /\ result = "INCONCLUSIVE" <=> nCorrupt = 0
                    /\ result = "PASS" => nCorrupt > 0 /\ Gain > 0

LEMMA VerdictIsComparison == Spec => []Decided
<1>1. Init => Decided
  BY DEF Init, Decided
<1>2. IInv /\ Decided /\ [Next]_vars => Decided'
  <2> SUFFICES ASSUME TypeOK, SameCapture, Decided, [Next]_vars
               PROVE  Decided'
    BY DEF IInv
  <2>1. CASE Judge
    <3>1. /\ nCorrupt' = nCorrupt /\ nCorrupt \in Nat /\ dec' = dec /\ Gain' = Gain
          /\ pc' = "done"
      BY <2>1 DEF Judge, Gain, TypeOK
    <3>2. NeverWorse
      BY <2>1, BothThrough DEF Judge
    <3>3. CASE nCorrupt = 0
      <4>1. result' = "INCONCLUSIVE"
        BY <2>1, <3>3 DEF Judge
      <4>2. QED
        BY <3>1, <3>3, <4>1 DEF Decided
    <3>4. CASE nCorrupt # 0 /\ Gain > 0
      BY <2>1, <3>1, <3>2, <3>4 DEF Judge, Decided
    <3>5. CASE nCorrupt # 0 /\ Gain <= 0
      BY <2>1, <3>1, <3>2, <3>5 DEF Judge, Decided
    <3>6. Gain > 0 \/ Gain <= 0
      BY DEF Gain, TypeOK, Receivers
    <3>7. QED
      BY <3>3, <3>4, <3>5, <3>6
  <2>2. CASE UNCHANGED vars
    BY <2>2 DEF vars, Decided, Gain
  <2>3. ASSUME pc # "done", pc' # "done", result' = result
        PROVE  Decided'
    BY <2>3 DEF Decided
  <2>4. CASE Link
    BY <2>3, <2>4 DEF Link, Lose, RecvClean, RecvCorrupt, RecvShort, Receiving, Deliver
  <2>5. CASE Post \/ StartDrain \/ Stop \/ Collect \/ EndCollect
    BY <2>3, <2>5 DEF Post, StartDrain, Stop, Collect, EndCollect
  <2>6. CASE \E r \in Receivers : Bridge(r) \/ EndBridge(r)
    BY <2>3, <2>6 DEF Bridge, EndBridge, Receivers
  <2>7. QED
    BY <2>1, <2>2, <2>4, <2>5, <2>6 DEF Next, Main, Finished
<1>3. QED
  BY <1>1, <1>2, SafetyInvariant, PTL DEF Spec

(* The run is inconclusive exactly when no captured frame failed its FCS.  *)
THEOREM Inconclusive == Spec => []InconclusiveIffNoCorrupt
<1>1. IInv /\ Collected /\ Decided => InconclusiveIffNoCorrupt
  <2> SUFFICES ASSUME TypeOK, Collected, Decided, result # None
               PROVE  result = "INCONCLUSIVE" <=> \A n \in 1 .. Len(rx) : rx[n].ok
    BY DEF InconclusiveIffNoCorrupt, IInv
  <2>1. result = "INCONCLUSIVE" <=> nCorrupt = 0
    BY DEF Decided
  <2>2. nCorrupt \in Nat
    BY DEF TypeOK
  <2>3. nCorrupt > 0 <=> \E n \in 1 .. Len(rx) : ~rx[n].ok
    BY DEF Collected
  <2>4. QED
    BY <2>1, <2>2, <2>3
<1>2. QED
  BY <1>1, SafetyInvariant, CaptureKept, VerdictIsComparison, PTL

-----------------------------------------------------------------------------
(* Counting: blocks against the symbols that complete them.                *)

(* A set of numbers that all occur as the c-th component of some symbol of *)
(* T is no larger than T.                                                  *)
LEMMA ProjectionBound ==
  ASSUME NEW T \in SUBSET Symbols, NEW c \in {1, 2},
         NEW B, B \subseteq {s[c] : s \in T}
  PROVE  IsFiniteSet(B) /\ Cardinality(B) <= Cardinality(T)
         /\ Cardinality(B) \in Nat /\ Cardinality(T) \in Nat
<1> DEFINE I == {s[c] : s \in T}
           f == [s \in T |-> s[c]]
<1>1. IsFiniteSet(T)
  BY FiniteCode, FS_Subset
<1>2. f \in Surjection(T, I)
  BY DEF Surjection
<1> HIDE DEF f, I
<1>3. IsFiniteSet(I) /\ Cardinality(I) <= Cardinality(T)
  BY <1>1, <1>2, FS_Surjection
<1>4. B \in SUBSET I
  BY DEF I
<1>5. IsFiniteSet(B) /\ Cardinality(B) <= Cardinality(I)
  BY <1>3, <1>4, FS_Subset
<1>6. QED
  BY <1>1, <1>3, <1>5, FS_CardinalityType

(* Every block that S completes and B does not takes a symbol of its own.  *)
LEMMA GainBound ==
  ASSUME NEW S \in SUBSET Symbols, NEW B \in SUBSET S
  PROVE  Cardinality(Full(S)) - Cardinality(Full(B)) <= Cardinality(S \ B)
<1> DEFINE F == Full(S)
           G == Full(B)
           D == F \ G
<1>1. /\ IsFiniteSet(F) /\ Cardinality(F) \in Nat /\ Cardinality(G) \in Nat
      /\ F \in SUBSET Blocks /\ G \subseteq F
  BY FullFinite, FullMonotone
<1>2. Cardinality(D) = Cardinality(F) - Cardinality(G)
  <2>1. F \cap G = G
    BY <1>1
  <2>2. Cardinality(D) = Cardinality(F) - Cardinality(F \cap G)
    BY <1>1, FS_Difference
  <2>3. QED
    BY <2>1, <2>2
<1>3. D \subseteq {s[1] : s \in S \ B}
  <2> SUFFICES ASSUME NEW b \in D
               PROVE  \E s \in S \ B : s[1] = b
    OBVIOUS
  <2>1. b \in Blocks /\ Cardinality(Indices(S, b)) >= K /\ b \notin Full(B)
    BY <1>1 DEF Full
  <2>2. Indices(S, b) # Indices(B, b)
    BY <2>1 DEF Full
  <2>3. PICK x \in 1 .. N : <<b, x>> \in S /\ <<b, x>> \notin B
    BY <2>2 DEF Indices
  <2>4. <<b, x>>[1] = b
    OBVIOUS
  <2>5. QED
    BY <2>3, <2>4
<1>4. S \ B \in SUBSET Symbols
  OBVIOUS
<1> HIDE DEF D, F, G
<1>5. Cardinality(D) <= Cardinality(S \ B)
  BY <1>3, <1>4, ProjectionBound
<1>6. QED
  BY <1>2, <1>5 DEF F, G

(* A block of which at most N-K symbols are missing is complete.           *)
LEMMA FewMissing ==
  ASSUME NEW T \in SUBSET Symbols, NEW b \in Blocks,
         Cardinality(({b} \X (1 .. N)) \ T) <= N - K
  PROVE  b \in Full(T)
<1> DEFINE M == ({b} \X (1 .. N)) \ T
           X == Indices(T, b)
           A == 1 .. N
<1>1. X \subseteq A /\ A \ X \subseteq {s[2] : s \in M}
  <2>1. X \subseteq A
    BY DEF Indices
  <2> SUFFICES ASSUME NEW x \in A \ X
               PROVE  \E s \in M : s[2] = x
    BY <2>1
  <2>2. <<b, x>> \in M /\ <<b, x>>[2] = x
    BY DEF Indices
  <2>3. QED
    BY <2>2
<1>2. M \in SUBSET Symbols
  BY DEF Symbols
<1>3. Cardinality(M) <= N - K
  OBVIOUS
<1> HIDE DEF M, X
<1>4. Cardinality(A \ X) <= Cardinality(M) /\ Cardinality(A \ X) \in Nat
      /\ Cardinality(M) \in Nat
  BY <1>1, <1>2, ProjectionBound
<1>5. IsFiniteSet(A) /\ Cardinality(A) = N
  BY FecAssumption, FS_Interval
<1>6. Cardinality(A \ X) = Cardinality(A) - Cardinality(A \cap X)
  BY <1>5, FS_Difference
<1>7. A \cap X = X
  BY <1>1
<1>8. IsFiniteSet(X) /\ Cardinality(X) \in Nat
  BY <1>1, <1>5, FS_Subset, FS_CardinalityType
<1> DEFINE x == Cardinality(X)  m == Cardinality(M)  d == Cardinality(A \ X)
<1>9. x \in Nat /\ m \in Nat /\ d \in Nat /\ d <= m /\ m <= N - K /\ d = N - x
  BY <1>3, <1>4, <1>5, <1>6, <1>7, <1>8
<1> HIDE DEF x, m, d
<1>10. x >= K
  BY <1>9, FecAssumption
<1>11. QED
  BY <1>10 DEF x, X, Full

(* And a complete block misses no more.                                    *)
LEMMA FullMisses ==
  ASSUME NEW T \in SUBSET Symbols, NEW b \in Full(T)
  PROVE  Cardinality(({b} \X (1 .. N)) \ T) <= N - K
<1> DEFINE M == ({b} \X (1 .. N)) \ T
           X == Indices(T, b)
           A == 1 .. N
           f == [x \in A \ X |-> <<b, x>>]
<1>1. X \subseteq A /\ Cardinality(X) >= K
  BY DEF Indices, Full
<1>2. f \in Surjection(A \ X, M)
  <2>1. f \in [A \ X -> M]
    BY DEF Indices
  <2>2. ASSUME NEW y \in M
        PROVE  \E x \in A \ X : f[x] = y
    <3>1. PICK x \in A : y = <<b, x>> /\ y \notin T
      OBVIOUS
    <3>2. x \in A \ X
      BY <3>1 DEF Indices
    <3>3. QED
      BY <3>1, <3>2
  <2>3. QED
    BY <2>1, <2>2 DEF Surjection
<1>3. IsFiniteSet(A) /\ Cardinality(A) = N
  BY FecAssumption, FS_Interval
<1> HIDE DEF M, X, f
<1>4. IsFiniteSet(A \ X) /\ Cardinality(A \ X) = Cardinality(A) - Cardinality(A \cap X)
  BY <1>3, FS_Difference
<1>5. A \cap X = X
  BY <1>1
<1>6. IsFiniteSet(X) /\ Cardinality(X) \in Nat
  BY <1>1, <1>3, FS_Subset, FS_CardinalityType
<1>7. Cardinality(M) <= Cardinality(A \ X) /\ IsFiniteSet(M)
  BY <1>2, <1>4, FS_Surjection
<1>8. Cardinality(M) \in Nat /\ Cardinality(A \ X) \in Nat
  BY <1>4, <1>7, FS_CardinalityType
<1> DEFINE x == Cardinality(X)  m == Cardinality(M)  d == Cardinality(A \ X)
<1>9. x \in Nat /\ m \in Nat /\ d \in Nat /\ m <= d /\ x >= K /\ d = N - x
  BY <1>1, <1>3, <1>4, <1>5, <1>6, <1>7, <1>8
<1> HIDE DEF x, m, d
<1>10. m <= N - K
  BY <1>9, FecAssumption
<1>11. QED
  BY <1>10 DEF m, M

-----------------------------------------------------------------------------
(* A gain is earned.                                                       *)

(* What sbi has been given beyond the baseline by the first n frames, and  *)
(* the bound: main() has counted at least as many salvaged sub-blocks.     *)
Extra(n) == UpTo("sbi", n) \ UpTo("baseline", n)
SalvageCounted == Cardinality(Extra(Progress("sbi"))) <= salvaged

LEMMA SalvageBound == Spec => []SalvageCounted
<1>0. ASSUME UpTo("sbi", 0) = {} PROVE Cardinality(Extra(0)) = 0
  BY <1>0, FS_EmptySet DEF Extra
<1>1. Init => SalvageCounted
  <2> SUFFICES ASSUME Init PROVE SalvageCounted
    OBVIOUS
  <2>1. Progress("sbi") = 0 /\ salvaged = 0
    BY DEF Init, Progress
  <2>2. QED
    BY <1>0, <2>1, UpToZero DEF SalvageCounted
<1>2. IInv /\ IInv' /\ SalvageCounted /\ [Next]_vars => SalvageCounted'
  <2> SUFFICES ASSUME TypeOK, TypeOK', CursorOK, SalvageCounted, [Next]_vars
               PROVE  SalvageCounted'
    BY DEF IInv
  <2>0. salvaged \in Nat /\ salvaged' \in Nat /\ i \in Nat
    BY DEF TypeOK
  <2>1. ASSUME Progress("sbi")' = 0
        PROVE  SalvageCounted'
    <3>1. UpTo("sbi", Progress("sbi"))' = {}
      BY <2>1 DEF UpTo
    <3>2. Extra(Progress("sbi"))' = {}
      BY <3>1 DEF Extra
    <3>3. QED
      BY <2>0, <3>2, FS_EmptySet DEF SalvageCounted
  <2>2. ASSUME UNCHANGED <<rx, salvaged>>, Progress("sbi")' = Progress("sbi")
        PROVE  SalvageCounted'
    BY <2>2 DEF SalvageCounted, Extra, UpTo, Accepts
  <2>3. CASE Link
    BY <2>1, <2>3
       DEF Link, Lose, RecvClean, RecvCorrupt, RecvShort, Receiving, Deliver, Progress
  <2>4. CASE Post \/ StartDrain \/ Stop \/ Collect \/ EndCollect
    BY <2>1, <2>4 DEF Post, StartDrain, Stop, Collect, EndCollect, Progress
  <2>5. CASE Bridge("baseline")
    BY <2>1, <2>5 DEF Bridge, Progress
  <2>6. CASE Bridge("sbi")
    <3> DEFINE f == rx[i + 1]
               g == IF f.ok THEN {} ELSE f.syms
    <3>1. /\ pc = "sbi" /\ pc' = "sbi" /\ i' = i + 1 /\ i < Len(rx) /\ rx' = rx
          /\ salvaged' = IF Accepts("sbi", f) /\ ~f.ok
                         THEN salvaged + Cardinality(f.syms)
                         ELSE salvaged
      BY <2>6 DEF Bridge
    <3>2. f \in Frames /\ rx \in Seq(Frames) /\ Len(rx) \in Nat
      BY <2>0, <3>1, ElementOfSeq, LenProperties DEF TypeOK
    <3>3. f.syms \in SUBSET Symbols /\ f.ok \in BOOLEAN
      BY <3>2 DEF Frames
    <3>4. IsFiniteSet(g) /\ Cardinality(g) \in Nat /\ g \in SUBSET Symbols
      BY <3>3, FiniteCode, FS_Subset, FS_CardinalityType
    <3>5. salvaged' = salvaged + Cardinality(g)
      BY <2>0, <3>1, <3>3, FS_EmptySet DEF Accepts
    <3>6. Extra(i + 1) \subseteq Extra(i) \cup g
      <4>1. UpTo("sbi", i + 1) = UpTo("sbi", i) \cup f.syms
        BY <2>0, UpToNext DEF Accepts
      <4>2. UpTo("baseline", i + 1) =
              UpTo("baseline", i) \cup (IF f.ok THEN f.syms ELSE {})
        BY <2>0, UpToNext DEF Accepts
      <4>3. QED
        BY <4>1, <4>2 DEF Extra
    <3>7. Progress("sbi") = i /\ Progress("sbi")' = i + 1
      BY <3>1 DEF Progress
    <3>8. Extra(i) \in SUBSET Symbols
      BY <2>0, <3>1, <3>2, UpToSymbols DEF Extra
    <3>9. IsFiniteSet(Extra(i)) /\ Cardinality(Extra(i)) \in Nat
      BY <3>8, FiniteCode, FS_Subset, FS_CardinalityType
    <3> HIDE DEF f, g
    <3>10. /\ IsFiniteSet(Extra(i) \cup g)
           /\ Cardinality(Extra(i) \cup g) <= Cardinality(Extra(i)) + Cardinality(g)
      <4>1. /\ IsFiniteSet(Extra(i) \cup g)
            /\ Cardinality(Extra(i) \cup g) =
                 Cardinality(Extra(i)) + Cardinality(g) - Cardinality(Extra(i) \cap g)
        BY <3>4, <3>9, FS_Union
      <4>2. Cardinality(Extra(i) \cap g) \in Nat
        BY <3>9, FS_Intersection, FS_CardinalityType
      <4>3. QED
        BY <3>4, <3>9, <4>1, <4>2
    <3>11. Cardinality(Extra(i + 1)) <= Cardinality(Extra(i) \cup g)
      BY <3>6, <3>10, FS_Subset
    <3>12. Cardinality(Extra(i + 1)) \in Nat /\ Cardinality(Extra(i) \cup g) \in Nat
      BY <3>6, <3>10, FS_Subset, FS_CardinalityType
    <3>13. Cardinality(Extra(i)) <= salvaged
      BY <3>7 DEF SalvageCounted
    <3>14. Extra(Progress("sbi"))' = Extra(i + 1)
      BY <3>1, <3>7 DEF Extra, UpTo, Accepts
    <3>15. QED
      BY <2>0, <3>4, <3>5, <3>9, <3>10, <3>11, <3>12, <3>13, <3>14 DEF SalvageCounted
  <2>7. CASE EndBridge("baseline") \/ EndBridge("sbi")
    BY <2>2, <2>7 DEF EndBridge, Progress
  <2>8. CASE Judge
    BY <2>2, <2>8 DEF Judge, Progress
  <2>9. CASE UNCHANGED vars
    BY <2>2, <2>9 DEF vars, Progress
  <2>10. QED
    BY <2>3, <2>4, <2>5, <2>6, <2>7, <2>8, <2>9 DEF Next, Main, Finished, Receivers
<1>3. QED
  BY <1>1, <1>2, SafetyInvariant, PTL DEF Spec

(* Each block that sbi decodes beyond the baseline took a salvaged         *)
(* sub-block, and PASS is only printed when FCS-failed frames were         *)
(* captured and sub-blocks salvaged from them.                             *)
THEOREM GainIsEarned == Spec => []GainEarned
<1>1. IInv /\ SalvageCounted /\ Decided => GainEarned
  <2> SUFFICES ASSUME TypeOK, SameCapture, SalvageCounted, Decided PROVE GainEarned
    BY DEF IInv
  <2>0. salvaged \in Nat /\ Len(rx) \in Nat /\ rx \in Seq(Frames) /\ Gain \in Int
    BY LenProperties DEF TypeOK, Gain, Receivers
  <2>1. ASSUME pc \in {"judge", "done"} PROVE Gain <= salvaged
    <3> DEFINE S == UpTo("sbi", Len(rx))
               B == UpTo("baseline", Len(rx))
    <3>1. Progress("sbi") = Len(rx) /\ Progress("baseline") = Len(rx)
      BY <2>1 DEF Progress
    <3>2. Gain = Cardinality(Full(S)) - Cardinality(Full(B))
      BY <3>1 DEF SameCapture, Receivers, Gain
    <3>3. S \in SUBSET Symbols /\ B \in SUBSET S
      BY <2>0, UpToSymbols, SbiSeesMore
    <3>4. Cardinality(S \ B) <= salvaged
      BY <3>1 DEF SalvageCounted, Extra
    <3>6. S \ B \in SUBSET Symbols
      BY <3>3
    <3> HIDE DEF S, B
    <3>7. Cardinality(S \ B) \in Nat
      BY <3>6, FiniteCode, FS_Subset, FS_CardinalityType
    <3>5. Gain <= Cardinality(S \ B)
      BY <3>2, <3>3, GainBound
    <3>8. QED
      BY <2>0, <3>4, <3>5, <3>7
  <2>2. ASSUME result = "PASS" PROVE nCorrupt > 0 /\ salvaged > 0
    <3>1. pc = "done"
      BY <2>2 DEF Decided, None
    <3>2. nCorrupt > 0 /\ Gain > 0
      BY <2>2, <3>1 DEF Decided
    <3>3. Gain <= salvaged
      BY <2>1, <3>1
    <3>4. QED
      BY <2>0, <3>2, <3>3
  <2>3. QED
    BY <2>1, <2>2 DEF GainEarned
<1>2. QED
  BY <1>1, SafetyInvariant, SalvageBound, VerdictIsComparison, PTL

-----------------------------------------------------------------------------
(* One frame, one block: with perBody >= N a frame that passes its FCS     *)
(* holds one whole block.                                                  *)

WholeFrame(S) == \E b \in Blocks : S = {b} \X (1 .. N)

WholeFrames ==
  perBody >= N =>
    /\ \A n \in 1 .. Len(dbg) :
         dbg[n].usable /\ CrcOk(dbg[n]) => WholeFrame(dbg[n].syms)
    /\ \A n \in 1 .. Len(rx) : rx[n].ok => WholeFrame(rx[n].syms)

(* pack() makes one body per block then, and puts all of it there.         *)
LEMMA BodyIsBlock ==
  ASSUME perBody \in Packings, perBody >= N, NEW p \in 1 .. NBodies
  PROVE  p \in Blocks /\ BodySymbols(p) = {p} \X (1 .. N)
<1>1. perBody \in Nat /\ perBody > 0 /\ N \in Nat /\ NBlocks \in Nat /\ N > 0
  BY PackingPositive, FecAssumption
<1>2. BodiesPerBlock = 1
  <2>1. N + perBody - 1 >= perBody /\ N + perBody - 1 < 2 * perBody
    BY <1>1
  <2>2. (N + perBody - 1) \div perBody = 1
    BY <1>1, <2>1
  <2>3. QED
    BY <2>2 DEF BodiesPerBlock
<1>3. p \in Blocks
  BY <1>1, <1>2 DEF NBodies, Blocks
<1>4. (p - 1) \div BodiesPerBlock = p - 1 /\ (p - 1) % BodiesPerBlock = 0
  BY <1>2, <1>3 DEF Blocks
<1>5. BodySymbols(p) =
        {1 + (p - 1)} \X {x \in 1 .. N : 0 * perBody < x /\ x <= (0 + 1) * perBody}
  BY <1>4 DEF BodySymbols
<1>6. {x \in 1 .. N : 0 * perBody < x /\ x <= (0 + 1) * perBody} = 1 .. N
  BY <1>1
<1>7. 1 + (p - 1) = p
  BY <1>3 DEF Blocks
<1>8. QED
  BY <1>3, <1>5, <1>6, <1>7

LEMMA WholeFramesKept == Spec => []WholeFrames
<1>1. Init => WholeFrames
  BY DEF Init, WholeFrames
<1>2. TypeOK /\ WholeFrames /\ [Next]_vars => WholeFrames'
  <2> SUFFICES ASSUME TypeOK, WholeFrames, [Next]_vars PROVE WholeFrames'
    OBVIOUS
  <2>0. /\ dbg \in Seq(Messages) /\ Len(dbg) \in Nat /\ perBody \in Packings
        /\ rx \in Seq(Frames) /\ Len(rx) \in Nat /\ i \in Nat
    BY LenProperties DEF TypeOK
  <2>1. ASSUME UNCHANGED <<perBody, dbg, rx>>
        PROVE  WholeFrames'
    BY <2>1 DEF WholeFrames, CrcOk, WholeFrame
  <2>2. ASSUME NEW m \in Messages, Deliver(m),
               perBody >= N /\ m.usable /\ CrcOk(m) => WholeFrame(m.syms)
        PROVE  WholeFrames'
    <3>1. /\ Len(dbg') = Len(dbg) + 1 /\ dbg'[Len(dbg) + 1] = m
          /\ \A n \in 1 .. Len(dbg) : dbg'[n] = dbg[n]
      BY <2>0, <2>2, AppendProperties DEF Deliver
    <3>2. (1 .. Len(dbg) + 1) = (1 .. Len(dbg)) \cup {Len(dbg) + 1}
      BY <2>0
    <3>3. rx' = rx /\ perBody' = perBody
      BY <2>2 DEF Deliver
    <3>4. QED
      BY <2>2, <3>1, <3>2, <3>3 DEF WholeFrames, CrcOk, WholeFrame
  <2>3. ASSUME Receiving
        PROVE  Head(air) \in 1 .. NBodies /\ BodySymbols(Head(air)) \in SUBSET Symbols
    <3>1. Head(air) \in 1 .. NBodies
      BY <2>3, HeadTailProperties DEF Receiving, TypeOK
    <3>2. QED
      BY <2>0, <3>1, BodyIsSymbols
  <2>4. CASE RecvClean
    <3> DEFINE m == [syms |-> BodySymbols(Head(air)),
                     crc |-> IF tagging THEN "ok" ELSE "absent",
                     usable |-> TRUE]
    <3>1. m \in Messages /\ Deliver(m) /\ m.syms = BodySymbols(Head(air))
      BY <2>3, <2>4 DEF RecvClean, Messages, Tags
    <3>2. perBody >= N => WholeFrame(m.syms)
      BY <2>0, <2>3, <2>4, <3>1, BodyIsBlock DEF RecvClean, WholeFrame
    <3> HIDE DEF m
    <3>3. QED
      BY <2>2, <3>1, <3>2
  <2>5. CASE RecvCorrupt
    <3>1. PICK s \in SUBSET BodySymbols(Head(air)) :
            Deliver([syms |-> s, crc |-> "bad", usable |-> TRUE])
      BY <2>5 DEF RecvCorrupt
    <3>2. [syms |-> s, crc |-> "bad", usable |-> TRUE] \in Messages
      BY <2>3, <2>5 DEF RecvCorrupt, Messages, Tags
    <3>3. QED
      BY <2>2, <3>1, <3>2 DEF CrcOk
  <2>6. CASE RecvShort
    <3>1. [syms |-> {}, crc |-> "bad", usable |-> FALSE] \in Messages
      BY DEF Messages, Tags
    <3>2. QED
      BY <2>2, <2>6, <3>1 DEF RecvShort
  <2>7. CASE Collect
    <3> DEFINE m == dbg[i + 1]
               f == [syms |-> m.syms, ok |-> CrcOk(m)]
    <3>1. /\ rx' = IF m.usable THEN Append(rx, f) ELSE rx
          /\ dbg' = dbg /\ perBody' = perBody /\ i < Len(dbg)
      BY <2>7 DEF Collect
    <3>2. m \in Messages /\ i + 1 \in 1 .. Len(dbg)
      BY <2>0, <3>1, ElementOfSeq
    <3>3. CASE ~m.usable
      BY <2>1, <3>1, <3>3
    <3>4. CASE m.usable
      <4>1. f \in Frames
        BY <3>2 DEF Messages, Frames, CrcOk
      <4>2. f.syms = m.syms /\ (f.ok <=> CrcOk(m))
        OBVIOUS
      <4>3. perBody >= N /\ f.ok => WholeFrame(f.syms)
        BY <3>2, <3>4, <4>2 DEF WholeFrames
      <4> HIDE DEF f, m
      <4>4. /\ Len(rx') = Len(rx) + 1 /\ rx'[Len(rx) + 1] = f
            /\ \A n \in 1 .. Len(rx) : rx'[n] = rx[n]
        BY <2>0, <3>1, <3>4, <4>1, AppendProperties
      <4>5. (1 .. Len(rx) + 1) = (1 .. Len(rx)) \cup {Len(rx) + 1}
        BY <2>0
      <4>6. QED
        BY <3>1, <4>3, <4>4, <4>5 DEF WholeFrames, CrcOk, WholeFrame
    <3>5. QED
      BY <3>3, <3>4
  <2>8. CASE Lose
    BY <2>1, <2>8 DEF Lose
  <2>9. CASE Post \/ StartDrain \/ Stop \/ EndCollect \/ Judge
    BY <2>1, <2>9 DEF Post, StartDrain, Stop, EndCollect, Judge
  <2>10. CASE \E r \in Receivers : Bridge(r) \/ EndBridge(r)
    BY <2>1, <2>10 DEF Bridge, EndBridge
  <2>11. CASE UNCHANGED vars
    BY <2>1, <2>11 DEF vars
  <2>12. QED
    BY <2>4, <2>5, <2>6, <2>7, <2>8, <2>9, <2>10, <2>11
       DEF Next, Main, Link, Finished
<1>3. QED
  BY <1>1, <1>2, TypeCorrect, PTL DEF Spec

(* A list of stored messages or frames in which a block's symbols come in  *)
(* one element only.                                                       *)
OnePerBlock(list) ==
  \A j, k \in 1 .. Len(list) : \A y \in list[j].syms, z \in list[k].syms :
    y[1] = z[1] => j = k

(* The blocks in the flowgraph are in order, and later than those stored.  *)
InOrder ==
  /\ \A p \in 1 .. Len(air) : air[p] <= posted
  /\ \A p, q \in 1 .. Len(air) : p < q => air[p] < air[q]
  /\ \A j \in 1 .. Len(dbg) : \A y \in dbg[j].syms :
       y[1] <= posted /\ \A p \in 1 .. Len(air) : y[1] < air[p]

(* Every body is posted once and received at most once, so a block that    *)
(* fits in one body is captured at most once.                              *)
CapturedOnce == perBody >= N => InOrder /\ OnePerBlock(dbg) /\ OnePerBlock(rx)

(* The oldest body leaves the flowgraph.                                   *)
LEMMA OldestLeaves ==
  ASSUME TypeOK, InOrder, air # <<>>
  PROVE  /\ Head(air) \in Nat /\ Head(air) <= posted
         /\ Len(Tail(air)) \in Nat
         /\ \A j \in 1 .. Len(dbg) : \A y \in dbg[j].syms : y[1] < Head(air)
         /\ \A p \in 1 .. Len(Tail(air)) : Tail(air)[p] <= posted /\ Head(air) < Tail(air)[p]
         /\ \A p, q \in 1 .. Len(Tail(air)) : p < q => Tail(air)[p] < Tail(air)[q]
         /\ \A j \in 1 .. Len(dbg) : \A y \in dbg[j].syms :
              y[1] <= posted /\ \A p \in 1 .. Len(Tail(air)) : y[1] < Tail(air)[p]
<1>1. air \in Seq(1 .. NBodies)
  BY DEF TypeOK
<1>2. /\ Len(air) \in Nat /\ Len(air) > 0
      /\ Head(air) = air[1] /\ Head(air) \in 1 .. NBodies
      /\ Len(Tail(air)) = Len(air) - 1
      /\ \A p \in 1 .. Len(Tail(air)) : Tail(air)[p] = air[p + 1]
  <2>1. Len(air) \in Nat \ {0}
    BY <1>1, EmptySeq
  <2>2. Head(air) = air[1]
    BY <1>1
  <2>3. Head(air) \in 1 .. NBodies /\ Len(Tail(air)) = Len(air) - 1
    BY <1>1, HeadTailProperties
  <2>4. \A p \in 1 .. Len(Tail(air)) : Tail(air)[p] = air[p + 1]
    BY <1>1, HeadTailProperties
  <2>5. QED
    BY <2>1, <2>2, <2>3, <2>4
<1>3. \A p \in 1 .. Len(Tail(air)) : p + 1 \in 1 .. Len(air) /\ 1 < p + 1
  BY <1>2
<1>4. 1 \in 1 .. Len(air)
  BY <1>2
<1>5. QED
  BY <1>2, <1>3, <1>4 DEF InOrder

(* A body that is lost, or stored in part, keeps the order.                *)
LEMMA DeliverOnce ==
  ASSUME TypeOK, InOrder, OnePerBlock(dbg), air # <<>>,
         NEW m \in Messages, Deliver(m), \A y \in m.syms : y[1] = Head(air)
  PROVE  InOrder' /\ OnePerBlock(dbg)'
<1>0. dbg \in Seq(Messages) /\ air' = Tail(air) /\ dbg' = Append(dbg, m) /\ posted' = posted
  BY DEF Deliver, TypeOK
<1>1. /\ Len(dbg) \in Nat
      /\ Len(dbg') = Len(dbg) + 1 /\ dbg'[Len(dbg) + 1] = m
      /\ \A n \in 1 .. Len(dbg) : dbg'[n] = dbg[n]
  BY <1>0, AppendProperties, LenProperties
<1>2. (1 .. Len(dbg) + 1) = (1 .. Len(dbg)) \cup {Len(dbg) + 1}
  BY <1>1
<1>3. InOrder'
  <2>1. /\ Head(air) \in Nat /\ Head(air) <= posted
        /\ \A p \in 1 .. Len(air') : air'[p] <= posted' /\ Head(air) < air'[p]
        /\ \A p, q \in 1 .. Len(air') : p < q => air'[p] < air'[q]
        /\ \A j \in 1 .. Len(dbg) : \A y \in dbg[j].syms :
             y[1] <= posted' /\ \A p \in 1 .. Len(air') : y[1] < air'[p]
    BY <1>0, OldestLeaves
  <2>2. \A y \in m.syms : y[1] <= posted' /\ \A p \in 1 .. Len(air') : y[1] < air'[p]
    BY <1>0, <2>1
  <2>3. ASSUME NEW j \in 1 .. Len(dbg'), NEW y \in dbg'[j].syms
        PROVE  y[1] <= posted' /\ \A p \in 1 .. Len(air') : y[1] < air'[p]
    <3>1. CASE j \in 1 .. Len(dbg)
      BY <1>1, <2>1, <2>3, <3>1
    <3>2. CASE j = Len(dbg) + 1
      BY <1>1, <2>2, <2>3, <3>2
    <3>3. QED
      BY <1>1, <1>2, <3>1, <3>2
  <2>4. QED
    BY <2>1, <2>3 DEF InOrder
<1>4. \A j \in 1 .. Len(dbg) : \A y \in dbg[j].syms, z \in m.syms : y[1] # z[1]
  <2>1. \A j \in 1 .. Len(dbg) : \A y \in dbg[j].syms : y[1] < Head(air)
    BY OldestLeaves
  <2>2. Head(air) \in Nat
    BY OldestLeaves
  <2>3. QED
    BY <2>1, <2>2
<1>5. OnePerBlock(dbg)'
  BY <1>1, <1>2, <1>4 DEF OnePerBlock
<1>6. QED
  BY <1>3, <1>5

(* A frame of the list is copied from the messages already read.           *)
LEMMA CopiedFrom ==
  ASSUME TypeOK, Collected, pc = "collect", NEW n \in 1 .. Len(rx), NEW y \in rx[n].syms
  PROVE  \E j \in 1 .. i : y \in dbg[j].syms
<1>1. y \in UpTo("sbi", Len(rx))
  BY DEF UpTo, Accepts
<1>2. UpTo("sbi", Len(rx)) = StoredFor("sbi", i)
  BY DEF Collected, Taken, Before, Receivers
<1>3. QED
  BY <1>1, <1>2 DEF StoredFor

LEMMA CollectOnce ==
  ASSUME TypeOK, Collected, OnePerBlock(dbg), OnePerBlock(rx), Collect
  PROVE  OnePerBlock(rx)'
<1> DEFINE m == dbg[i + 1]
           f == [syms |-> m.syms, ok |-> CrcOk(m)]
<1>1. /\ dbg \in Seq(Messages) /\ Len(dbg) \in Nat /\ i \in Nat
      /\ rx \in Seq(Frames) /\ Len(rx) \in Nat
      /\ rx' = IF m.usable THEN Append(rx, f) ELSE rx
      /\ pc = "collect" /\ i < Len(dbg)
  BY LenProperties DEF TypeOK, Collect
<1>2. CASE ~m.usable
  BY <1>1, <1>2 DEF OnePerBlock
<1>3. CASE m.usable
  <2>1. m \in Messages /\ i + 1 \in 1 .. Len(dbg)
    BY <1>1, ElementOfSeq
  <2>2. f \in Frames /\ f.syms = m.syms
    BY <2>1 DEF Messages, Frames, CrcOk
  <2>3. ASSUME NEW n \in 1 .. Len(rx), NEW y \in rx[n].syms, NEW z \in m.syms,
               y[1] = z[1]
        PROVE  FALSE
    <3>1. PICK j \in 1 .. i : y \in dbg[j].syms
      BY <1>1, CopiedFrom
    <3>2. j \in 1 .. Len(dbg) /\ j # i + 1
      BY <1>1
    <3>3. QED
      BY <2>1, <2>3, <3>1, <3>2 DEF OnePerBlock
  <2> HIDE DEF f, m
  <2>4. /\ Len(rx') = Len(rx) + 1 /\ rx'[Len(rx) + 1] = f
        /\ \A n \in 1 .. Len(rx) : rx'[n] = rx[n]
    BY <1>1, <1>3, <2>2, AppendProperties
  <2>5. (1 .. Len(rx) + 1) = (1 .. Len(rx)) \cup {Len(rx) + 1}
    BY <1>1
  <2>6. QED
    BY <2>2, <2>3, <2>4, <2>5 DEF OnePerBlock
<1>4. QED
  BY <1>2, <1>3

LEMMA CapturedAtMostOnce == Spec => []CapturedOnce
<1>1. Init => CapturedOnce
  BY DEF Init, CapturedOnce, InOrder, OnePerBlock
<1>2. TypeOK /\ Collected /\ CapturedOnce /\ [Next]_vars => CapturedOnce'
  <2> SUFFICES ASSUME TypeOK, Collected, CapturedOnce, [Next]_vars, (perBody >= N)'
               PROVE  (InOrder /\ OnePerBlock(dbg) /\ OnePerBlock(rx))'
    BY DEF CapturedOnce
  <2>0. perBody' = perBody
    BY DEF Next, Main, Link, Finished, vars, Post, StartDrain, Stop, Collect, EndCollect,
           Bridge, EndBridge, Judge, Lose, RecvClean, RecvCorrupt, RecvShort, Deliver
  <2>1. /\ perBody >= N /\ perBody \in Packings
        /\ InOrder /\ OnePerBlock(dbg) /\ OnePerBlock(rx)
    BY <2>0 DEF CapturedOnce, TypeOK
  <2>2. ASSUME UNCHANGED <<posted, air, dbg, rx>>
        PROVE  (InOrder /\ OnePerBlock(dbg) /\ OnePerBlock(rx))'
    BY <2>1, <2>2 DEF InOrder, OnePerBlock
  <2>3. ASSUME Receiving
        PROVE  /\ air # <<>> /\ Head(air) \in 1 .. NBodies
               /\ BodySymbols(Head(air)) \in SUBSET Symbols
               /\ BodySymbols(Head(air)) = {Head(air)} \X (1 .. N)
    <3>1. Head(air) \in 1 .. NBodies /\ air # <<>>
      BY <2>3, HeadTailProperties DEF Receiving, TypeOK
    <3>2. QED
      BY <2>1, <3>1, BodyIsSymbols, BodyIsBlock
  <2>4. ASSUME Receiving, NEW m \in Messages, Deliver(m),
               m.syms \subseteq BodySymbols(Head(air))
        PROVE  (InOrder /\ OnePerBlock(dbg) /\ OnePerBlock(rx))'
    <3>1. \A y \in m.syms : y[1] = Head(air)
      BY <2>3, <2>4
    <3>2. InOrder' /\ OnePerBlock(dbg)'
      BY <2>1, <2>3, <2>4, <3>1, DeliverOnce
    <3>3. OnePerBlock(rx)'
      BY <2>1, <2>4 DEF Deliver, OnePerBlock
    <3>4. QED
      BY <3>2, <3>3
  <2>5. CASE RecvClean
    <3> DEFINE m == [syms |-> BodySymbols(Head(air)),
                     crc |-> IF tagging THEN "ok" ELSE "absent",
                     usable |-> TRUE]
    <3>1. m \in Messages /\ Deliver(m) /\ m.syms = BodySymbols(Head(air)) /\ Receiving
      BY <2>3, <2>5 DEF RecvClean, Messages, Tags
    <3> HIDE DEF m
    <3>2. QED
      BY <2>4, <3>1
  <2>6. CASE RecvCorrupt
    <3>1. PICK s \in SUBSET BodySymbols(Head(air)) :
            Deliver([syms |-> s, crc |-> "bad", usable |-> TRUE])
      BY <2>6 DEF RecvCorrupt
    <3> DEFINE m == [syms |-> s, crc |-> "bad", usable |-> TRUE]
    <3>2. m \in Messages /\ m.syms = s /\ Deliver(m) /\ Receiving
      BY <2>3, <2>6, <3>1 DEF RecvCorrupt, Messages, Tags
    <3> HIDE DEF m
    <3>3. QED
      BY <2>4, <3>2
  <2>7. CASE RecvShort
    <3> DEFINE m == [syms |-> {}, crc |-> "bad", usable |-> FALSE]
    <3>1. m \in Messages /\ m.syms = {} /\ Deliver(m) /\ Receiving
      BY <2>7 DEF RecvShort, Messages, Tags
    <3> HIDE DEF m
    <3>2. QED
      BY <2>4, <3>1
  <2>8. CASE Lose
    <3>1. UNCHANGED <<posted, dbg, rx>> /\ air' = Tail(air) /\ air # <<>>
      BY <2>8 DEF Lose, Receiving
    <3>2. InOrder'
      BY <2>1, <3>1, OldestLeaves DEF InOrder
    <3>3. QED
      BY <2>1, <3>1, <3>2 DEF OnePerBlock
  <2>9. CASE Post
    <3>1. /\ air \in Seq(1 .. NBodies) /\ posted \in Nat /\ posted + 1 \in 1 .. NBodies
          /\ air' = Append(air, posted + 1) /\ posted' = posted + 1
          /\ UNCHANGED <<dbg, rx>>
      BY <2>9, PackingPositive, <2>1, FecAssumption
         DEF Post, TypeOK, NBodies, BodiesPerBlock
    <3>2. /\ Len(air) \in Nat /\ Len(air') = Len(air) + 1
          /\ air'[Len(air) + 1] = posted + 1
          /\ \A p \in 1 .. Len(air) : air'[p] = air[p] /\ air[p] \in Nat
      <4>1. \A p \in 1 .. Len(air) : air[p] \in 1 .. NBodies
        BY <3>1, ElementOfSeq
      <4>2. \A p \in 1 .. Len(air) : air[p] \in Nat
        BY <4>1
      <4>3. /\ Len(air') = Len(air) + 1 /\ air'[Len(air) + 1] = posted + 1
            /\ \A p \in 1 .. Len(air) : air'[p] = air[p]
        BY <3>1, AppendProperties
      <4>4. QED
        BY <3>1, <4>2, <4>3, LenProperties
    <3>3. (1 .. Len(air) + 1) = (1 .. Len(air)) \cup {Len(air) + 1}
      BY <3>2
    <3>4. \A p \in 1 .. Len(air') : air'[p] <= posted'
      BY <2>1, <3>1, <3>2, <3>3 DEF InOrder
    <3>5. ASSUME NEW p \in 1 .. Len(air'), NEW q \in 1 .. Len(air'), p < q
          PROVE  air'[p] < air'[q]
      BY <2>1, <3>1, <3>2, <3>3, <3>5 DEF InOrder
    <3>6. ASSUME NEW j \in 1 .. Len(dbg), NEW y \in dbg[j].syms
          PROVE  y[1] <= posted' /\ \A p \in 1 .. Len(air') : y[1] < air'[p]
      <4>1. y[1] \in Nat /\ y[1] <= posted /\ \A p \in 1 .. Len(air) : y[1] < air[p]
        <5>1. dbg[j] \in Messages
          BY ElementOfSeq DEF TypeOK
        <5>2. QED
          BY <2>1, <5>1 DEF InOrder, Messages, Symbols, Blocks
      <4>2. QED
        BY <3>1, <3>2, <3>3, <4>1
    <3>7. QED
      BY <2>1, <3>1, <3>4, <3>5, <3>6 DEF InOrder, OnePerBlock
  <2>10. CASE Stop
    <3>1. UNCHANGED <<posted, dbg, rx>> /\ air' = <<>> /\ Len(air') = 0
      BY <2>10 DEF Stop
    <3>2. QED
      BY <2>1, <3>1 DEF InOrder, OnePerBlock
  <2>11. CASE Collect
    <3>1. UNCHANGED <<posted, air, dbg>>
      BY <2>11 DEF Collect
    <3>2. OnePerBlock(rx)'
      BY <2>1, <2>11, CollectOnce
    <3>3. QED
      BY <2>1, <3>1, <3>2 DEF InOrder, OnePerBlock
  <2>12. CASE StartDrain \/ EndCollect \/ Judge
    BY <2>2, <2>12 DEF StartDrain, EndCollect, Judge
  <2>13. CASE \E r \in Receivers : Bridge(r) \/ EndBridge(r)
    BY <2>2, <2>13 DEF Bridge, EndBridge
  <2>14. CASE UNCHANGED vars
    BY <2>2, <2>14 DEF vars
  <2>15. QED
    BY <2>5, <2>6, <2>7, <2>8, <2>9, <2>10, <2>11, <2>12, <2>13, <2>14
       DEF Next, Main, Link, Finished
<1>3. QED
  BY <1>1, <1>2, TypeCorrect, CaptureKept, PTL DEF Spec

(* The packets of a block are there exactly when the block is complete.    *)
LEMMA PacketsOfBlock ==
  ASSUME NEW S, NEW b \in Blocks
  PROVE  Packets({b}) \subseteq Packets(Full(S)) <=> b \in Full(S)
<1>1. 1 \in 1 .. K
  BY FecAssumption
<1>2. <<b, 1>> \in Packets({b})
  BY <1>1 DEF Packets
<1>3. QED
  BY <1>2 DEF Packets

(* A block is complete only if there is a symbol of it.                    *)
LEMMA FullNotEmpty ==
  ASSUME NEW S, NEW b \in Full(S)
  PROVE  \E x \in 1 .. N : <<b, x>> \in S
<1>1. Indices(S, b) # {}
  BY FecAssumption, FS_EmptySet DEF Full
<1>2. QED
  BY <1>1 DEF Indices

(* With a block in one frame that frame decides: the baseline recovers the *)
(* block exactly when it was captured with a good FCS, sbi exactly when it *)
(* was captured with at most N-K symbols missing.                          *)
THEOREM OneFrameSuffices == Spec => []OneFrameOneBlock
<1>1. IInv /\ WholeFrames /\ CapturedOnce => OneFrameOneBlock
  <2> SUFFICES ASSUME TypeOK, SameCapture, WholeFrames, CapturedOnce,
                      perBody >= N, pc = "done", NEW b \in Blocks
               PROVE  /\ Packets({b}) \subseteq dec["baseline"].pkts
                           <=> \E n \in 1 .. Len(rx) :
                                 rx[n].ok /\ rx[n].syms = {b} \X (1 .. N)
                      /\ Packets({b}) \subseteq dec["sbi"].pkts
                           <=> \E n \in 1 .. Len(rx) :
                                 Cardinality(({b} \X (1 .. N)) \ rx[n].syms) <= N - K
    BY DEF IInv, OneFrameOneBlock
  <2> DEFINE B == UpTo("baseline", Len(rx))
             S == UpTo("sbi", Len(rx))
  <2>1. rx \in Seq(Frames) /\ Len(rx) \in Nat
    BY LenProperties DEF TypeOK
  <2>2. dec["baseline"].pkts = Packets(Full(B)) /\ dec["sbi"].pkts = Packets(Full(S))
    BY DEF SameCapture, Progress, Receivers
  <2>3. S \in SUBSET Symbols /\ B \in SUBSET Symbols
    BY <2>1, UpToSymbols
  <2>4. ASSUME NEW n \in 1 .. Len(rx)
        PROVE  rx[n].syms \in SUBSET Symbols
    <3>1. rx[n] \in Frames
      BY <2>1, ElementOfSeq
    <3>2. QED
      BY <3>1 DEF Frames
  <2>5. ASSUME Packets({b}) \subseteq dec["baseline"].pkts
        PROVE  \E n \in 1 .. Len(rx) : rx[n].ok /\ rx[n].syms = {b} \X (1 .. N)
    <3>1. b \in Full(B)
      BY <2>2, <2>5, PacketsOfBlock
    <3>2. PICK x \in 1 .. N : <<b, x>> \in B
      BY <3>1, FullNotEmpty
    <3>3. PICK n \in 1 .. Len(rx) : rx[n].ok /\ <<b, x>> \in rx[n].syms
      BY <3>2 DEF UpTo, Accepts
    <3>4. PICK c \in Blocks : rx[n].syms = {c} \X (1 .. N)
      BY <3>3 DEF WholeFrames, WholeFrame
    <3>5. c = b
      BY <3>3, <3>4
    <3>6. QED
      BY <3>3, <3>4, <3>5
  <2>6. ASSUME NEW n \in 1 .. Len(rx), rx[n].ok, rx[n].syms = {b} \X (1 .. N)
        PROVE  Packets({b}) \subseteq dec["baseline"].pkts
    <3>1. ({b} \X (1 .. N)) \ rx[n].syms = {}
      BY <2>6
    <3>2. Cardinality({}) = 0 /\ 0 <= N - K
      BY FS_EmptySet, FecAssumption
    <3>3. b \in Full(rx[n].syms)
      BY <2>4, <3>1, <3>2, FewMissing
    <3>4. rx[n].syms \in SUBSET B
      BY <2>6 DEF UpTo, Accepts
    <3>5. b \in Full(B)
      BY <2>3, <3>3, <3>4, FullMonotone
    <3>6. QED
      BY <2>2, <3>5, PacketsOfBlock
  <2>7. ASSUME NEW n \in 1 .. Len(rx),
               Cardinality(({b} \X (1 .. N)) \ rx[n].syms) <= N - K
        PROVE  Packets({b}) \subseteq dec["sbi"].pkts
    <3>1. b \in Full(rx[n].syms)
      BY <2>4, <2>7, FewMissing
    <3>2. rx[n].syms \in SUBSET S
      BY DEF UpTo, Accepts
    <3>3. b \in Full(S)
      BY <2>3, <3>1, <3>2, FullMonotone
    <3>4. QED
      BY <2>2, <3>3, PacketsOfBlock
  <2>8. ASSUME Packets({b}) \subseteq dec["sbi"].pkts
        PROVE  \E n \in 1 .. Len(rx) :
                 Cardinality(({b} \X (1 .. N)) \ rx[n].syms) <= N - K
    <3>1. b \in Full(S)
      BY <2>2, <2>8, PacketsOfBlock
    <3>2. PICK x \in 1 .. N : <<b, x>> \in S
      BY <3>1, FullNotEmpty
    <3>3. PICK n \in 1 .. Len(rx) : <<b, x>> \in rx[n].syms
      BY <3>2 DEF UpTo
    <3>4. Indices(rx[n].syms, b) = Indices(S, b)
      <4> SUFFICES ASSUME NEW z \in 1 .. N
                   PROVE  <<b, z>> \in S <=> <<b, z>> \in rx[n].syms
        BY DEF Indices
      <4>1. ASSUME <<b, z>> \in S
            PROVE  <<b, z>> \in rx[n].syms
        <5>1. PICK k \in 1 .. Len(rx) : <<b, z>> \in rx[k].syms
          BY <4>1 DEF UpTo
        <5>2. <<b, x>>[1] = <<b, z>>[1]
          OBVIOUS
        <5>3. k = n
          BY <3>3, <5>1, <5>2 DEF CapturedOnce, OnePerBlock
        <5>4. QED
          BY <5>1, <5>3
      <4>2. ASSUME <<b, z>> \in rx[n].syms
            PROVE  <<b, z>> \in S
        BY <4>2 DEF UpTo, Accepts
      <4>3. QED
        BY <4>1, <4>2
    <3>5. b \in Full(rx[n].syms)
      BY <3>1, <3>4 DEF Full
    <3>6. Cardinality(({b} \X (1 .. N)) \ rx[n].syms) <= N - K
      BY <2>4, <3>5, FullMisses
    <3>7. QED
      BY <3>6
  <2>9. QED
    BY <2>5, <2>6, <2>7, <2>8
<1>2. QED
  BY <1>1, SafetyInvariant, WholeFramesKept, CapturedAtMostOnce, PTL

-----------------------------------------------------------------------------
(* The refinement.                                                         *)

(* A frame that arrives is a Capture, or nothing when it has no body.      *)
LEMMA DeliverCaptures ==
  ASSUME TypeOK, result = None, NEW m \in Messages, Deliver(m)
  PROVE  [Promise!Next]_Promise!vars
<1>0. dbg \in Seq(Messages) /\ dbg' = Append(dbg, m) /\ result' = result
  BY DEF TypeOK, Deliver
<1>1. /\ StoredFor("baseline", Len(dbg))' = StoredFor("baseline", Len(dbg)) \cup Share("baseline", m)
      /\ StoredFor("sbi", Len(dbg))' = StoredFor("sbi", Len(dbg)) \cup Share("sbi", m)
      /\ StoredCorrupt(Len(dbg))' <=> StoredCorrupt(Len(dbg)) \/ (m.usable /\ ~CrcOk(m))
  BY <1>0, StoredAppend
<1>2. CASE ~m.usable
  <2>1. Share("baseline", m) = {} /\ Share("sbi", m) = {}
    BY <1>2 DEF Share
  <2>2. StoredCorrupt(Len(dbg))' = StoredCorrupt(Len(dbg))
    BY <1>1, <1>2 DEF StoredCorrupt
  <2>3. QED
    BY <1>0, <1>1, <2>1, <2>2 DEF Promise!vars
<1>3. CASE m.usable
  <2>1. /\ Share("baseline", m) = IF CrcOk(m) THEN m.syms ELSE {}
        /\ Share("sbi", m) = m.syms
    BY <1>3 DEF Share
  <2>2. StoredCorrupt(Len(dbg))' = (StoredCorrupt(Len(dbg)) \/ ~CrcOk(m))
    BY <1>1, <1>3 DEF StoredCorrupt
  <2>3. Promise!Capture(m.syms, CrcOk(m))
    BY <1>0, <1>1, <2>1, <2>2 DEF Promise!Capture
  <2>4. m.syms \in SUBSET Promise!Symbols /\ CrcOk(m) \in BOOLEAN
    BY DEF Messages, CrcOk, Symbols, Blocks, Promise!Symbols, Promise!Blocks
  <2>5. QED
    BY <2>3, <2>4 DEF Promise!Next
<1>4. QED
  BY <1>2, <1>3

(* SalvageSpec and the script's decoders recover the same blocks.          *)
LEMMA PromisedBlocks == ASSUME NEW S PROVE Promise!Decodable(S) = Full(S)
<1>1. \A X : Promise!Cardinality(X) = Cardinality(X)
  BY DEF Promise!Cardinality, Cardinality
<1>2. QED
  BY <1>1 DEF Promise!Decodable, Promise!Blocks, Full, Indices, Blocks

(* The comparison of the two counters is the comparison of the two sets of *)
(* blocks.                                                                 *)
LEMMA JudgeCompares ==
  ASSUME TypeOK, SameCapture, Collected, result = None, Judge
  PROVE  Promise!Compare
<1> DEFINE B == StoredFor("baseline", Len(dbg))
           S == StoredFor("sbi", Len(dbg))
<1>0. /\ rx \in Seq(Frames) /\ Len(rx) \in Nat /\ nCorrupt \in Nat /\ Gain \in Int
      /\ dbg' = dbg /\ pc = "judge"
  BY LenProperties DEF TypeOK, Judge, Gain, Receivers
<1>1. Taken = Len(dbg)
  BY <1>0 DEF Taken, Before
<1>2. UpTo("baseline", Len(rx)) = B /\ UpTo("sbi", Len(rx)) = S
  BY <1>1 DEF Collected, Receivers
<1>3. nCorrupt > 0 <=> StoredCorrupt(Len(dbg))
  BY <1>1 DEF Collected
<1>4. Gain = Cardinality(Full(S)) - Cardinality(Full(B))
  BY <1>0, <1>2 DEF SameCapture, Progress, Receivers, Gain
<1>5. S \in SUBSET Symbols /\ B \in SUBSET S
  BY <1>0, <1>2, UpToSymbols, SbiSeesMore
<1>6. Promise!Decodable(S) = Full(S) /\ Promise!Decodable(B) = Full(B)
  BY PromisedBlocks
<1>7. UNCHANGED <<B, S, StoredCorrupt(Len(dbg))>>
  BY <1>0 DEF StoredFor, StoredCorrupt, CrcOk
<1> HIDE DEF B, S
<1>8. Full(B) \in SUBSET Full(S) /\ IsFiniteSet(Full(S))
      /\ Cardinality(Full(B)) \in Nat /\ Cardinality(Full(S)) \in Nat
  BY <1>5, FullMonotone, FullFinite
<1>9. Gain <= 0 <=> Full(S) = Full(B)
  <2>1. Cardinality(Full(B)) <= Cardinality(Full(S))
        /\ (Cardinality(Full(S)) = Cardinality(Full(B)) => Full(S) = Full(B))
    BY <1>8, FS_Subset
  <2>2. QED
    BY <1>4, <1>8, <2>1
<1>10. NeverWorse
  BY <1>0, BothThrough
<1>11. result' = IF ~StoredCorrupt(Len(dbg)) THEN "INCONCLUSIVE"
                 ELSE IF Promise!Decodable(S) = Promise!Decodable(B)
                 THEN "PASS_NO_CONTRAST" ELSE "PASS"
  <2>1. CASE nCorrupt = 0
    <3>1. result' = "INCONCLUSIVE"
      BY <2>1 DEF Judge
    <3>2. ~StoredCorrupt(Len(dbg))
      BY <1>3, <2>1
    <3>3. QED
      BY <3>1, <3>2
  <2>2. CASE nCorrupt # 0 /\ Gain > 0
    <3>0. ~(Gain <= 0)
      BY <1>0, <2>2
    <3>1. result' = "PASS"
      BY <1>10, <2>2, <3>0, Zenon DEF Judge
    <3>2. StoredCorrupt(Len(dbg)) /\ Full(S) # Full(B)
      BY <1>0, <1>3, <1>9, <2>2
    <3>3. QED
      BY <1>6, <3>1, <3>2
  <2>3. CASE nCorrupt # 0 /\ Gain <= 0
    <3>0. ~(Gain > 0)
      BY <1>0, <2>3
    <3>1. result' = "PASS_NO_CONTRAST"
      BY <1>10, <2>3, <3>0, Zenon DEF Judge
    <3>2. StoredCorrupt(Len(dbg)) /\ Full(S) = Full(B)
      BY <1>0, <1>3, <1>9, <2>3
    <3>3. QED
      BY <1>6, <3>1, <3>2
  <2>4. Gain > 0 \/ Gain <= 0
    BY <1>0
  <2>5. QED
    BY <2>1, <2>2, <2>3, <2>4
<1>12. QED
  BY <1>7, <1>11 DEF Promise!Compare, B, S

(* The script with its loops, cursor and incremental decoders implements   *)
(* the two-action promise of SalvageSpec.                                  *)
THEOREM KeepsPromise == Spec => ImplementsPromise
<1>1. Init => Promise!Init
  BY DEF Init, Promise!Init, StoredFor, StoredCorrupt
<1>2. IInv /\ Collected /\ Decided /\ [Next]_vars => [Promise!Next]_Promise!vars
  <2> SUFFICES ASSUME TypeOK, SameCapture, Collected, Decided, [Next]_vars
               PROVE  [Promise!Next]_Promise!vars
    BY DEF IInv
  <2>1. ASSUME UNCHANGED <<dbg, result>>
        PROVE  UNCHANGED Promise!vars
    BY <2>1 DEF Promise!vars, StoredFor, StoredCorrupt, CrcOk
  <2>2. CASE Judge
    <3>1. result = None
      BY <2>2 DEF Judge, Decided
    <3>2. QED
      BY <2>2, <3>1, JudgeCompares DEF Promise!Next
  <2>3. ASSUME Receiving
        PROVE  result = None /\ BodySymbols(Head(air)) \in SUBSET Symbols
    <3>1. Head(air) \in 1 .. NBodies
      BY <2>3, HeadTailProperties DEF Receiving, TypeOK
    <3>2. QED
      BY <2>3, <3>1, BodyIsSymbols DEF Receiving, Decided, TypeOK
  <2>4. CASE RecvClean
    <3> DEFINE m == [syms |-> BodySymbols(Head(air)),
                     crc |-> IF tagging THEN "ok" ELSE "absent",
                     usable |-> TRUE]
    <3>1. m \in Messages /\ Deliver(m)
      BY <2>3, <2>4 DEF RecvClean, Messages, Tags
    <3> HIDE DEF m
    <3>2. QED
      BY <2>3, <2>4, <3>1, DeliverCaptures DEF RecvClean
  <2>5. CASE RecvCorrupt
    <3>1. PICK s \in SUBSET BodySymbols(Head(air)) :
            Deliver([syms |-> s, crc |-> "bad", usable |-> TRUE])
      BY <2>5 DEF RecvCorrupt
    <3>2. [syms |-> s, crc |-> "bad", usable |-> TRUE] \in Messages
      BY <2>3, <2>5 DEF RecvCorrupt, Messages, Tags
    <3>3. QED
      BY <2>3, <2>5, <3>1, <3>2, DeliverCaptures DEF RecvCorrupt
  <2>6. CASE RecvShort
    <3>1. [syms |-> {}, crc |-> "bad", usable |-> FALSE] \in Messages
      BY DEF Messages, Tags
    <3>2. QED
      BY <2>3, <2>6, <3>1, DeliverCaptures DEF RecvShort
  <2>7. CASE Lose
    BY <2>1, <2>7 DEF Lose
  <2>8. CASE Post \/ StartDrain \/ Stop \/ Collect \/ EndCollect
    BY <2>1, <2>8 DEF Post, StartDrain, Stop, Collect, EndCollect
  <2>9. CASE \E r \in Receivers : Bridge(r) \/ EndBridge(r)
    BY <2>1, <2>9 DEF Bridge, EndBridge
  <2>10. CASE UNCHANGED vars
    BY <2>1, <2>10 DEF vars
  <2>11. QED
    BY <2>2, <2>4, <2>5, <2>6, <2>7, <2>8, <2>9, <2>10
       DEF Next, Main, Link, Finished
<1>3. QED
  BY <1>1, <1>2, SafetyInvariant, CaptureKept, VerdictIsComparison, PTL
     DEF Spec, Promise!Spec, ImplementsPromise
=============================================================================
