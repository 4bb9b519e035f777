-------------------------- MODULE FrameLayoutProofs --------------------------
(***************************************************************************)
(* Proofs about FrameLayout and FrameHeader, for every set of formats and  *)
(* PSDU lengths: type correctness, the pilots' walk through the polarity   *)
(* sequence, and what the CRC of a header finds; and, up to the longest    *)
(* length the L-SIG's 12 bits can hold, that the L-SIG covers the whole    *)
(* frame and that the header describes the frame that was built.           *)
(***************************************************************************)
EXTENDS FrameHeader, FiniteSetTheorems, WellFoundedInduction, TLAPS

(* Symbol counts are natural numbers, for every rate of the tables.        *)
LEMMA CeilNat ==
  ASSUME NEW a \in Nat, NEW d \in Nat, d > 0
  PROVE  Ceil(a, d) \in Nat
BY SMT DEF Ceil

(* Every n_dbps of the tables is a positive number.                        *)
LEMMA RatesPositive ==
  ASSUME NEW f \in AllFormats, NEW d \in Rates(f)
  PROVE  d \in Nat /\ d > 0 /\ 2 * d \in Nat /\ 2 * d > 0
BY SMT DEF Rates, AllFormats, Dbps20, Dbps40

(* The symbols before the data are counted by naturals; there is an L-SIG. *)
LEMMA HeaderNat ==
  ASSUME fmt \in AllFormats
  PROVE  /\ NSig \in Nat /\ NTraining \in Nat /\ NSigB \in Nat
         /\ NHeader \in Nat /\ NSig >= 1
         /\ NHeader = NSig + NTraining + NSigB
BY SMT DEF AllFormats, NSig, NTraining, NSigB, NHeader

(* A PSDU takes a natural number of data symbols in every format.          *)
LEMMA NSymNat ==
  ASSUME fmt \in AllFormats, dbps \in Rates(fmt), len \in Nat
  PROVE  NSym \in Nat
<1>. DEFINE a == 16 + 8 * len + 6
<1>1. a \in Nat
  OBVIOUS
<1>2. /\ dbps \in Nat /\ dbps > 0
      /\ 2 * dbps \in Nat /\ 2 * dbps > 0
  BY RatesPositive
<1>3. Ceil(a, dbps) \in Nat /\ Ceil(a, 2 * dbps) \in Nat
  BY <1>1, <1>2, CeilNat
<1>4. Ceil(648, 52) \in Nat
  BY CeilNat
<1>. HIDE DEF a
<1>5. \A x \in Nat : Even(x) \in Nat
  BY SMT DEF Even
<1>. QED
  BY <1>3, <1>4, <1>5, Zenon DEF NSym, AllFormats, a

-----------------------------------------------------------------------------
(* The arithmetic of the L-SIG: five symbols of header and the data, in    *)
(* pairs if need be, are covered by 16 octets more than the PSDU has.      *)
LEMMA AnnouncedNat ==
  ASSUME NEW l \in Nat, l <= 4079, NEW least \in {40, 60}
  PROVE  Announced(l, least) \in Nat /\ Announced(l, least) < 4096
BY SMT DEF Announced

(* At 20 MHz, for each of the eight rates: the data symbols last no longer *)
(* than the announced octets at 24 bits per legacy symbol.                 *)
LEMMA Cover20 ==
  ASSUME NEW l \in Nat, l <= 4079, NEW d \in Dbps20
  PROVE  /\ 5 + Ceil(16 + 8 * l + 6, d) <= Ceil(16 + 8 * Announced(l, 40) + 6, 24)
         /\ 5 + Ceil(16 + 8 * l + 6, 2 * d) <= Ceil(16 + 8 * Announced(l, 40) + 6, 24)
         /\ 5 + Even(Ceil(16 + 8 * l + 6, d)) <= Ceil(16 + 8 * Announced(l, 40) + 6, 24)
<1>1. CASE d = 26  BY <1>1, SMTT(60) DEF Ceil, Even, Announced
<1>2. CASE d = 52  BY <1>2, SMTT(60) DEF Ceil, Even, Announced
<1>3. CASE d = 78  BY <1>3, SMTT(60) DEF Ceil, Even, Announced
<1>4. CASE d = 104 BY <1>4, SMTT(60) DEF Ceil, Even, Announced
<1>5. CASE d = 156 BY <1>5, SMTT(60) DEF Ceil, Even, Announced
<1>6. CASE d = 208 BY <1>6, SMTT(60) DEF Ceil, Even, Announced
<1>7. CASE d = 234 BY <1>7, SMTT(60) DEF Ceil, Even, Announced
<1>8. CASE d = 260 BY <1>8, SMTT(60) DEF Ceil, Even, Announced
<1>. QED  BY <1>1, <1>2, <1>3, <1>4, <1>5, <1>6, <1>7, <1>8 DEF Dbps20

(* The same at 40 MHz.                                                     *)
LEMMA Cover40 ==
  ASSUME NEW l \in Nat, l <= 4079, NEW d \in Dbps40
  PROVE  4 + Ceil(16 + 8 * l + 6, d) <= Ceil(16 + 8 * Announced(l, 60) + 6, 24)
<1>1. CASE d = 54  BY <1>1, SMTT(60) DEF Ceil, Announced
<1>2. CASE d = 108 BY <1>2, SMTT(60) DEF Ceil, Announced
<1>3. CASE d = 162 BY <1>3, SMTT(60) DEF Ceil, Announced
<1>4. CASE d = 216 BY <1>4, SMTT(60) DEF Ceil, Announced
<1>5. CASE d = 324 BY <1>5, SMTT(60) DEF Ceil, Announced
<1>6. CASE d = 432 BY <1>6, SMTT(60) DEF Ceil, Announced
<1>7. CASE d = 486 BY <1>7, SMTT(60) DEF Ceil, Announced
<1>8. CASE d = 540 BY <1>8, SMTT(60) DEF Ceil, Announced
<1>. QED  BY <1>1, <1>2, <1>3, <1>4, <1>5, <1>6, <1>7, <1>8 DEF Dbps40

(* The same for the one LDPC codeword.                                     *)
LEMMA CoverLdpc ==
  ASSUME NEW l \in Nat, 16 + 8 * l <= 324
  PROVE  4 + Ceil(648, 52) <= Ceil(16 + 8 * Announced(l, 60) + 6, 24)
BY SMT DEF Ceil, Announced

-----------------------------------------------------------------------------
(* Type correctness: a frame never outgrows the symbols planned for it.    *)
LEMMA LengthsNat ==
  ASSUME TypeOK
  PROVE  /\ len \in Nat /\ n \in Nat /\ pol \in Nat
         /\ NHeader \in Nat /\ NSym \in Nat /\ NSig \in Nat
         /\ NTraining \in Nat /\ NSigB \in Nat /\ NSig >= 1
         /\ NHeader = NSig + NTraining + NSigB
         /\ n <= NHeader + NSym
<1>1. fmt \in AllFormats /\ dbps \in Rates(fmt) /\ len \in Nat
  BY FrameAssumption DEF TypeOK
<1>2. NSym \in Nat
  BY <1>1, NSymNat
<1>3. /\ NSig \in Nat /\ NTraining \in Nat /\ NSigB \in Nat
      /\ NHeader \in Nat /\ NSig >= 1 /\ NHeader = NSig + NTraining + NSigB
  BY <1>1, HeaderNat
<1>. QED
  BY <1>1, <1>2, <1>3, SMT DEF TypeOK

(* What a frame plans depends on variables no step changes.                *)
LEMMA SamePlan ==
  ASSUME UNCHANGED <<fmt, dbps, len>>
  PROVE  /\ NSym' = NSym /\ NHeader' = NHeader /\ NSig' = NSig
         /\ LSigField' = LSigField
BY DEF NSym, NHeader, NSig, NTraining, NSigB, LSigField, LSigLen

(* What FirstData and PolarityOffset come to: the polarity index of data   *)
(* symbol 0.                                                               *)
DataPolarity ==
  CASE fmt = "legacy" -> 1
    [] fmt \in {"ht", "ht40", "ldpc", "stbc"} -> 3
    [] fmt = "vht" -> 4
    [] fmt = "mimo" -> 5

(* The index each data symbol takes from the polarity sequence.            *)
LEMMA DataPolarityIs ==
  ASSUME fmt \in AllFormats
  PROVE  /\ FirstData \in Nat /\ PolarityOffset \in Nat
         /\ FirstData - PolarityOffset = DataPolarity
         /\ DataPolarity \in Nat
         /\ fmt \notin {"mimo", "vht"} => DataPolarity = NSig /\ NSigB = 0
BY DEF AllFormats, FirstData, PolarityOffset, DataPolarity, NSig, NSigB

(* A frame starts with nothing built.                                      *)
LEMMA InitTyped == Init => TypeOK
<1>. SUFFICES ASSUME Init PROVE TypeOK
  OBVIOUS
<1>1. fmt \in AllFormats /\ dbps \in Rates(fmt) /\ len \in Nat
  BY FrameAssumption DEF Init
<1>2. NHeader \in Nat /\ NSym \in Nat
  BY <1>1, HeaderNat, NSymNat
<1>3. n \in 0 .. NHeader + NSym /\ pol \in 0 .. 126
  BY <1>2, SMT DEF Init
<1>. QED  BY <1>1, <1>3 DEF Init, TypeOK

(* Appending a symbol keeps the types.                                     *)
LEMMA NextTyped == TypeOK /\ [Next]_vars => TypeOK'
<1>. SUFFICES ASSUME TypeOK, [Next]_vars PROVE TypeOK'
  OBVIOUS
<1>0. /\ NHeader \in Nat /\ NSym \in Nat /\ NSig \in Nat /\ n \in Nat
      /\ NTraining \in Nat /\ NSigB \in Nat
      /\ NHeader = NSig + NTraining + NSigB
  BY LengthsNat
<1>a. FirstData \in Nat /\ PolarityOffset \in Nat
  BY DataPolarityIs DEF TypeOK
<1>b. ASSUME Append1, n < NHeader + NSym, pol' \in 0 .. 126
      PROVE  TypeOK'
  <2>1. NSym' = NSym /\ NHeader' = NHeader
    BY <1>b, SamePlan DEF Append1
  <2>2. n' \in 0 .. NHeader + NSym
    BY <1>0, <1>b, SMT DEF Append1
  <2>. QED  BY <1>b, <2>1, <2>2 DEF Append1, TypeOK
<1>1. CASE SigSymbol
  BY <1>0, <1>1, <1>b, SMT DEF SigSymbol
<1>2. CASE TrainingSymbol
  <2>1. n < NHeader + NSym /\ pol' \in 0 .. 126
    BY <1>0, <1>2, SMT DEF TrainingSymbol, TypeOK
  <2>. QED  BY <1>2, <2>1, <1>b DEF TrainingSymbol
<1>3. CASE SigBSymbol
  BY <1>0, <1>3, <1>b, SMT DEF SigBSymbol
<1>4. CASE DataSymbol
  BY <1>0, <1>a, <1>4, <1>b, SMT DEF DataSymbol
<1>5. CASE Finished \/ UNCHANGED vars
  BY <1>5, SamePlan DEF Finished, vars, TypeOK
<1>. QED
  BY <1>1, <1>2, <1>3, <1>4, <1>5 DEF Next

(* Every frame stays within its plan, whatever its format, rate and        *)
(* length.                                                                 *)
THEOREM FrameTypeCorrect == Spec => []TypeOK
<1>. QED  BY InitTyped, NextTyped, PTL DEF Spec

-----------------------------------------------------------------------------
(* The L-SIG covers the frame for every PSDU of at most 4079 octets, the   *)
(* longest whose announced length fits the field's 12 bits.                *)
LEMMA PlanCovered ==
  ASSUME TypeOK, len <= 4079
  PROVE  LSigCovers
<1>0. /\ len \in Nat /\ len <= 4079 /\ dbps \in Rates(fmt) /\ fmt \in AllFormats
      /\ NHeader \in Nat /\ NSym \in Nat /\ n \in Nat /\ n <= NHeader + NSym
  BY LengthsNat, SMT DEF TypeOK
<1>1. CASE fmt = "legacy"
  <2>1. LSigField = len /\ NHeader = 1 /\ NSym = Ceil(16 + 8 * len + 6, 24)
    <3>1. LSigLen = len /\ NSig = 1 /\ NTraining = 0 /\ NSigB = 0 /\ dbps = 24
      BY <1>0, <1>1 DEF LSigLen, NSig, NTraining, NSigB, Rates
    <3>2. NSym = Ceil(16 + 8 * len + 6, 24)
      BY <1>1, <3>1 DEF NSym
    <3>. QED  BY <1>0, <3>1, <3>2, SMT DEF LSigField, NHeader
  <2>. QED  BY <1>0, <2>1, SMT DEF LSigCovers
<1>2. CASE fmt \in {"ht", "mimo", "vht", "stbc"}
  <2>. DEFINE L == Announced(len, 40)
  <2>1. LSigLen = L
    BY <1>2 DEF LSigLen
  <2>2. L \in Nat /\ L < 4096
    BY <1>0, AnnouncedNat
  <2>. HIDE DEF L
  <2>a. 16 + 8 * L + 6 \in Nat /\ LSigField = L
    BY <2>1, <2>2, SMT DEF LSigField
  <2>3. dbps \in Dbps20
    BY <1>0, <1>2 DEF Rates
  <2>4. /\ 5 + Ceil(16 + 8 * len + 6, dbps) <= Ceil(16 + 8 * L + 6, 24)
        /\ 5 + Ceil(16 + 8 * len + 6, 2 * dbps) <= Ceil(16 + 8 * L + 6, 24)
        /\ 5 + Even(Ceil(16 + 8 * len + 6, dbps)) <= Ceil(16 + 8 * L + 6, 24)
    BY <1>0, <2>3, Cover20 DEF L
  <2>5. NHeader <= 6
    <3>1. NSig = 3 /\ (\/ NTraining = 2 /\ NSigB = 0
                       \/ NTraining = 2 /\ NSigB = 1
                       \/ NTraining = 3 /\ NSigB = 0)
      BY <1>2 DEF NSig, NTraining, NSigB
    <3>. QED  BY <3>1, SMT DEF NHeader
  <2>6. \/ NSym = Ceil(16 + 8 * len + 6, dbps)
        \/ NSym = Ceil(16 + 8 * len + 6, 2 * dbps)
        \/ NSym = Even(Ceil(16 + 8 * len + 6, dbps))
    BY <1>2 DEF NSym
  <2>7. Ceil(16 + 8 * L + 6, 24) \in Nat
    BY <2>a, CeilNat
  <2>8. 5 + NSym <= Ceil(16 + 8 * L + 6, 24)
    BY <2>4, <2>6
  <2>. QED  BY <1>0, <2>a, <2>5, <2>7, <2>8, SMT DEF LSigCovers
<1>3. CASE fmt \in {"ht40", "ldpc"}
  <2>. DEFINE L == Announced(len, 60)
  <2>1. LSigLen = L
    BY <1>3 DEF LSigLen
  <2>2. L \in Nat /\ L < 4096
    BY <1>0, AnnouncedNat
  <2>. HIDE DEF L
  <2>a. 16 + 8 * L + 6 \in Nat /\ LSigField = L
    BY <2>1, <2>2, SMT DEF LSigField
  <2>3. 4 + NSym <= Ceil(16 + 8 * L + 6, 24)
    <3>1. CASE fmt = "ht40"
      <4>1. dbps \in Dbps40
        BY <1>0, <3>1 DEF Rates
      <4>2. NSym = Ceil(16 + 8 * len + 6, dbps)
        BY <3>1 DEF NSym
      <4>. QED  BY <1>0, <4>1, <4>2, Cover40 DEF L
    <3>2. CASE fmt = "ldpc"
      <4>1. 16 + 8 * len <= 324
        BY <3>2 DEF TypeOK, Fits
      <4>2. NSym = Ceil(648, 52)
        BY <3>2 DEF NSym
      <4>3. len \in Nat
        BY <1>0, SMT
      <4>. QED  BY <4>1, <4>2, <4>3, CoverLdpc DEF L
    <3>. QED  BY <1>3, <3>1, <3>2
  <2>4. NHeader = 5
    <3>1. NSig = 3 /\ NTraining = 2 /\ NSigB = 0
      BY <1>3 DEF NSig, NTraining, NSigB
    <3>. QED  BY <3>1, SMT DEF NHeader
  <2>5. Ceil(16 + 8 * L + 6, 24) \in Nat
    BY <2>a, CeilNat
  <2>. QED  BY <1>0, <2>a, <2>3, <2>4, <2>5, SMT DEF LSigCovers
<1>. QED  BY <1>0, <1>1, <1>2, <1>3 DEF AllFormats

(* A legacy receiver stays off the air for the whole frame: the L-SIG's    *)
(* length covers every symbol gen_ht, gen_vht and their siblings build,    *)
(* for every PSDU whose announced length fits the 12 bits of the field.    *)
THEOREM LegacyReceiversDefer ==
  ASSUME Lengths \subseteq 0 .. 4079
  PROVE  Spec => []LSigCovers
<1>1. TypeOK => LSigCovers
  <2>1. TypeOK => len <= 4079
    BY SMT DEF TypeOK
  <2>. QED  BY <2>1, PlanCovered
<1>. QED  BY <1>1, FrameTypeCorrect, PTL

-----------------------------------------------------------------------------
(* The pilots' walk through the polarity sequence.  That a step advances   *)
(* by one is not inductive by itself: where the walk is must be known from *)
(* the number of symbols sent.                                             *)
WalkOK ==
  fmt \notin {"mimo", "vht"} =>
    pol = IF n = 0 THEN 126
          ELSE IF n <= NSig THEN n - 1
          ELSE IF n <= NHeader THEN NSig - 1
          ELSE (NSig - 1 + (n - NHeader)) % 127

Advances ==
  fmt \notin {"mimo", "vht"} /\ (n < NSig \/ (NHeader <= n /\ n' > n))
    => pol' = (pol + 1) % 127

(* One symbol takes the next entry of the polarity sequence.               *)
LEMMA WalkStep ==
  ASSUME TypeOK, WalkOK, [Next]_vars
  PROVE  WalkOK' /\ [Advances]_vars
<1>0. /\ NHeader \in Nat /\ NSym \in Nat /\ NSig \in Nat /\ n \in Nat
      /\ NTraining \in Nat /\ NSigB \in Nat /\ NSig >= 1
      /\ NHeader = NSig + NTraining + NSigB
  BY LengthsNat
<1>1. /\ FirstData \in Nat /\ PolarityOffset \in Nat
      /\ fmt \notin {"mimo", "vht"} => FirstData - PolarityOffset = NSig /\ NSigB = 0
  BY DataPolarityIs DEF TypeOK
<1>2. fmt \notin {"mimo", "vht"} => NSig <= 3
  BY DEF NSig
<1>3. Append1 => fmt' = fmt /\ NSig' = NSig /\ NHeader' = NHeader /\ n' = n + 1
  BY SamePlan DEF Append1
<1>4. CASE SigSymbol
  BY <1>0, <1>1, <1>2, <1>3, <1>4, SMT DEF SigSymbol, WalkOK, Advances
<1>5. CASE TrainingSymbol
  BY <1>0, <1>1, <1>2, <1>3, <1>5, SMT DEF TrainingSymbol, WalkOK, Advances
<1>6. CASE SigBSymbol
  BY <1>0, <1>1, <1>3, <1>6, SMT DEF SigBSymbol, WalkOK, Advances
<1>7. CASE DataSymbol
  BY <1>0, <1>1, <1>2, <1>3, <1>7, SMT DEF DataSymbol, WalkOK, Advances
<1>8. CASE Finished \/ UNCHANGED vars
  <2>1. UNCHANGED <<fmt, dbps, len>> /\ n' = n /\ pol' = pol
    BY <1>8 DEF Finished, vars
  <2>2. NSig' = NSig /\ NHeader' = NHeader
    BY <2>1, SamePlan
  <2>3. WalkOK'
    BY <2>1, <2>2 DEF WalkOK
  <2>. QED  BY <1>8, <2>3 DEF Finished
<1>. QED
  BY <1>4, <1>5, <1>6, <1>7, <1>8 DEF Next

(* From the L-SIG to the last data symbol, each piloted symbol of these    *)
(* formats uses the next entry of the polarity sequence, whatever the      *)
(* number of symbols (the sequence has 127 entries and wraps).             *)
THEOREM PilotsInStep == Spec => PolarityAdvances
<1>1. Init => WalkOK
  BY DEF Init, WalkOK
<1>2. TypeOK /\ WalkOK /\ [Next]_vars => WalkOK' /\ [Advances]_vars
  BY WalkStep
<1>. QED
  BY <1>1, <1>2, FrameTypeCorrect, PTL DEF Spec, PolarityAdvances, Advances

-----------------------------------------------------------------------------
(* The header.  A field read back is what was written, modulo its width.   *)
LEMMA NatInduct ==
  ASSUME NEW T \in SUBSET Nat, 0 \in T, \A k \in T : k + 1 \in T
  PROVE  T = Nat
<1> DEFINE R == OpToRel(<, Nat)
<1>1. IsWellFoundedOn(R, Nat)
  BY NatLessThanWellFounded
<1>2. \A a, b \in Nat : a < b => <<a, b>> \in R
  BY DEF OpToRel
<1> HIDE DEF R
<1> SUFFICES ASSUME Nat \ T # {} PROVE FALSE
  OBVIOUS
<1>3. PICK x \in Nat \ T : \A y \in Nat \ T : ~ (<<y, x>> \in R)
  BY <1>1, WFMin
<1>4. x # 0 /\ x - 1 \in Nat /\ x - 1 < x /\ (x - 1) + 1 = x
  OBVIOUS
<1>5. x - 1 \in T
  BY <1>2, <1>3, <1>4
<1>6. QED
  BY <1>3, <1>4, <1>5

LEMMA Powers ==
  /\ 2^0 = 1 /\ 2^1 = 2 /\ 2^2 = 4 /\ 2^3 = 8 /\ 2^4 = 16 /\ 2^5 = 32 /\ 2^6 = 64
  /\ 2^7 = 128 /\ 2^8 = 256 /\ 2^9 = 512 /\ 2^10 = 1024 /\ 2^11 = 2048 /\ 2^12 = 4096
  /\ 2^13 = 8192 /\ 2^14 = 16384 /\ 2^15 = 32768 /\ 2^16 = 65536 /\ 2^17 = 131072
OBVIOUS

LEMMA LowBits ==
  ASSUME NEW v \in Nat, NEW e \in 0 .. 16
  PROVE  /\ v % 2^(e + 1) = (v % 2^e) + (IF (v \div 2^e) % 2 = 1 THEN 2^e ELSE 0)
         /\ v % 2^e \in Nat /\ 2^e \in Nat
<1>1. e \in {0, 1, 2, 3, 4, 5, 6, 7, 8, 9, 10, 11, 12, 13, 14, 15, 16}
  OBVIOUS
<1>2. CASE e = 0  BY <1>2, Powers
<1>3. CASE e = 1  BY <1>3, Powers
<1>4. CASE e = 2  BY <1>4, Powers
<1>5. CASE e = 3  BY <1>5, Powers
<1>6. CASE e = 4  BY <1>6, Powers
<1>7. CASE e = 5  BY <1>7, Powers
<1>8. CASE e = 6  BY <1>8, Powers
<1>9. CASE e = 7  BY <1>9, Powers
<1>10. CASE e = 8  BY <1>10, Powers
<1>11. CASE e = 9  BY <1>11, Powers
<1>12. CASE e = 10 BY <1>12, Powers
<1>13. CASE e = 11 BY <1>13, Powers
<1>14. CASE e = 12 BY <1>14, Powers
<1>15. CASE e = 13 BY <1>15, Powers
<1>16. CASE e = 14 BY <1>16, Powers
<1>17. CASE e = 15 BY <1>17, Powers
<1>18. CASE e = 16 BY <1>18, Powers
<1>19. QED
  BY <1>1, <1>2, <1>3, <1>4, <1>5, <1>6, <1>7, <1>8, <1>9, <1>10, <1>11, <1>12, <1>13,
     <1>14, <1>15, <1>16, <1>17, <1>18

(* What is read at a place where value's bits are is value.                *)
LEMMA ReadsBack ==
  ASSUME NEW bits, NEW first \in Nat, NEW width \in 1 .. 17, NEW value \in Nat,
         \A e \in 0 .. width - 1 : first + e \in bits <=> (value \div 2^e) % 2 = 1
  PROVE  Read(bits, first, width) = value % 2^width
<1> DEFINE F(g) == [j \in 0 .. width |->
                      IF j = 0 THEN 0
                      ELSE g[j - 1] + (IF first + j - 1 \in bits THEN 2^(j - 1) ELSE 0)]
           h == [j \in 0 .. width |-> value % 2^j]
           w == CHOOSE g : g = F(g)
<1>1. ASSUME NEW j \in 0 .. width, j # 0
      PROVE  h[j] = h[j - 1] + (IF first + j - 1 \in bits THEN 2^(j - 1) ELSE 0)
  <2> DEFINE e == j - 1
  <2>1. e \in 0 .. 16 /\ e \in 0 .. width - 1 /\ e \in 0 .. width /\ j = e + 1
        /\ first + j - 1 = first + e
    BY <1>1
  <2>2. first + e \in bits <=> (value \div 2^e) % 2 = 1
    BY <2>1
  <2>3. value % 2^(e + 1) = (value % 2^e) + (IF (value \div 2^e) % 2 = 1 THEN 2^e ELSE 0)
    BY <2>1, LowBits
  <2> HIDE DEF e
  <2>4. h[j] = value % 2^(e + 1) /\ h[e] = value % 2^e
    BY <2>1
  <2>5. QED
    BY <2>1, <2>2, <2>3, <2>4 DEF e
<1>2. h[0] = 0
  BY Powers
<1>3. h = F(h)
  <2>1. \A j \in 0 .. width : h[j] = F(h)[j]
    BY <1>1, <1>2
  <2>2. QED
    BY <2>1, Zenon
<1>4. w = F(w)
  BY <1>3
<1>5. Read(bits, first, width) = w[width]
  BY DEF Read
<1> HIDE DEF h, w
<1> DEFINE T == {j \in Nat : j <= width => w[j] = h[j]}
<1>6. 0 \in T
  <2>1. w[0] = 0
    BY <1>4
  <2>2. QED
    BY <1>2, <2>1
<1>7. ASSUME NEW j \in T
      PROVE  j + 1 \in T
  <2> SUFFICES ASSUME j + 1 <= width PROVE w[j + 1] = h[j + 1]
    OBVIOUS
  <2> DEFINE i == j + 1
  <2>1. i \in 0 .. width /\ i # 0 /\ i - 1 = j /\ j \in Nat /\ j <= width
    OBVIOUS
  <2> HIDE DEF i
  <2>2. w[i] = w[i - 1] + (IF first + i - 1 \in bits THEN 2^(i - 1) ELSE 0)
    BY <1>4, <2>1
  <2>3. h[i] = h[i - 1] + (IF first + i - 1 \in bits THEN 2^(i - 1) ELSE 0)
    BY <1>1, <2>1
  <2>4. w[i - 1] = h[i - 1]
    BY <2>1
  <2>5. QED
    BY <2>2, <2>3, <2>4 DEF i
<1>8. T = Nat
  <2> HIDE DEF T
  <2>1. T \in SUBSET Nat
    BY DEF T
  <2>2. QED
    BY <1>6, <1>7, <2>1, NatInduct
<1>9. width \in T
  BY <1>8
<1>10. QED
  BY <1>5, <1>9 DEF h

LEMMA OnesAre ==
  ASSUME NEW value, NEW first \in Nat, NEW width \in Nat
  PROVE  /\ \A e \in 0 .. width - 1 :
              first + e \in Ones(value, first, width) <=> (value \div 2^e) % 2 = 1
         /\ Ones(value, first, width) \subseteq first .. first + width - 1
<1>1. ASSUME NEW e \in 0 .. width - 1
      PROVE  first + e \in Ones(value, first, width) <=> (value \div 2^e) % 2 = 1
  <2>1. \A i \in 0 .. width - 1 : first + i = first + e => i = e
    OBVIOUS
  <2>2. QED
    BY <2>1 DEF Ones
<1>2. Ones(value, first, width) \subseteq first .. first + width - 1
  BY DEF Ones
<1>3. QED
  BY <1>1, <1>2

(* The receiver finds a rate by the number of those below it.              *)
LEMMA Tables ==
  ASSUME NEW T \in {Dbps20, Dbps40}
  PROVE  T \in SUBSET Nat /\ IsFiniteSet(T) /\ Cardinality(T) <= 8
<1>1. IsFiniteSet(1 .. 8) /\ Cardinality(1 .. 8) = 8
  <2>1. 1 \in Int /\ 8 \in Int
    OBVIOUS
  <2>2. IsFiniteSet(1 .. 8) /\ Cardinality(1 .. 8) = IF 1 > 8 THEN 0 ELSE 8 - 1 + 1
    BY <2>1, FS_Interval
  <2>3. QED
    BY <2>2
<1>2. ASSUME NEW f, f \in Surjection(1 .. 8, T)
      PROVE  IsFiniteSet(T) /\ Cardinality(T) <= 8
  BY <1>1, <1>2, FS_Surjection
<1>3. CASE T = Dbps20
  <2> DEFINE f == [i \in 1 .. 8 |->
                     CASE i = 1 -> 26 [] i = 2 -> 52 [] i = 3 -> 78 [] i = 4 -> 104
                       [] i = 5 -> 156 [] i = 6 -> 208 [] i = 7 -> 234 [] i = 8 -> 260]
  <2>1. /\ f[1] = 26 /\ f[2] = 52 /\ f[3] = 78 /\ f[4] = 104
        /\ f[5] = 156 /\ f[6] = 208 /\ f[7] = 234 /\ f[8] = 260
    OBVIOUS
  <2>2. 1 .. 8 = {1, 2, 3, 4, 5, 6, 7, 8} /\ f = [i \in 1 .. 8 |-> f[i]]
    OBVIOUS
  <2> HIDE DEF f
  <2>3. f \in [1 .. 8 -> T]
    BY <1>3, <2>1, <2>2 DEF Dbps20
  <2>4. \A d \in T : \E i \in 1 .. 8 : f[i] = d
    BY <1>3, <2>1, <2>2 DEF Dbps20
  <2>5. f \in Surjection(1 .. 8, T)
    BY <2>3, <2>4 DEF Surjection
  <2>6. QED
    BY <1>2, <1>3, <2>5 DEF Dbps20
<1>4. CASE T = Dbps40
  <2> DEFINE f == [i \in 1 .. 8 |->
                     CASE i = 1 -> 54 [] i = 2 -> 108 [] i = 3 -> 162 [] i = 4 -> 216
                       [] i = 5 -> 324 [] i = 6 -> 432 [] i = 7 -> 486 [] i = 8 -> 540]
  <2>1. /\ f[1] = 54 /\ f[2] = 108 /\ f[3] = 162 /\ f[4] = 216
        /\ f[5] = 324 /\ f[6] = 432 /\ f[7] = 486 /\ f[8] = 540
    OBVIOUS
  <2>2. 1 .. 8 = {1, 2, 3, 4, 5, 6, 7, 8} /\ f = [i \in 1 .. 8 |-> f[i]]
    OBVIOUS
  <2> HIDE DEF f
  <2>3. f \in [1 .. 8 -> T]
    BY <1>4, <2>1, <2>2 DEF Dbps40
  <2>4. \A d \in T : \E i \in 1 .. 8 : f[i] = d
    BY <1>4, <2>1, <2>2 DEF Dbps40
  <2>5. f \in Surjection(1 .. 8, T)
    BY <2>3, <2>4 DEF Surjection
  <2>6. QED
    BY <1>2, <1>4, <2>5 DEF Dbps40
<1>5. QED
  BY <1>3, <1>4

BelowIn(T, d) == {x \in T : x < d}

LEMMA RankBelow ==
  ASSUME NEW T \in {Dbps20, Dbps40}, NEW d \in T
  PROVE  /\ Cardinality(BelowIn(T, d)) \in 0 .. 7
         /\ RxDbps(Cardinality(BelowIn(T, d)), T) = d
<1>1. T \in SUBSET Nat /\ IsFiniteSet(T) /\ Cardinality(T) <= 8
  BY Tables
<1>2. ASSUME NEW e \in T
      PROVE  /\ IsFiniteSet(BelowIn(T, e)) /\ Cardinality(BelowIn(T, e)) \in Nat
             /\ IsFiniteSet(BelowIn(T, e) \cup {e})
             /\ Cardinality(BelowIn(T, e) \cup {e}) = Cardinality(BelowIn(T, e)) + 1
  <2>1. BelowIn(T, e) \in SUBSET T /\ e \notin BelowIn(T, e)
    BY <1>1 DEF BelowIn
  <2>2. IsFiniteSet(BelowIn(T, e)) /\ Cardinality(BelowIn(T, e)) \in Nat
    BY <1>1, <2>1, FS_Subset, FS_CardinalityType
  <2>3. QED
    BY <2>1, <2>2, FS_AddElement
<1>3. Cardinality(BelowIn(T, d)) \in 0 .. 7
  <2>1. BelowIn(T, d) \cup {d} \in SUBSET T
    BY DEF BelowIn
  <2>2. Cardinality(BelowIn(T, d) \cup {d}) <= Cardinality(T) /\ Cardinality(T) \in Nat
    BY <1>1, <2>1, FS_Subset, FS_CardinalityType
  <2>3. QED
    BY <1>1, <1>2, <2>2
<1>4. ASSUME NEW b \in T, NEW c \in T, b < c
      PROVE  Cardinality(BelowIn(T, b)) < Cardinality(BelowIn(T, c))
  <2>1. BelowIn(T, b) \cup {b} \in SUBSET BelowIn(T, c)
    <3>1. \A x \in T : x \in Nat
      BY <1>1
    <3>2. QED
      BY <1>4, <3>1 DEF BelowIn
  <2>2. Cardinality(BelowIn(T, b) \cup {b}) <= Cardinality(BelowIn(T, c))
    BY <1>2, <2>1, FS_Subset
  <2>3. /\ Cardinality(BelowIn(T, b)) \in Nat /\ Cardinality(BelowIn(T, c)) \in Nat
        /\ Cardinality(BelowIn(T, b) \cup {b}) = Cardinality(BelowIn(T, b)) + 1
    BY <1>2, Zenon
  <2>4. QED
    BY <2>2, <2>3
<1>5. ASSUME NEW e \in T, Cardinality(BelowIn(T, e)) = Cardinality(BelowIn(T, d))
      PROVE  e = d
  <2>1. e \in Nat /\ d \in Nat
    BY <1>1
  <2>2. Cardinality(BelowIn(T, e)) \in Nat /\ Cardinality(BelowIn(T, d)) \in Nat
    BY <1>2, Zenon
  <2>3. ~(e < d) /\ ~(d < e)
    <3>1. ~(Cardinality(BelowIn(T, e)) < Cardinality(BelowIn(T, d)))
          /\ ~(Cardinality(BelowIn(T, d)) < Cardinality(BelowIn(T, e)))
      BY <1>5, <2>2
    <3>2. QED
      BY <1>4, <3>1, Zenon
  <2>4. QED
    BY <2>1, <2>3
<1>6. RxDbps(Cardinality(BelowIn(T, d)), T)
        = CHOOSE e \in T : Cardinality(BelowIn(T, e)) = Cardinality(BelowIn(T, d))
  BY DEF RxDbps, BelowIn
<1>7. QED
  BY <1>3, <1>5, <1>6

(* The MCS and the rate it stands for.                                     *)
Table == IF fmt = "ht40" THEN Dbps40 ELSE Dbps20

LEMMA McsIs ==
  ASSUME fmt \in AllFormats \ {"legacy"}, dbps \in Rates(fmt)
  PROVE  /\ dbps \in Table
         /\ Mcs \in 0 .. 15 /\ RxDbps(Mcs % 8, Table) = dbps
         /\ fmt = "mimo" => Mcs \div 8 = 1
         /\ fmt # "mimo" => Mcs \in 0 .. 7 /\ Mcs \div 8 = 0
<1>1. Rates(fmt) = Table /\ Table \in {Dbps20, Dbps40}
  BY DEF Rates, Table, AllFormats
<1> DEFINE c == Cardinality(BelowIn(Table, dbps))
<1>2. c \in 0 .. 7 /\ RxDbps(c, Table) = dbps
  BY <1>1, RankBelow
<1>3. Mcs = c + (IF fmt = "mimo" THEN 8 ELSE 0)
  BY <1>1 DEF Mcs, BelowIn
<1> HIDE DEF c
<1>4. c % 8 = c /\ (c + 8) % 8 = c /\ c \div 8 = 0 /\ (c + 8) \div 8 = 1 /\ c + 0 = c
  BY <1>2
<1>5. CASE fmt = "mimo"
  BY <1>1, <1>2, <1>3, <1>4, <1>5
<1>6. CASE fmt # "mimo"
  BY <1>1, <1>2, <1>3, <1>4, <1>6
<1>7. QED
  BY <1>5, <1>6

-----------------------------------------------------------------------------
(* A CRC holds of the bits it was put on.                                  *)
LEMMA CrcFits ==
  ASSUME NEW b \in SUBSET (0 .. 33)
  PROVE  CrcHolds(WithCrc(b)) /\ WithCrc(b) \cap (0 .. 33) = b
<1>1. \A i \in 0 .. 7 : 34 + i \notin 0 .. 33
  OBVIOUS
<1>2. WithCrc(b) \cap (0 .. 33) = b
  BY <1>1 DEF WithCrc
<1>3. QED
  BY <1>2 DEF CrcHolds

(* What a receiver reads in the HT-SIG.                                    *)
LEMMA HtSigReads ==
  ASSUME fmt \in AllFormats, len \in Nat, Mcs \in 0 .. 15
  PROVE  /\ CrcHolds(HtSig)
         /\ Read(HtSig, 0, 7) = Mcs /\ Read(HtSig, 8, 16) = len % 65536
         /\ 7 \in HtSig <=> fmt = "ht40"
         /\ 28 \in HtSig <=> fmt = "stbc"
         /\ 30 \in HtSig <=> fmt = "ldpc"
<1> DEFINE flags == {b \in {7} : fmt = "ht40"} \cup {b \in {28} : fmt = "stbc"}
                      \cup {b \in {30} : fmt = "ldpc"}
           mcs == Ones(Mcs, 0, 7)
           length == Ones(len, 8, 16)
           sig == mcs \cup length \cup flags
<1>1. /\ \A e \in 0 .. 6 : 0 + e \in mcs <=> (Mcs \div 2^e) % 2 = 1
      /\ mcs \subseteq 0 .. 6
  <2>1. /\ \A e \in 0 .. 7 - 1 : 0 + e \in mcs <=> (Mcs \div 2^e) % 2 = 1
        /\ mcs \subseteq 0 .. 0 + 7 - 1
    BY OnesAre, Zenon
  <2>2. QED
    BY <2>1
<1>2. /\ \A e \in 0 .. 15 : 8 + e \in length <=> (len \div 2^e) % 2 = 1
      /\ length \subseteq 8 .. 23
  <2>1. /\ \A e \in 0 .. 16 - 1 : 8 + e \in length <=> (len \div 2^e) % 2 = 1
        /\ length \subseteq 8 .. 8 + 16 - 1
    BY OnesAre, Zenon
  <2>2. QED
    BY <2>1
<1>3. HtSig = WithCrc(sig)
  <2>1. sig = mcs \cup length \cup {b \in {7} : fmt = "ht40"}
                \cup {b \in {28} : fmt = "stbc"} \cup {b \in {30} : fmt = "ldpc"}
    OBVIOUS
  <2>2. QED
    BY <2>1 DEF HtSig, HtLength
<1>4. flags \subseteq {7, 28, 30}
  OBVIOUS
<1>5. 7 \in flags <=> fmt = "ht40"
  OBVIOUS
<1>6. 28 \in flags <=> fmt = "stbc"
  OBVIOUS
<1>7. 30 \in flags <=> fmt = "ldpc"
  OBVIOUS
<1> HIDE DEF mcs, length, flags
<1>8. sig \in SUBSET (0 .. 33)
  BY <1>1, <1>2, <1>4
<1>9. CrcHolds(HtSig) /\ \A p \in 0 .. 33 : p \in HtSig <=> p \in sig
  <2> HIDE DEF sig
  <2>1. CrcHolds(HtSig) /\ HtSig \cap (0 .. 33) = sig
    BY <1>3, <1>8, CrcFits
  <2>2. QED
    BY <1>8, <2>1
<1>10. \A e \in 0 .. 6 : 0 + e \in HtSig <=> (Mcs \div 2^e) % 2 = 1
  <2>1. ASSUME NEW e \in 0 .. 6
        PROVE  0 + e \in HtSig <=> 0 + e \in mcs
    BY <1>2, <1>4, <1>9
  <2>2. QED
    BY <1>1, <2>1
<1>11. \A e \in 0 .. 15 : 8 + e \in HtSig <=> (len \div 2^e) % 2 = 1
  <2>1. ASSUME NEW e \in 0 .. 15
        PROVE  8 + e \in HtSig <=> 8 + e \in length
    BY <1>1, <1>4, <1>9
  <2>2. QED
    BY <1>2, <2>1
<1>12. Read(HtSig, 0, 7) = Mcs % 2^7 /\ Read(HtSig, 8, 16) = len % 2^16
  BY <1>10, <1>11, ReadsBack
<1>13. Mcs % 2^7 = Mcs /\ 2^16 = 65536
  BY Powers
<1>14. /\ 7 \in HtSig <=> 7 \in flags
       /\ 28 \in HtSig <=> 28 \in flags
       /\ 30 \in HtSig <=> 30 \in flags
  BY <1>1, <1>2, <1>9
<1>15. QED
  BY <1>5, <1>6, <1>7, <1>9, <1>12, <1>13, <1>14

(* And in the VHT-SIG fields.                                              *)
LEMMA VhtSigReads ==
  ASSUME len \in Nat, Mcs \in 0 .. 15
  PROVE  /\ CrcHolds(VhtSigA) /\ Read(VhtSigA, 28, 4) = Mcs
         /\ Read(VhtSigB, 0, 17) = ((len + 3) \div 4) % 131072
<1> DEFINE mcs == Ones(Mcs, 28, 4)
           u == (len + 3) \div 4
           length == Ones(u, 0, 17)
           sig == {2, 23, 33} \cup mcs
<1>1. /\ \A e \in 0 .. 3 : 28 + e \in mcs <=> (Mcs \div 2^e) % 2 = 1
      /\ mcs \subseteq 28 .. 31
  <2>1. /\ \A e \in 0 .. 4 - 1 : 28 + e \in mcs <=> (Mcs \div 2^e) % 2 = 1
        /\ mcs \subseteq 28 .. 28 + 4 - 1
    BY OnesAre, Zenon
  <2>2. QED
    BY <2>1
<1>2. u \in Nat
  OBVIOUS
<1> HIDE DEF u
<1>3. /\ \A e \in 0 .. 16 : 0 + e \in length <=> (u \div 2^e) % 2 = 1
      /\ length \subseteq 0 .. 16
  <2>1. /\ \A e \in 0 .. 17 - 1 : 0 + e \in length <=> (u \div 2^e) % 2 = 1
        /\ length \subseteq 0 .. 0 + 17 - 1
    BY OnesAre, Zenon
  <2>2. QED
    BY <2>1
<1>4. VhtSigA = WithCrc(sig) /\ VhtSigB = length \cup {17, 18, 19}
  BY DEF VhtSigA, VhtSigB, u
<1> HIDE DEF mcs, length
<1>5. sig \in SUBSET (0 .. 33)
  BY <1>1
<1>6. CrcHolds(VhtSigA) /\ \A p \in 0 .. 33 : p \in VhtSigA <=> p \in sig
  <2> HIDE DEF sig
  <2>1. CrcHolds(VhtSigA) /\ VhtSigA \cap (0 .. 33) = sig
    BY <1>4, <1>5, CrcFits
  <2>2. QED
    BY <1>5, <2>1
<1>7. \A e \in 0 .. 3 : 28 + e \in VhtSigA <=> (Mcs \div 2^e) % 2 = 1
  <2>1. ASSUME NEW e \in 0 .. 3
        PROVE  28 + e \in VhtSigA <=> 28 + e \in mcs
    BY <1>6
  <2>2. QED
    BY <1>1, <2>1
<1>8. \A e \in 0 .. 16 : 0 + e \in VhtSigB <=> (u \div 2^e) % 2 = 1
  <2>1. ASSUME NEW e \in 0 .. 16
        PROVE  0 + e \in VhtSigB <=> 0 + e \in length
    BY <1>4
  <2>2. QED
    BY <1>3, <2>1
<1>9. Read(VhtSigA, 28, 4) = Mcs % 2^4 /\ Read(VhtSigB, 0, 17) = u % 2^17
  BY <1>2, <1>7, <1>8, ReadsBack
<1>10. Mcs % 2^4 = Mcs /\ 2^17 = 131072
  BY Powers
<1>11. QED
  BY <1>6, <1>9, <1>10 DEF u

(* And in the L-SIG, whose parity is even.                                 *)
LEMMA LSigReads ==
  ASSUME LSigLen \in Nat
  PROVE  /\ Cardinality(LSigBits) % 2 = 0
         /\ Read(LSigBits, 5, 12) = LSigLen % 4096
<1> DEFINE rate == Ones(11, 0, 4)
           length == Ones(LSigLen, 5, 12)
           bits == rate \cup length
           c == Cardinality(bits)
<1>1. rate \subseteq 0 .. 3
  <2>1. rate \subseteq 0 .. 0 + 4 - 1
    BY OnesAre, Zenon
  <2>2. QED
    BY <2>1
<1>2. /\ \A e \in 0 .. 11 : 5 + e \in length <=> (LSigLen \div 2^e) % 2 = 1
      /\ length \subseteq 5 .. 16
  <2>1. /\ \A e \in 0 .. 12 - 1 : 5 + e \in length <=> (LSigLen \div 2^e) % 2 = 1
        /\ length \subseteq 5 .. 5 + 12 - 1
    BY OnesAre, Zenon
  <2>2. QED
    BY <2>1
<1> HIDE DEF rate, length
<1>3. bits \in SUBSET (0 .. 16) /\ 17 \notin bits
  BY <1>1, <1>2
<1>4. bits \cap (0 .. 16) = bits
  BY <1>3
<1>5. LSigBits = bits \cup {b \in {17} : c % 2 = 1}
  BY <1>4 DEF LSigBits, LSigParity, rate, length
<1>6. IsFiniteSet(bits) /\ c \in Nat
  <2>1. 0 \in Int /\ 16 \in Int
    OBVIOUS
  <2>2. IsFiniteSet(0 .. 16)
    BY <2>1, FS_Interval
  <2> HIDE DEF bits
  <2>3. QED
    BY <1>3, <2>2, FS_Subset, FS_CardinalityType
<1>7. Cardinality(LSigBits) % 2 = 0
  <2> HIDE DEF bits
  <2>1. CASE c % 2 = 1
    <3>1. LSigBits = bits \cup {17}
      BY <1>5, <2>1
    <3>2. Cardinality(LSigBits) = c + 1
      BY <1>3, <1>6, <3>1, FS_AddElement
    <3> HIDE DEF c
    <3>3. QED
      BY <1>6, <2>1, <3>2
  <2>2. CASE c % 2 # 1
    <3>1. LSigBits = bits
      BY <1>5, <2>2
    <3>2. QED
      BY <1>6, <2>2, <3>1
  <2>3. QED
    BY <2>1, <2>2
<1>8. \A e \in 0 .. 11 : 5 + e \in LSigBits <=> (LSigLen \div 2^e) % 2 = 1
  <2>1. ASSUME NEW e \in 0 .. 11
        PROVE  5 + e \in LSigBits <=> 5 + e \in length
    BY <1>1, <1>5
  <2>2. QED
    BY <1>2, <2>1
<1>9. Read(LSigBits, 5, 12) = LSigLen % 2^12
  <2>1. ASSUME NEW e \in 0 .. 12 - 1
        PROVE  5 + e \in LSigBits <=> (LSigLen \div 2^e) % 2 = 1
    <3>1. e \in 0 .. 11
      OBVIOUS
    <3>2. QED
      BY <1>8, <3>1, Zenon
  <2>2. QED
    BY <2>1, ReadsBack
<1>10. QED
  BY <1>7, <1>9, Powers

-----------------------------------------------------------------------------
(* Symbol counts.  Half as many symbols of twice the bits make the even    *)
(* count; up to three octets more make at most one symbol more.            *)
LEMMA PairsOfSymbols ==
  ASSUME NEW x \in Nat, NEW d \in Dbps20
  PROVE  2 * Ceil(x, 2 * d) = Even(Ceil(x, d))
<1>1. CASE d = 26  BY <1>1 DEF Ceil, Even
<1>2. CASE d = 52  BY <1>2 DEF Ceil, Even
<1>3. CASE d = 78  BY <1>3 DEF Ceil, Even
<1>4. CASE d = 104 BY <1>4 DEF Ceil, Even
<1>5. CASE d = 156 BY <1>5 DEF Ceil, Even
<1>6. CASE d = 208 BY <1>6 DEF Ceil, Even
<1>7. CASE d = 234 BY <1>7 DEF Ceil, Even
<1>8. CASE d = 260 BY <1>8 DEF Ceil, Even
<1>9. QED  BY <1>1, <1>2, <1>3, <1>4, <1>5, <1>6, <1>7, <1>8 DEF Dbps20

LEMMA RoundedUp ==
  ASSUME NEW x \in Nat, NEW y \in Nat, x <= y, y <= x + 24, NEW d \in Dbps20
  PROVE  Ceil(y, d) - Ceil(x, d) \in {0, 1}
<1>1. CASE d = 26  BY <1>1 DEF Ceil
<1>2. CASE d = 52  BY <1>2 DEF Ceil
<1>3. CASE d = 78  BY <1>3 DEF Ceil
<1>4. CASE d = 104 BY <1>4 DEF Ceil
<1>5. CASE d = 156 BY <1>5 DEF Ceil
<1>6. CASE d = 208 BY <1>6 DEF Ceil
<1>7. CASE d = 234 BY <1>7 DEF Ceil
<1>8. CASE d = 260 BY <1>8 DEF Ceil
<1>9. QED  BY <1>1, <1>2, <1>3, <1>4, <1>5, <1>6, <1>7, <1>8 DEF Dbps20

(* A field's width exceeds its value.                                      *)
LEMMA FitsField ==
  ASSUME NEW l \in Nat, l <= 4095
  PROVE  /\ l % 65536 = l
         /\ (l + 3) \div 4 \in Nat /\ ((l + 3) \div 4) % 131072 = (l + 3) \div 4
<1>1. l % 65536 = l
  OBVIOUS
<1>2. (l + 3) \div 4 \in Nat /\ ((l + 3) \div 4) % 131072 = (l + 3) \div 4
  OBVIOUS
<1>3. QED
  BY <1>1, <1>2

LEMMA WholeWords ==
  ASSUME NEW l \in Nat, NEW k \in Nat, k = (l + 3) \div 4
  PROVE  /\ 16 + 8 * l + 6 \in Nat /\ 16 + 8 * (4 * k) + 6 \in Nat
         /\ 16 + 8 * l + 6 <= 16 + 8 * (4 * k) + 6
         /\ 16 + 8 * (4 * k) + 6 <= 16 + 8 * l + 6 + 24
         /\ l % 4 = 0 => l = 4 * k
OBVIOUS

LEMMA HtSymbols ==
  ASSUME fmt \in {"ht", "ht40", "mimo", "stbc", "ldpc"}, dbps \in Rates(fmt),
         len \in Nat, len <= 4095, fmt = "ldpc" => Mcs = 0
  PROVE  CrcHolds(HtSig) /\ RxHtSyms = NSym
<1> DEFINE bits == 16 + 8 * len + 6
           mcs == Read(HtSig, 0, 7)
<1>1. /\ fmt \in AllFormats \ {"legacy"} /\ fmt \in AllFormats
      /\ len \in Nat /\ len % 65536 = len /\ bits \in Nat
  <2>1. len \in Nat /\ len % 65536 = len
    BY FitsField
  <2>2. bits \in Nat
    BY <2>1
  <2>3. QED
    BY <2>1, <2>2 DEF AllFormats
<1>2. /\ dbps \in Table /\ Mcs \in 0 .. 15 /\ RxDbps(Mcs % 8, Table) = dbps
      /\ fmt = "mimo" => Mcs \div 8 = 1
      /\ fmt # "mimo" => Mcs \in 0 .. 7 /\ Mcs \div 8 = 0
  BY <1>1, McsIs
<1>3. /\ CrcHolds(HtSig) /\ mcs = Mcs /\ Read(HtSig, 8, 16) = len
      /\ 7 \in HtSig <=> fmt = "ht40"
      /\ 28 \in HtSig <=> fmt = "stbc"
      /\ 30 \in HtSig <=> fmt = "ldpc"
  BY <1>1, <1>2, HtSigReads
<1>4. RxDbps(mcs % 8, IF 7 \in HtSig THEN Dbps40 ELSE Dbps20) = dbps
  BY <1>2, <1>3 DEF Table
<1>5. RxHtSyms = IF fmt = "ldpc" THEN Ceil(648, 2 * dbps)
                 ELSE IF fmt = "stbc" THEN 2 * Ceil(bits, 2 * dbps)
                 ELSE Ceil(bits, (Mcs \div 8 + 1) * dbps)
  BY <1>3, <1>4 DEF RxHtSyms
<1> HIDE DEF bits, mcs
<1>6. dbps \in Nat /\ 2 * dbps \in Nat
  BY <1>1, RatesPositive
<1>7. CASE fmt = "ldpc"
  <2>1. Mcs = 0 /\ Table = Dbps20
    BY <1>7 DEF Table
  <2>2. dbps \in Dbps20 /\ 26 \in Dbps20
    BY <1>2, <2>1 DEF Dbps20
  <2>3. RxDbps(0, Dbps20) = dbps
    BY <1>2, <2>1
  <2>4. RxDbps(0, Dbps20) = 26
    <3>1. BelowIn(Dbps20, 26) = {}
      BY DEF BelowIn, Dbps20
    <3>2. Cardinality(BelowIn(Dbps20, 26)) = 0
      BY <3>1, FS_EmptySet
    <3>3. QED
      BY <2>2, <3>2, RankBelow
  <2>5. 2 * dbps = 52
    BY <2>3, <2>4
  <2>6. QED
    BY <1>3, <1>5, <1>7, <2>5 DEF NSym
<1>8. CASE fmt = "stbc"
  <2>1. dbps \in Dbps20
    BY <1>2, <1>8 DEF Table
  <2>2. 2 * Ceil(bits, 2 * dbps) = Even(Ceil(bits, dbps))
    BY <1>1, <2>1, PairsOfSymbols DEF bits
  <2>3. NSym = Even(Ceil(bits, dbps))
    BY <1>8 DEF NSym, bits
  <2>4. QED
    BY <1>3, <1>5, <1>8, <2>2, <2>3
<1>9. CASE fmt = "mimo"
  <2>1. (Mcs \div 8 + 1) * dbps = 2 * dbps
    BY <1>2, <1>6, <1>9
  <2>2. NSym = Ceil(bits, 2 * dbps)
    BY <1>9 DEF NSym, bits
  <2>3. QED
    BY <1>3, <1>5, <1>9, <2>1, <2>2
<1>10. CASE fmt \in {"ht", "ht40"}
  <2>1. (Mcs \div 8 + 1) * dbps = dbps
    BY <1>2, <1>6, <1>10
  <2>2. NSym = Ceil(bits, dbps)
    BY <1>10 DEF NSym, bits
  <2>3. QED
    BY <1>3, <1>5, <1>10, <2>1, <2>2
<1>11. QED
  BY <1>7, <1>8, <1>9, <1>10

LEMMA VhtSymbols ==
  ASSUME fmt = "vht", dbps \in Rates(fmt), len \in Nat, len <= 4095
  PROVE  /\ CrcHolds(VhtSigA)
         /\ RxVhtSyms - NSym \in IF len % 4 = 0 THEN {0} ELSE {0, 1}
<1> DEFINE u == (len + 3) \div 4
           x == 16 + 8 * len + 6
           y == 16 + 8 * (4 * u) + 6
<1>1. fmt \in AllFormats \ {"legacy"} /\ Rates(fmt) = Dbps20 /\ Table = Dbps20
  BY DEF AllFormats, Rates, Table
<1>2. Mcs \in 0 .. 15 /\ Mcs \in 0 .. 7 /\ RxDbps(Mcs % 8, Dbps20) = dbps /\ dbps \in Dbps20
  BY <1>1, McsIs
<1>3. u \in Nat /\ u % 131072 = u /\ len \in Nat
  BY FitsField
<1>4. /\ CrcHolds(VhtSigA) /\ Read(VhtSigA, 28, 4) = Mcs
      /\ Read(VhtSigB, 0, 17) = u
  BY <1>2, <1>3, VhtSigReads
<1>5. Mcs % 8 = Mcs
  BY <1>2
<1>6. RxVhtSyms = Ceil(y, dbps) /\ NSym = Ceil(x, dbps)
  BY <1>2, <1>4, <1>5 DEF RxVhtSyms, NSym
<1>7. /\ x \in Nat /\ y \in Nat /\ x <= y /\ y <= x + 24
      /\ len % 4 = 0 => y = x
  BY <1>3, WholeWords
<1> HIDE DEF x, y
<1>8. Ceil(y, dbps) - Ceil(x, dbps) \in {0, 1}
  BY <1>2, <1>7, RoundedUp
<1>9. Ceil(x, dbps) \in Nat
  BY <1>1, <1>7, RatesPositive, CeilNat
<1>10. len % 4 = 0 => Ceil(y, dbps) - Ceil(x, dbps) = 0
  BY <1>7, <1>9
<1>11. QED
  BY <1>4, <1>6, <1>8, <1>10

(* The rotation of the SIG symbols tells the family of the frame.          *)
LEMMA RotationTells ==
  ASSUME fmt \in AllFormats
  PROVE  /\ SeenLegacy => fmt = "legacy"
         /\ SeenHt => fmt \in {"ht", "ht40", "mimo", "stbc", "ldpc"}
         /\ SeenVht => fmt = "vht"
<1>1. fmt = "legacy" => Rotation = <<FALSE, FALSE>>
  BY Zenon DEF Rotation
<1>2. fmt = "vht" => Rotation = <<FALSE, TRUE>>
  BY DEF Rotation
<1>3. fmt \in {"ht", "ht40", "mimo", "stbc", "ldpc"} => Rotation = <<TRUE, TRUE>>
  BY DEF Rotation
<1>4. fmt = "legacy" \/ fmt = "vht" \/ fmt \in {"ht", "ht40", "mimo", "stbc", "ldpc"}
  BY DEF AllFormats
<1>5. <<FALSE, FALSE>> # <<TRUE, TRUE>>
  OBVIOUS
<1>6. <<FALSE, FALSE>> # <<FALSE, TRUE>> /\ <<TRUE, TRUE>> # <<FALSE, TRUE>>
  <2>1. /\ <<FALSE, FALSE>>[2] = FALSE /\ <<FALSE, TRUE>>[2] = TRUE
        /\ <<TRUE, TRUE>>[1] = TRUE /\ <<FALSE, TRUE>>[1] = FALSE
    OBVIOUS
  <2>2. QED
    BY <2>1, Zenon
<1>7. QED
  BY <1>1, <1>2, <1>3, <1>4, <1>5, <1>6, Zenon DEF SeenLegacy, SeenHt, SeenVht

LEMMA HeaderSays ==
  ASSUME TypeOK, len \in Nat, len <= 4095
  PROVE  HeaderTellsFrame
<1> SUFFICES ASSUME n = NHeader + NSym, fmt = "ldpc" => Mcs = 0
             PROVE  HeaderTellsFrame
  BY DEF HeaderTellsFrame
<1>1. fmt \in AllFormats /\ dbps \in Rates(fmt) /\ len \in Nat
  BY DEF TypeOK
<1>2. n - NHeader = NSym
  BY LengthsNat
<1>3. LSigLen \in Nat
  <2>1. Announced(len, 40) \in Nat /\ Announced(len, 60) \in Nat
    BY <1>1 DEF Announced
  <2>2. QED
    BY <1>1, <2>1 DEF LSigLen, AllFormats
<1>4. /\ Cardinality(LSigBits) % 2 = 0
      /\ Read(LSigBits, 5, 12) = LSigLen % 4096
  BY <1>3, LSigReads
<1>5. ASSUME SeenLegacy
      PROVE  LegacyAgrees
  <2>1. fmt = "legacy"
    BY <1>1, <1>5, RotationTells
  <2>2. dbps = 24 /\ LSigLen = len
    BY <1>1, <2>1 DEF Rates, LSigLen
  <2>3. len % 4096 = len
    OBVIOUS
  <2>4. NSym = Ceil(16 + 8 * len + 6, 24)
    BY <2>1, <2>2 DEF NSym
  <2>5. QED
    BY <1>2, <1>4, <2>2, <2>3, <2>4 DEF LegacyAgrees
<1>6. ASSUME SeenHt
      PROVE  HtAgrees
  <2>1. fmt \in {"ht", "ht40", "mimo", "stbc", "ldpc"}
    BY <1>1, <1>6, RotationTells
  <2>2. QED
    BY <1>1, <1>2, <2>1, HtSymbols DEF HtAgrees
<1>7. ASSUME SeenVht
      PROVE  VhtAgrees
  <2>1. fmt = "vht"
    BY <1>1, <1>7, RotationTells
  <2>2. QED
    BY <1>1, <1>2, <2>1, VhtSymbols DEF VhtAgrees
<1>8. QED
  BY <1>4, <1>5, <1>6, <1>7 DEF HeaderTellsFrame

(* The header describes the frame that was built, for every PSDU whose     *)
(* length the 12 bits of a legacy L-SIG can hold: rotation, rate, length   *)
(* and flags yield the number of data symbols that follow.                 *)
THEOREM HeadersDescribe ==
  ASSUME Lengths \subseteq 0 .. 4095
  PROVE  Spec => []HeaderTellsFrame
<1>1. TypeOK => HeaderTellsFrame
  <2>1. TypeOK => len \in Nat /\ len <= 4095
    BY DEF TypeOK
  <2>2. QED
    BY <2>1, HeaderSays
<1>2. QED
  BY <1>1, FrameTypeCorrect, PTL

-----------------------------------------------------------------------------
(* The CRC.  The bits of an octet.                                         *)
Bit(c, i) == (c \div 2^i) % 2
Octet(x7, x6, x5, x4, x3, x2, x1, x0) ==
  128 * x7 + 64 * x6 + 32 * x5 + 16 * x4 + 8 * x3 + 4 * x2 + 2 * x1 + x0

Spells(c, x7, x6, x5, x4, x3, x2, x1, x0) ==
  /\ x7 \in {0, 1} /\ x6 \in {0, 1} /\ x5 \in {0, 1} /\ x4 \in {0, 1}
  /\ x3 \in {0, 1} /\ x2 \in {0, 1} /\ x1 \in {0, 1} /\ x0 \in {0, 1}
  /\ c = Octet(x7, x6, x5, x4, x3, x2, x1, x0)

LEMMA BitsOf ==
  ASSUME NEW c, NEW x7, NEW x6, NEW x5, NEW x4, NEW x3, NEW x2, NEW x1, NEW x0,
         Spells(c, x7, x6, x5, x4, x3, x2, x1, x0)
  PROVE  /\ c \in 0 .. 255
         /\ Bit(c, 7) = x7 /\ Bit(c, 6) = x6 /\ Bit(c, 5) = x5 /\ Bit(c, 4) = x4
         /\ Bit(c, 3) = x3 /\ Bit(c, 2) = x2 /\ Bit(c, 1) = x1 /\ Bit(c, 0) = x0
<1>0. /\ x7 \in {0, 1} /\ x6 \in {0, 1} /\ x5 \in {0, 1} /\ x4 \in {0, 1}
      /\ x3 \in {0, 1} /\ x2 \in {0, 1} /\ x1 \in {0, 1} /\ x0 \in {0, 1}
      /\ c = Octet(x7, x6, x5, x4, x3, x2, x1, x0)
  BY DEF Spells
<1>1. c \in 0 .. 255
  BY <1>0 DEF Octet
<1>2. c \div 128 = x7 /\ c \div 64 = 2 * x7 + x6
  BY <1>0 DEF Octet
<1>3. c \div 32 = 4 * x7 + 2 * x6 + x5
  BY <1>0 DEF Octet
<1>4. c \div 16 = 8 * x7 + 4 * x6 + 2 * x5 + x4
  BY <1>0 DEF Octet
<1>5. c \div 8 = 16 * x7 + 8 * x6 + 4 * x5 + 2 * x4 + x3
  BY <1>0 DEF Octet
<1>6. c \div 4 = 32 * x7 + 16 * x6 + 8 * x5 + 4 * x4 + 2 * x3 + x2
  BY <1>0 DEF Octet
<1>7. c \div 2 = 64 * x7 + 32 * x6 + 16 * x5 + 8 * x4 + 4 * x3 + 2 * x2 + x1
  BY <1>0 DEF Octet
<1>8. c \div 1 = c
  BY <1>1
<1>9. Bit(c, 7) = x7 /\ Bit(c, 6) = x6 /\ Bit(c, 5) = x5 /\ Bit(c, 4) = x4
  BY <1>0, <1>2, <1>3, <1>4, Powers DEF Bit
<1>10. Bit(c, 3) = x3 /\ Bit(c, 2) = x2 /\ Bit(c, 1) = x1 /\ Bit(c, 0) = x0
  BY <1>0, <1>5, <1>6, <1>7, <1>8, Powers DEF Bit, Octet
<1>11. QED
  BY <1>1, <1>9, <1>10

LEMMA OctetIs ==
  ASSUME NEW c \in 0 .. 255
  PROVE  /\ \A i \in 0 .. 7 : Bit(c, i) \in {0, 1}
         /\ c = Octet(Bit(c, 7), Bit(c, 6), Bit(c, 5), Bit(c, 4),
                      Bit(c, 3), Bit(c, 2), Bit(c, 1), Bit(c, 0))
<1>1. /\ Bit(c, 7) = (c \div 128) % 2 /\ Bit(c, 6) = (c \div 64) % 2
      /\ Bit(c, 5) = (c \div 32) % 2 /\ Bit(c, 4) = (c \div 16) % 2
      /\ Bit(c, 3) = (c \div 8) % 2 /\ Bit(c, 2) = (c \div 4) % 2
      /\ Bit(c, 1) = (c \div 2) % 2 /\ Bit(c, 0) = (c \div 1) % 2
  BY Powers DEF Bit
<1>2. /\ c = 2 * (c \div 2) + (c % 2) /\ c \div 1 = c
      /\ c \div 2 = 2 * (c \div 4) + ((c \div 2) % 2)
      /\ c \div 4 = 2 * (c \div 8) + ((c \div 4) % 2)
      /\ c \div 8 = 2 * (c \div 16) + ((c \div 8) % 2)
      /\ c \div 16 = 2 * (c \div 32) + ((c \div 16) % 2)
      /\ c \div 32 = 2 * (c \div 64) + ((c \div 32) % 2)
      /\ c \div 64 = 2 * (c \div 128) + ((c \div 64) % 2)
      /\ c \div 128 = (c \div 128) % 2
  OBVIOUS
<1>3. c = Octet(Bit(c, 7), Bit(c, 6), Bit(c, 5), Bit(c, 4),
                Bit(c, 3), Bit(c, 2), Bit(c, 1), Bit(c, 0))
  BY <1>1, <1>2 DEF Octet
<1>4. /\ Bit(c, 7) \in {0, 1} /\ Bit(c, 6) \in {0, 1} /\ Bit(c, 5) \in {0, 1}
      /\ Bit(c, 4) \in {0, 1} /\ Bit(c, 3) \in {0, 1} /\ Bit(c, 2) \in {0, 1}
      /\ Bit(c, 1) \in {0, 1} /\ Bit(c, 0) \in {0, 1}
  BY <1>1
<1>5. 0 .. 7 = {0, 1, 2, 3, 4, 5, 6, 7}
  OBVIOUS
<1>6. QED
  BY <1>3, <1>4, <1>5, Zenon

(* A step in bits: the register moves up, and what falls out, changed by   *)
(* the input, changes the lowest three.                                    *)
Xor(x, y) == (x + y) % 2

LEMMA StepBits ==
  ASSUME NEW c \in 0 .. 255, NEW b \in {0, 1}
  PROVE  LET d == Crc8Step(c, b)
             f == Xor(b, Bit(c, 7))
         IN  /\ d \in 0 .. 255
             /\ Bit(d, 7) = Bit(c, 6) /\ Bit(d, 6) = Bit(c, 5) /\ Bit(d, 5) = Bit(c, 4)
             /\ Bit(d, 4) = Bit(c, 3) /\ Bit(d, 3) = Bit(c, 2)
             /\ Bit(d, 2) = Xor(Bit(c, 1), f) /\ Bit(d, 1) = Xor(Bit(c, 0), f) /\ Bit(d, 0) = f
<1> DEFINE x7 == Bit(c, 7)  x6 == Bit(c, 6)  x5 == Bit(c, 5)  x4 == Bit(c, 4)
           x3 == Bit(c, 3)  x2 == Bit(c, 2)  x1 == Bit(c, 1)  x0 == Bit(c, 0)
           d == Crc8Step(c, b)
           f == Xor(b, x7)
<1>1. /\ x7 \in {0, 1} /\ x6 \in {0, 1} /\ x5 \in {0, 1} /\ x4 \in {0, 1}
      /\ x3 \in {0, 1} /\ x2 \in {0, 1} /\ x1 \in {0, 1} /\ x0 \in {0, 1}
      /\ c = Octet(x7, x6, x5, x4, x3, x2, x1, x0)
  BY OctetIs
<1> HIDE DEF x7, x6, x5, x4, x3, x2, x1, x0
<1>2. /\ c \div 128 = x7
      /\ (2 * c) % 256 = 128 * x6 + 64 * x5 + 32 * x4 + 16 * x3 + 8 * x2 + 4 * x1 + 2 * x0
      /\ ((2 * c) % 256) % 8 = 4 * x1 + 2 * x0
  BY <1>1 DEF Octet
<1>3. f \in {0, 1} /\ ((b + c \div 128) % 2 = 0 <=> f = 0)
  <2>1. b + c \div 128 = b + x7
    BY <1>2
  <2>2. (b + x7) % 2 \in {0, 1}
    BY <1>1
  <2>3. QED
    BY <2>1, <2>2, Zenon DEF Xor
<1>4. d = Octet(x6, x5, x4, x3, x2, Xor(x1, f), Xor(x0, f), f)
  <2> HIDE DEF f
  <2>1. CASE f = 0
    BY <1>1, <1>2, <1>3, <2>1 DEF Crc8Step, Octet, Xor
  <2>2. CASE f = 1
    BY <1>1, <1>2, <1>3, <2>2 DEF Crc8Step, Octet, Xor
  <2>3. QED
    BY <1>3, <2>1, <2>2
<1>5. Xor(x1, f) \in {0, 1} /\ Xor(x0, f) \in {0, 1}
  BY <1>1, <1>3 DEF Xor
<1>6. QED
  <2> HIDE DEF d, f
  <2> DEFINE y1 == Xor(x1, f)
             y0 == Xor(x0, f)
  <2>1. y1 \in {0, 1} /\ y0 \in {0, 1} /\ d = Octet(x6, x5, x4, x3, x2, y1, y0, f)
    BY <1>4, <1>5
  <2> HIDE DEF y1, y0
  <2>2. /\ d \in 0 .. 255
        /\ Bit(d, 7) = x6 /\ Bit(d, 6) = x5 /\ Bit(d, 5) = x4 /\ Bit(d, 4) = x3
        /\ Bit(d, 3) = x2 /\ Bit(d, 2) = y1 /\ Bit(d, 1) = y0 /\ Bit(d, 0) = f
    <3>1. Spells(d, x6, x5, x4, x3, x2, y1, y0, f)
      BY <1>1, <1>3, <2>1, Zenon DEF Spells
    <3>2. QED
      BY <3>1, BitsOf, Zenon
  <2>3. QED
    BY <2>2 DEF d, f, y1, y0, x7, x6, x5, x4, x3, x2, x1, x0


(* Two registers and the bits they differ in.  The CRC is linear: what     *)
(* they differ in is stepped with what the inputs differ in.               *)
Diff(c, d, v) ==
  /\ c \in 0 .. 255 /\ d \in 0 .. 255 /\ v \in 0 .. 255
  /\ Bit(v, 7) = Xor(Bit(c, 7), Bit(d, 7)) /\ Bit(v, 6) = Xor(Bit(c, 6), Bit(d, 6))
  /\ Bit(v, 5) = Xor(Bit(c, 5), Bit(d, 5)) /\ Bit(v, 4) = Xor(Bit(c, 4), Bit(d, 4))
  /\ Bit(v, 3) = Xor(Bit(c, 3), Bit(d, 3)) /\ Bit(v, 2) = Xor(Bit(c, 2), Bit(d, 2))
  /\ Bit(v, 1) = Xor(Bit(c, 1), Bit(d, 1)) /\ Bit(v, 0) = Xor(Bit(c, 0), Bit(d, 0))

LEMMA XorIs ==
  ASSUME NEW x \in {0, 1}, NEW y \in {0, 1}
  PROVE  /\ Xor(x, y) \in {0, 1} /\ Xor(x, x) = 0 /\ Xor(x, y) = Xor(y, x)
         /\ Xor(x, y) = 0 <=> x = y
         /\ \A z \in {0, 1} : \A w \in {0, 1} :
              Xor(Xor(x, y), Xor(z, w)) = Xor(Xor(x, z), Xor(y, w))
BY DEF Xor

LEMMA DiffStep ==
  ASSUME NEW c, NEW d, NEW v, Diff(c, d, v), NEW a \in {0, 1}, NEW b \in {0, 1}
  PROVE  Diff(Crc8Step(c, a), Crc8Step(d, b), Crc8Step(v, Xor(a, b)))
<1> DEFINE c1 == Crc8Step(c, a)
           d1 == Crc8Step(d, b)
           v1 == Crc8Step(v, Xor(a, b))
           f == Xor(a, Bit(c, 7))
           g == Xor(b, Bit(d, 7))
           h == Xor(Xor(a, b), Bit(v, 7))
<1>1. c \in 0 .. 255 /\ d \in 0 .. 255 /\ v \in 0 .. 255 /\ Xor(a, b) \in {0, 1}
  BY XorIs DEF Diff
<1>2. /\ \A i \in 0 .. 7 : Bit(c, i) \in {0, 1}
      /\ \A i \in 0 .. 7 : Bit(d, i) \in {0, 1}
      /\ \A i \in 0 .. 7 : Bit(v, i) \in {0, 1}
      /\ 0 \in 0 .. 7 /\ 1 \in 0 .. 7 /\ 7 \in 0 .. 7
  <2>1. /\ \A i \in 0 .. 7 : Bit(c, i) \in {0, 1}
        /\ \A i \in 0 .. 7 : Bit(d, i) \in {0, 1}
        /\ \A i \in 0 .. 7 : Bit(v, i) \in {0, 1}
    BY <1>1, OctetIs, Zenon
  <2>2. 0 \in 0 .. 7 /\ 1 \in 0 .. 7 /\ 7 \in 0 .. 7
    OBVIOUS
  <2>3. QED
    BY <2>1, <2>2
<1>3. /\ c1 \in 0 .. 255
      /\ Bit(c1, 7) = Bit(c, 6) /\ Bit(c1, 6) = Bit(c, 5) /\ Bit(c1, 5) = Bit(c, 4)
      /\ Bit(c1, 4) = Bit(c, 3) /\ Bit(c1, 3) = Bit(c, 2)
      /\ Bit(c1, 2) = Xor(Bit(c, 1), f) /\ Bit(c1, 1) = Xor(Bit(c, 0), f) /\ Bit(c1, 0) = f
  BY <1>1, StepBits
<1>4. /\ d1 \in 0 .. 255
      /\ Bit(d1, 7) = Bit(d, 6) /\ Bit(d1, 6) = Bit(d, 5) /\ Bit(d1, 5) = Bit(d, 4)
      /\ Bit(d1, 4) = Bit(d, 3) /\ Bit(d1, 3) = Bit(d, 2)
      /\ Bit(d1, 2) = Xor(Bit(d, 1), g) /\ Bit(d1, 1) = Xor(Bit(d, 0), g) /\ Bit(d1, 0) = g
  BY <1>1, StepBits
<1>5. /\ v1 \in 0 .. 255
      /\ Bit(v1, 7) = Bit(v, 6) /\ Bit(v1, 6) = Bit(v, 5) /\ Bit(v1, 5) = Bit(v, 4)
      /\ Bit(v1, 4) = Bit(v, 3) /\ Bit(v1, 3) = Bit(v, 2)
      /\ Bit(v1, 2) = Xor(Bit(v, 1), h) /\ Bit(v1, 1) = Xor(Bit(v, 0), h) /\ Bit(v1, 0) = h
  BY <1>1, StepBits
<1>6. f \in {0, 1} /\ g \in {0, 1} /\ h = Xor(f, g)
  <2>1. Bit(v, 7) = Xor(Bit(c, 7), Bit(d, 7))
    BY DEF Diff
  <2>2. QED
    BY <1>2, <2>1, XorIs
<1> HIDE DEF c1, d1, v1, f, g, h
<1>7. /\ Xor(Bit(v, 1), h) = Xor(Xor(Bit(c, 1), f), Xor(Bit(d, 1), g))
      /\ Xor(Bit(v, 0), h) = Xor(Xor(Bit(c, 0), f), Xor(Bit(d, 0), g))
  <2>1. /\ Bit(v, 1) = Xor(Bit(c, 1), Bit(d, 1)) /\ Bit(v, 0) = Xor(Bit(c, 0), Bit(d, 0))
    BY DEF Diff
  <2>2. QED
    BY <1>2, <1>6, <2>1, XorIs
<1>8. Diff(c1, d1, v1)
  BY <1>3, <1>4, <1>5, <1>6, <1>7, Zenon DEF Diff
<1>9. QED
  BY <1>8 DEF c1, d1, v1

(* Equal registers and no others differ in nothing.                        *)
LEMMA DiffNone ==
  ASSUME NEW c \in 0 .. 255
  PROVE  Diff(c, c, 0)
<1>1. \A i \in 0 .. 7 : Bit(c, i) \in {0, 1}
  BY OctetIs
<1>2. /\ Bit(0, 7) = 0 /\ Bit(0, 6) = 0 /\ Bit(0, 5) = 0 /\ Bit(0, 4) = 0
      /\ Bit(0, 3) = 0 /\ Bit(0, 2) = 0 /\ Bit(0, 1) = 0 /\ Bit(0, 0) = 0
  <2>1. /\ 0 \div 128 = 0 /\ 0 \div 64 = 0 /\ 0 \div 32 = 0 /\ 0 \div 16 = 0
        /\ 0 \div 8 = 0 /\ 0 \div 4 = 0 /\ 0 \div 2 = 0 /\ 0 \div 1 = 0 /\ 0 % 2 = 0
    OBVIOUS
  <2>2. QED
    BY <2>1, Powers DEF Bit
<1>3. /\ 0 \in 0 .. 7 /\ 1 \in 0 .. 7 /\ 2 \in 0 .. 7 /\ 3 \in 0 .. 7
      /\ 4 \in 0 .. 7 /\ 5 \in 0 .. 7 /\ 6 \in 0 .. 7 /\ 7 \in 0 .. 7 /\ 0 \in 0 .. 255
  OBVIOUS
<1>4. QED
  BY <1>1, <1>2, <1>3, XorIs DEF Diff

-----------------------------------------------------------------------------
(* What is left of one wrong bit k steps after it, for the bits of a SIG.  *)
Trail ==
  <<7, 14, 28, 56, 112, 224, 199, 137, 21, 42, 84, 168, 87, 174, 91, 182, 107, 214,
    171, 81, 162, 67, 134, 11, 22, 44, 88, 176, 103, 206, 155, 49, 98, 196>>

LEMMA TrailIs ==
  /\ Trail[1] = Crc8Step(0, 1)
  /\ \A k \in 1 .. 33 : Trail[k + 1] = Crc8Step(Trail[k], 0)
  /\ \A k \in 1 .. 34 :
       /\ Trail[k] \in 0 .. 255
       /\ Trail[k] \notin {0, 1, 2, 4, 8, 16, 32, 64, 128}
<1>1. /\ Trail[1] = 7 /\ Trail[2] = 14 /\ Trail[3] = 28 /\ Trail[4] = 56 /\ Trail[5] = 112
      /\ Trail[6] = 224 /\ Trail[7] = 199 /\ Trail[8] = 137 /\ Trail[9] = 21 /\ Trail[10] = 42
      /\ Trail[11] = 84 /\ Trail[12] = 168 /\ Trail[13] = 87 /\ Trail[14] = 174
      /\ Trail[15] = 91 /\ Trail[16] = 182 /\ Trail[17] = 107 /\ Trail[18] = 214
      /\ Trail[19] = 171 /\ Trail[20] = 81 /\ Trail[21] = 162 /\ Trail[22] = 67
      /\ Trail[23] = 134 /\ Trail[24] = 11 /\ Trail[25] = 22 /\ Trail[26] = 44
      /\ Trail[27] = 88 /\ Trail[28] = 176 /\ Trail[29] = 103 /\ Trail[30] = 206
      /\ Trail[31] = 155 /\ Trail[32] = 49 /\ Trail[33] = 98 /\ Trail[34] = 196
  BY DEF Trail
<1> DEFINE T(k) == Trail[k]
<1>2. \A k \in 1 .. 34 : T(k) \in 0 .. 255 /\ T(k) \notin {0, 1, 2, 4, 8, 16, 32, 64, 128}
  BY <1>1
<1>3. ASSUME NEW k \in 1 .. 33
      PROVE  T(k + 1) = Crc8Step(T(k), 0)
  <2>1. CASE k \in 1 .. 11
    BY <1>1, <2>1 DEF Crc8Step
  <2>2. CASE k \in 12 .. 22
    BY <1>1, <2>2 DEF Crc8Step
  <2>3. CASE k \in 23 .. 33
    BY <1>1, <2>3 DEF Crc8Step
  <2>4. QED
    BY <2>1, <2>2, <2>3
<1>4. Crc8Step(0, 1) = 7
  BY DEF Crc8Step
<1>5. QED
  BY <1>1, <1>2, <1>3, <1>4

(* A register that differs goes on differing, but for an error that        *)
(* cancels the only bit that falls out.                                    *)
LEMMA StepLasts ==
  ASSUME NEW v \in 0 .. 255, v # 0
  PROVE  Crc8Step(v, 0) # 0 /\ (v # 128 => Crc8Step(v, 1) # 0)
<1> DEFINE x == (2 * v) % 256
           q == x \div 8
           y == x % 8
<1>1. /\ x \in Nat /\ x = 8 * q + y /\ y \in {0, 2, 4, 6} /\ q \in Nat
      /\ v \div 128 = (IF v < 128 THEN 0 ELSE 1)
      /\ x = (IF v < 128 THEN 2 * v ELSE 2 * v - 256)
  OBVIOUS
<1> HIDE DEF x, q, y
<1>2. \A b : Crc8Step(v, b) = IF (b + v \div 128) % 2 = 0 THEN x ELSE (x - y) + (7 - y)
  BY DEF Crc8Step, x, y
<1>3. (0 + v \div 128) % 2 = v \div 128 /\ (1 + v \div 128) % 2 = 1 - v \div 128
  BY <1>1
<1>4. QED
  BY <1>1, <1>2, <1>3
-----------------------------------------------------------------------------
(* The register as it runs over the bits of a SIG.                         *)
In(bits, j) == IF j \in bits THEN 1 ELSE 0
Fed(bits, r, m) ==
  /\ r[0] = 255
  /\ \A j \in 0 .. 33 : j < m => r[j + 1] = Crc8Step(r[j], In(bits, j))
Stepped(bits, g) ==
  [j \in 0 .. 34 |->
     IF j = 0 THEN 255
     ELSE IF j - 1 \notin Checked THEN g[j - 1]
     ELSE Crc8Step(g[j - 1], IF j - 1 \in bits THEN 1 ELSE 0)]
Reg(bits) == CHOOSE g : g = Stepped(bits, g)

LEMMA RunExists ==
  ASSUME NEW bits
  PROVE  \E g \in [0 .. 34 -> 0 .. 255] : Fed(bits, g, 34)
<1> DEFINE T == {m \in Nat : m <= 34 => \E g \in [0 .. 34 -> 0 .. 255] : Fed(bits, g, m)}
<1>1. 0 \in T
  <2> DEFINE g == [j \in 0 .. 34 |-> 255]
  <2>1. g \in [0 .. 34 -> 0 .. 255]
    OBVIOUS
  <2>2. Fed(bits, g, 0)
    BY DEF Fed
  <2>3. QED
    BY <2>1, <2>2
<1>2. ASSUME NEW m \in T
      PROVE  m + 1 \in T
  <2> SUFFICES ASSUME m + 1 <= 34 PROVE \E g \in [0 .. 34 -> 0 .. 255] : Fed(bits, g, m + 1)
    OBVIOUS
  <2>1. m \in 0 .. 33 /\ m + 1 \in 0 .. 34
    OBVIOUS
  <2>2. PICK g \in [0 .. 34 -> 0 .. 255] : Fed(bits, g, m)
    BY <2>1
  <2> DEFINE s == Crc8Step(g[m], In(bits, m))
             h == [g EXCEPT ![m + 1] = s]
  <2>3. s \in 0 .. 255
    <3>1. g[m] \in 0 .. 255 /\ In(bits, m) \in {0, 1}
      BY <2>1 DEF In
    <3>2. QED
      BY <3>1, StepBits
  <2> HIDE DEF s
  <2>4. h \in [0 .. 34 -> 0 .. 255] /\ h[m + 1] = s
        /\ \A j \in 0 .. 34 : j # m + 1 => h[j] = g[j]
    BY <2>1, <2>3
  <2> HIDE DEF h
  <2>5. h[0] = 255
    <3>1. g[0] = 255
      BY <2>2, Zenon DEF Fed
    <3>2. 0 \in 0 .. 34 /\ 0 # m + 1
      BY <2>1
    <3>3. QED
      BY <2>4, <3>1, <3>2
  <2>6. ASSUME NEW j \in 0 .. 33, j < m + 1
        PROVE  h[j + 1] = Crc8Step(h[j], In(bits, j))
    <3>1. j \in 0 .. 34 /\ j + 1 \in 0 .. 34 /\ j # m + 1 /\ (j # m => j < m /\ j + 1 # m + 1)
      BY <2>1, <2>6
    <3>2. h[j] = g[j]
      BY <2>4, <3>1
    <3>3. CASE j = m
      BY <2>4, <3>2, <3>3 DEF s
    <3>4. CASE j # m
      <4>1. g[j + 1] = Crc8Step(g[j], In(bits, j))
        BY <2>2, <3>1, <3>4 DEF Fed
      <4>2. h[j + 1] = g[j + 1]
        BY <2>4, <3>1, <3>4
      <4>3. QED
        BY <3>2, <4>1, <4>2
    <3>5. QED
      BY <3>3, <3>4
  <2>7. Fed(bits, h, m + 1)
    BY <2>5, <2>6 DEF Fed
  <2>8. QED
    BY <2>4, <2>7
<1>3. T = Nat
  <2> HIDE DEF T
  <2>1. T \in SUBSET Nat
    BY DEF T
  <2>2. QED
    BY <1>1, <1>2, <2>1, NatInduct
<1>4. 34 \in T
  BY <1>3
<1>5. QED
  BY <1>4

LEMMA RegIs ==
  ASSUME NEW bits
  PROVE  /\ Reg(bits)[0] = 255
         /\ \A j \in 0 .. 33 : Reg(bits)[j + 1] = Crc8Step(Reg(bits)[j], In(bits, j))
         /\ Crc8(bits) = 255 - Reg(bits)[34]
<1>1. PICK g \in [0 .. 34 -> 0 .. 255] : Fed(bits, g, 34)
  BY RunExists
<1>2. \A f : Stepped(bits, f)[0] = 255
  BY DEF Stepped
<1>3. \A f : \A j \in 0 .. 34 :
        Stepped(bits, f)[j] = IF j = 0 THEN 255
                              ELSE IF j - 1 \notin Checked THEN f[j - 1]
                              ELSE Crc8Step(f[j - 1], In(bits, j - 1))
  BY DEF Stepped, In
<1>4. ASSUME NEW f, NEW j \in 0 .. 33
      PROVE  Stepped(bits, f)[j + 1] = Crc8Step(f[j], In(bits, j))
  <2>1. j + 1 \in 0 .. 34 /\ j + 1 # 0 /\ (j + 1) - 1 = j /\ j \in Checked
    BY DEF Checked
  <2>2. QED
    BY <1>3, <2>1
<1>5. g = Stepped(bits, g)
  <2>1. ASSUME NEW j \in 0 .. 34
        PROVE  g[j] = Stepped(bits, g)[j]
    <3>1. CASE j = 0
      <4>1. g[0] = 255
        BY <1>1, Zenon DEF Fed
      <4>2. QED
        BY <1>2, <3>1, <4>1
    <3>2. CASE j # 0
      <4> DEFINE i == j - 1
      <4>1. i \in 0 .. 33 /\ i < 34 /\ j = i + 1
        BY <3>2
      <4> HIDE DEF i
      <4>2. g[i + 1] = Crc8Step(g[i], In(bits, i))
        BY <1>1, <4>1 DEF Fed
      <4>3. QED
        BY <1>4, <4>1, <4>2
    <3>3. QED
      BY <3>1, <3>2
  <2>2. Stepped(bits, g) = [j \in 0 .. 34 |-> Stepped(bits, g)[j]]
    BY DEF Stepped
  <2>3. g = [j \in 0 .. 34 |-> g[j]]
    OBVIOUS
  <2>4. QED
    BY <2>1, <2>2, <2>3, Zenon
<1>6. Reg(bits) = Stepped(bits, Reg(bits))
  BY <1>5 DEF Reg
<1>7. Crc8(bits) = 255 - Reg(bits)[34]
  BY DEF Crc8, Reg, Stepped
<1> DEFINE r == Reg(bits)
<1> HIDE DEF r
<1>8. r = Stepped(bits, r)
  BY <1>6 DEF r
<1>9. r[0] = 255
  BY <1>2, <1>8
<1>10. \A j \in 0 .. 33 : r[j + 1] = Crc8Step(r[j], In(bits, j))
  BY <1>4, <1>8
<1>11. QED
  BY <1>7, <1>9, <1>10 DEF r

LEMMA Complement ==
  ASSUME NEW r \in 0 .. 255
  PROVE  \A i \in 0 .. 7 : Bit(255 - r, i) = 1 - Bit(r, i)
<1> DEFINE x7 == Bit(r, 7)  x6 == Bit(r, 6)  x5 == Bit(r, 5)  x4 == Bit(r, 4)
           x3 == Bit(r, 3)  x2 == Bit(r, 2)  x1 == Bit(r, 1)  x0 == Bit(r, 0)
           y7 == 1 - x7  y6 == 1 - x6  y5 == 1 - x5  y4 == 1 - x4
           y3 == 1 - x3  y2 == 1 - x2  y1 == 1 - x1  y0 == 1 - x0
           q == 255 - r
<1>1. /\ x7 \in {0, 1} /\ x6 \in {0, 1} /\ x5 \in {0, 1} /\ x4 \in {0, 1}
      /\ x3 \in {0, 1} /\ x2 \in {0, 1} /\ x1 \in {0, 1} /\ x0 \in {0, 1}
      /\ r = Octet(x7, x6, x5, x4, x3, x2, x1, x0)
  BY OctetIs
<1> HIDE DEF x7, x6, x5, x4, x3, x2, x1, x0
<1>2. Spells(q, y7, y6, y5, y4, y3, y2, y1, y0)
  BY <1>1 DEF Spells, Octet
<1> HIDE DEF y7, y6, y5, y4, y3, y2, y1, y0, q
<1>3. /\ Bit(q, 7) = y7 /\ Bit(q, 6) = y6 /\ Bit(q, 5) = y5 /\ Bit(q, 4) = y4
      /\ Bit(q, 3) = y3 /\ Bit(q, 2) = y2 /\ Bit(q, 1) = y1 /\ Bit(q, 0) = y0
  BY <1>2, BitsOf
<1>4. 0 .. 7 = {0, 1, 2, 3, 4, 5, 6, 7}
  OBVIOUS
<1>5. \A i \in {0, 1, 2, 3, 4, 5, 6, 7} : Bit(q, i) = 1 - Bit(r, i)
  BY <1>3 DEF y7, y6, y5, y4, y3, y2, y1, y0, x7, x6, x5, x4, x3, x2, x1, x0
<1>6. QED
  BY <1>4, <1>5 DEF q

(* What the registers of two words differ in, after k bits: the words      *)
(* differ at a, and at b if the CRC is taken over b.                       *)
Between(s, t, a, b, k) ==
  \E v : /\ Diff(Reg(s)[k], Reg(t)[k], v)
         /\ k <= a => v = 0
         /\ a < k /\ k <= b => v = Trail[k - a]
         /\ b < k => v # 0

DifferAt(s, t, a, b) ==
  \A j \in 0 .. 33 : Xor(In(s, j), In(t, j)) = IF j = a \/ j = b THEN 1 ELSE 0

LEMMA BetweenStep ==
  ASSUME NEW s, NEW t, NEW a \in 0 .. 33, NEW b \in Nat, a < b, DifferAt(s, t, a, b),
         NEW k \in 0 .. 33, Between(s, t, a, b, k)
  PROVE  Between(s, t, a, b, k + 1)
<1>1. PICK v : /\ Diff(Reg(s)[k], Reg(t)[k], v)
               /\ k <= a => v = 0
               /\ a < k /\ k <= b => v = Trail[k - a]
               /\ b < k => v # 0
  BY DEF Between
<1> DEFINE x == In(s, k)
           y == In(t, k)
           c == Reg(s)[k]
           d == Reg(t)[k]
<1>2. x \in {0, 1} /\ y \in {0, 1}
  BY DEF In
<1>3. Xor(x, y) = IF k = a \/ k = b THEN 1 ELSE 0
  BY DEF DifferAt
<1>4. Reg(s)[k + 1] = Crc8Step(c, x) /\ Reg(t)[k + 1] = Crc8Step(d, y)
  BY RegIs
<1> HIDE DEF x, y, c, d
<1> DEFINE w == Crc8Step(v, Xor(x, y))
<1>5. Diff(Reg(s)[k + 1], Reg(t)[k + 1], w)
  <2>1. Diff(c, d, v)
    BY <1>1 DEF c, d
  <2>2. Diff(Crc8Step(c, x), Crc8Step(d, y), w)
    BY <1>2, <2>1, DiffStep
  <2>3. QED
    BY <1>4, <2>2
<1>6. v \in 0 .. 255
  BY <1>1 DEF Diff
<1>7. /\ k + 1 <= a => w = 0
      /\ a < k + 1 /\ k + 1 <= b => w = Trail[(k + 1) - a]
      /\ b < k + 1 => w # 0
  <2>1. CASE k < a
    <3>1. v = 0 /\ w = Crc8Step(v, 0)
      BY <1>1, <1>3, <2>1
    <3>2. Crc8Step(0, 0) = 0
      BY DEF Crc8Step
    <3>3. QED
      BY <2>1, <3>1, <3>2
  <2>2. CASE k = a
    <3>1. v = 0 /\ w = Crc8Step(v, 1) /\ (k + 1) - a = 1
      BY <1>1, <1>3, <2>2
    <3>2. w = Trail[1]
      BY <3>1, TrailIs
    <3>3. QED
      BY <2>2, <3>1, <3>2
  <2>3. CASE a < k /\ k < b
    <3> DEFINE i == k - a
    <3>1. i \in 1 .. 33 /\ (k + 1) - a = i + 1
      BY <2>3
    <3>2. v = Trail[i] /\ w = Crc8Step(v, 0)
      BY <1>1, <1>3, <2>3
    <3> HIDE DEF i
    <3>3. w = Trail[i + 1]
      BY <3>1, <3>2, TrailIs
    <3>4. QED
      BY <2>3, <3>1, <3>3
  <2>4. CASE k = b
    <3> DEFINE i == k - a
    <3>1. i \in 1 .. 34
      BY <2>4
    <3>2. v = Trail[i] /\ w = Crc8Step(v, 1)
      BY <1>1, <1>3, <2>4
    <3> HIDE DEF i
    <3>3. v # 0 /\ v # 128
      BY <3>1, <3>2, TrailIs
    <3>4. w # 0
      BY <1>6, <3>2, <3>3, StepLasts
    <3>5. QED
      BY <2>4, <3>4
  <2>5. CASE b < k
    <3>1. v # 0 /\ w = Crc8Step(v, 0)
      BY <1>1, <1>3, <2>5
    <3>2. w # 0
      BY <1>6, <3>1, StepLasts
    <3>3. QED
      BY <2>5, <3>2
  <2>6. QED
    BY <2>1, <2>2, <2>3, <2>4, <2>5
<1> HIDE DEF w
<1>8. QED
  BY <1>5, <1>7, Zenon DEF Between

LEMMA ErrorSpreads ==
  ASSUME NEW s, NEW t, NEW a \in 0 .. 33, NEW b \in Nat, a < b, DifferAt(s, t, a, b)
  PROVE  \E v : /\ Diff(Reg(s)[34], Reg(t)[34], v) /\ v # 0
                /\ b > 33 => v \notin {0, 1, 2, 4, 8, 16, 32, 64, 128}
<1> DEFINE T == {k \in Nat : k <= 34 => Between(s, t, a, b, k)}
<1>1. 0 \in T
  <2>1. Diff(Reg(s)[0], Reg(t)[0], 0)
    <3>1. Reg(s)[0] = 255 /\ Reg(t)[0] = 255 /\ 255 \in 0 .. 255
      BY RegIs
    <3>2. QED
      BY <3>1, DiffNone
  <2>2. ~ (a < 0) /\ ~ (b < 0)
    OBVIOUS
  <2>3. Between(s, t, a, b, 0)
    BY <2>1, <2>2, Zenon DEF Between
  <2>4. QED
    BY <2>3
<1>2. ASSUME NEW k \in T
      PROVE  k + 1 \in T
  <2> SUFFICES ASSUME k + 1 <= 34 PROVE Between(s, t, a, b, k + 1)
    OBVIOUS
  <2>1. k \in 0 .. 33 /\ Between(s, t, a, b, k)
    OBVIOUS
  <2>2. QED
    BY <2>1, BetweenStep
<1>3. T = Nat
  <2> HIDE DEF T
  <2>1. T \in SUBSET Nat
    BY DEF T
  <2>2. QED
    BY <1>1, <1>2, <2>1, NatInduct
<1>4. Between(s, t, a, b, 34)
  BY <1>3
<1>5. PICK v : /\ Diff(Reg(s)[34], Reg(t)[34], v)
               /\ a < 34 /\ 34 <= b => v = Trail[34 - a]
               /\ b < 34 => v # 0
  BY <1>4, Zenon DEF Between
<1>6. 34 <= b => v \notin {0, 1, 2, 4, 8, 16, 32, 64, 128}
  <2> DEFINE i == 34 - a
  <2>1. i \in 1 .. 34 /\ a < 34
    OBVIOUS
  <2>2. 34 <= b => v = Trail[i]
    BY <1>5, <2>1
  <2> HIDE DEF i
  <2>3. QED
    BY <2>1, <2>2, TrailIs
<1>7. (b > 33 <=> 34 <= b) /\ (b < 34 \/ 34 <= b)
  OBVIOUS
<1>8. v # 0
  BY <1>5, <1>6, <1>7
<1>9. QED
  BY <1>5, <1>6, <1>7, <1>8

(* The bits of the CRC differ where its registers do.                      *)
LEMMA CrcDiffers ==
  ASSUME NEW s, NEW t, NEW v, Diff(Reg(s)[34], Reg(t)[34], v)
  PROVE  \A i \in 0 .. 7 :
           Bit(v, i) = 1 <=> ~ ((Bit(Crc8(s), i) = 1) <=> (Bit(Crc8(t), i) = 1))
<1> DEFINE p == Reg(s)[34]
           q == Reg(t)[34]
<1>1. p \in 0 .. 255 /\ q \in 0 .. 255 /\ v \in 0 .. 255
  BY DEF Diff
<1>2. Crc8(s) = 255 - p /\ Crc8(t) = 255 - q
  BY RegIs
<1>3. 0 .. 7 = {0, 1, 2, 3, 4, 5, 6, 7}
  OBVIOUS
<1> HIDE DEF p, q
<1>4. /\ \A i \in 0 .. 7 : Bit(p, i) \in {0, 1} /\ Bit(255 - p, i) = 1 - Bit(p, i)
      /\ \A i \in 0 .. 7 : Bit(q, i) \in {0, 1} /\ Bit(255 - q, i) = 1 - Bit(q, i)
  BY <1>1, OctetIs, Complement
<1>5. Diff(p, q, v)
  BY DEF p, q
<1>6. \A i \in {0, 1, 2, 3, 4, 5, 6, 7} : Bit(v, i) = Xor(Bit(p, i), Bit(q, i))
  BY <1>5 DEF Diff
<1>7. ASSUME NEW i \in 0 .. 7
      PROVE  Bit(v, i) = 1 <=> ~ ((Bit(255 - p, i) = 1) <=> (Bit(255 - q, i) = 1))
  <2> DEFINE x == Bit(p, i)
             y == Bit(q, i)
  <2>1. /\ x \in {0, 1} /\ y \in {0, 1} /\ Bit(v, i) = Xor(x, y)
        /\ Bit(255 - p, i) = 1 - x /\ Bit(255 - q, i) = 1 - y
    BY <1>3, <1>4, <1>6
  <2> HIDE DEF x, y
  <2>2. (x = 0 \/ x = 1) /\ (y = 0 \/ y = 1)
    BY <2>1
  <2>3. QED
    BY <2>1, <2>2 DEF Xor
<1>8. QED
  BY <1>2, <1>7

(* An octet with no bit set but perhaps one.                               *)
LEMMA OneBit ==
  ASSUME NEW v \in 0 .. 255, NEW m \in Int,
         \A i \in 0 .. 7 : Bit(v, i) = 1 => i = m
  PROVE  /\ v \in {0, 1, 2, 4, 8, 16, 32, 64, 128}
         /\ m \notin 0 .. 7 => v = 0
<1> DEFINE x7 == Bit(v, 7)  x6 == Bit(v, 6)  x5 == Bit(v, 5)  x4 == Bit(v, 4)
           x3 == Bit(v, 3)  x2 == Bit(v, 2)  x1 == Bit(v, 1)  x0 == Bit(v, 0)
<1>1. /\ x7 \in {0, 1} /\ x6 \in {0, 1} /\ x5 \in {0, 1} /\ x4 \in {0, 1}
      /\ x3 \in {0, 1} /\ x2 \in {0, 1} /\ x1 \in {0, 1} /\ x0 \in {0, 1}
      /\ v = Octet(x7, x6, x5, x4, x3, x2, x1, x0)
  BY OctetIs
<1>2. 0 .. 7 = {0, 1, 2, 3, 4, 5, 6, 7}
  OBVIOUS
<1>3. /\ (x7 = 1 => m = 7) /\ (x6 = 1 => m = 6) /\ (x5 = 1 => m = 5) /\ (x4 = 1 => m = 4)
      /\ (x3 = 1 => m = 3) /\ (x2 = 1 => m = 2) /\ (x1 = 1 => m = 1) /\ (x0 = 1 => m = 0)
  BY <1>2
<1> HIDE DEF x7, x6, x5, x4, x3, x2, x1, x0
<1>4. v = 128 * x7 + 64 * x6 + 32 * x5 + 16 * x4 + 8 * x3 + 4 * x2 + 2 * x1 + x0
  BY <1>1 DEF Octet
<1>5. QED
  BY <1>1, <1>2, <1>3, <1>4

(* The word that a CRC was put on, with one or two wrong bits.             *)
LEMMA TwoErrorsSeen ==
  ASSUME NEW sig, CrcHolds(sig), NEW a \in 0 .. 41, NEW b \in 0 .. 41
  PROVE  ~ CrcHolds(Flip(sig, {a, b}))
<1> DEFINE e == {a, b}
           wrong == Flip(sig, e)
           s == sig \cap (0 .. 33)
           t == wrong \cap (0 .. 33)
<1> SUFFICES ASSUME CrcHolds(wrong) PROVE FALSE
  OBVIOUS
<1>1. \A j : j \in e <=> ~ ((j \in sig) <=> (j \in wrong))
  BY DEF Flip
<1>2. /\ \A i \in 0 .. 7 : 34 + i \in sig <=> Bit(Crc8(s), 7 - i) = 1
      /\ \A i \in 0 .. 7 : 34 + i \in wrong <=> Bit(Crc8(t), 7 - i) = 1
  <2>1. WithCrc(s) = sig /\ WithCrc(t) = wrong
    BY DEF CrcHolds
  <2>2. ASSUME NEW u, NEW i \in 0 .. 7
        PROVE  34 + i \in WithCrc(u \cap (0 .. 33)) <=> Bit(Crc8(u \cap (0 .. 33)), 7 - i) = 1
    <3> DEFINE w == u \cap (0 .. 33)
    <3>1. 34 + i \notin w
      OBVIOUS
    <3> HIDE DEF w
    <3>2. 34 + i \in WithCrc(w) <=> Bit(Crc8(w), 7 - i) = 1
      <4>1. \A j \in 0 .. 7 : 34 + i = 34 + j => i = j
        OBVIOUS
      <4>2. QED
        BY <3>1, <4>1, Zenon DEF WithCrc, Bit
    <3>3. QED
      BY <3>2 DEF w
  <2>3. QED
    BY <2>1, <2>2, Zenon
<1>3. e \subseteq 0 .. 41 /\ a \in e /\ b \in e /\ \A j \in e : j = a \/ j = b
  OBVIOUS
<1>4. \A j \in 0 .. 33 : j \in e <=> ~ ((j \in s) <=> (j \in t))
  BY <1>1
<1>5. s \subseteq 0 .. 33 /\ t \subseteq 0 .. 33
  OBVIOUS
<1> HIDE DEF e, wrong, s, t
<1>6. ASSUME NEW v, Diff(Reg(s)[34], Reg(t)[34], v)
      PROVE  v \in 0 .. 255 /\ \A i \in 0 .. 7 : Bit(v, i) = 1 <=> 41 - i \in e
  <2>1. v \in 0 .. 255
    BY <1>6 DEF Diff
  <2>2. \A i \in 0 .. 7 : Bit(v, i) = 1 <=> ~ ((Bit(Crc8(s), i) = 1) <=> (Bit(Crc8(t), i) = 1))
    BY <1>6, CrcDiffers
  <2>3. ASSUME NEW i \in 0 .. 7
        PROVE  Bit(v, i) = 1 <=> 41 - i \in e
    <3> DEFINE k == 7 - i
    <3>1. k \in 0 .. 7 /\ 7 - k = i /\ 34 + k = 41 - i
      OBVIOUS
    <3> HIDE DEF k
    <3>2. (34 + k \in sig <=> Bit(Crc8(s), i) = 1) /\ (34 + k \in wrong <=> Bit(Crc8(t), i) = 1)
      BY <1>2, <3>1
    <3>3. Bit(v, i) = 1 <=> ~ ((34 + k \in sig) <=> (34 + k \in wrong))
      BY <2>2, <3>2, Zenon
    <3>4. QED
      BY <1>1, <3>1, <3>3
  <2>4. QED
    BY <2>1, <2>3
<1>7. CASE a > 33 /\ b > 33
  <2>1. \A j \in 0 .. 33 : j \notin e
    BY <1>3, <1>7
  <2>2. s = t
    BY <1>4, <1>5, <2>1
  <2>3. 34 + (a - 34) = a /\ a - 34 \in 0 .. 7
    BY <1>7
  <2>4. a \in sig <=> a \in wrong
    BY <1>2, <2>2, <2>3
  <2>5. QED
    BY <1>1, <1>3, <2>4
<1>8. ASSUME NEW x \in 0 .. 33, NEW y \in 0 .. 42, x < y, y = 42 \/ y \in e,
             x \in e, \A j \in e : j = x \/ j = y
      PROVE  FALSE
  <2>1. DifferAt(s, t, x, y)
    <3>1. ASSUME NEW j \in 0 .. 33
          PROVE  Xor(In(s, j), In(t, j)) = IF j = x \/ j = y THEN 1 ELSE 0
      <4>1. (j = x \/ j = y) <=> ~ ((j \in s) <=> (j \in t))
        <5>1. j = x \/ j = y <=> j \in e
          BY <1>8
        <5>2. QED
          BY <1>4, <5>1
      <4>2. QED
        BY <4>1 DEF In, Xor
    <3>2. QED
      BY <3>1 DEF DifferAt
  <2>2. y \in Nat
    OBVIOUS
  <2>3. PICK v : /\ Diff(Reg(s)[34], Reg(t)[34], v) /\ v # 0
                 /\ y > 33 => v \notin {0, 1, 2, 4, 8, 16, 32, 64, 128}
    BY <1>8, <2>1, <2>2, ErrorSpreads
  <2>4. v \in 0 .. 255 /\ \A i \in 0 .. 7 : Bit(v, i) = 1 <=> 41 - i \in e
    BY <1>6, <2>3
  <2> DEFINE m == 41 - y
  <2>5. m \in Int /\ \A i \in 0 .. 7 : Bit(v, i) = 1 => i = m
    <3>1. ASSUME NEW i \in 0 .. 7, Bit(v, i) = 1
          PROVE  i = m
      <4>1. 41 - i \in e /\ 41 - i # x
        BY <2>4, <3>1
      <4>2. 41 - i = y
        BY <1>8, <4>1
      <4>3. QED
        BY <4>2
    <3>2. QED
      BY <3>1
  <2>6. v \in {0, 1, 2, 4, 8, 16, 32, 64, 128} /\ (m \notin 0 .. 7 => v = 0)
    <3> HIDE DEF m
    <3>1. QED
      BY <2>4, <2>5, OneBit, Zenon
  <2>7. y <= 33 => m \notin 0 .. 7
    OBVIOUS
  <2>8. y <= 33 \/ y > 33
    OBVIOUS
  <2>9. QED
    BY <2>3, <2>6, <2>7, <2>8
<1>9. CASE a <= 33 /\ b > 33
  <2>1. a \in 0 .. 33 /\ b \in 0 .. 42 /\ a < b
    BY <1>9
  <2>2. QED
    BY <1>3, <1>8, <2>1
<1>10. CASE a > 33 /\ b <= 33
  <2>1. b \in 0 .. 33 /\ a \in 0 .. 42 /\ b < a
    BY <1>10
  <2>2. QED
    BY <1>3, <1>8, <2>1
<1>11. CASE a <= 33 /\ b <= 33
  <2>1. a \in 0 .. 33 /\ b \in 0 .. 33 /\ a \in 0 .. 42 /\ b \in 0 .. 42
        /\ a < 42 /\ 42 \in 0 .. 42
    BY <1>11
  <2>2. CASE a < b
    BY <1>3, <1>8, <2>1, <2>2
  <2>3. CASE b < a
    BY <1>3, <1>8, <2>1, <2>3
  <2>4. CASE a = b
    BY <1>3, <1>8, <2>1, <2>4
  <2>5. QED
    BY <2>1, <2>2, <2>3, <2>4
<1>12. QED
  BY <1>7, <1>9, <1>10, <1>11

(* No one or two wrong bits in an HT-SIG or a VHT-SIG-A go unnoticed, for  *)
(* every rate, every length and every flag that the generators put there:  *)
(* HeaderErrorsSeen, and without its restriction to the slowest rates.     *)
THEOREM HeaderErrorsFound ==
  Spec => [](HeaderErrorsSeen /\ (fmt # "legacy" =>
                ErrorsSeen(IF fmt = "vht" THEN VhtSigA ELSE HtSig)))
<1>1. TypeOK /\ fmt # "legacy" => ErrorsSeen(IF fmt = "vht" THEN VhtSigA ELSE HtSig)
  <2> SUFFICES ASSUME TypeOK, fmt # "legacy"
               PROVE  ErrorsSeen(IF fmt = "vht" THEN VhtSigA ELSE HtSig)
    OBVIOUS
  <2>1. fmt \in AllFormats \ {"legacy"}
    BY DEF TypeOK
  <2>2. dbps \in Rates(fmt) /\ len \in Nat
    BY FrameAssumption DEF TypeOK
  <2>3. Mcs \in 0 .. 15
    BY <2>1, <2>2, McsIs
  <2>4. CrcHolds(HtSig)
    BY <2>1, <2>2, <2>3, HtSigReads
  <2>5. CrcHolds(VhtSigA)
    BY <2>2, <2>3, VhtSigReads
  <2>6. ASSUME NEW sig, CrcHolds(sig)
        PROVE  ErrorsSeen(sig)
    BY <2>6, TwoErrorsSeen DEF ErrorsSeen
  <2>7. QED
    BY <2>4, <2>5, <2>6
<1>2. TypeOK => HeaderErrorsSeen
  BY <1>1 DEF HeaderErrorsSeen, NSig
<1>3. QED
  BY <1>1, <1>2, FrameTypeCorrect, PTL
=============================================================================
