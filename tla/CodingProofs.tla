----------------------------- MODULE CodingProofs -----------------------------
(***************************************************************************)
(* Theorems about the two codes of the repository.  Of the convolutional   *)
(* one (BitCoding), for every PSDU length, every set of seeds and every    *)
(* rate: the descrambler recovers the data without being told the seed,    *)
(* the tail terminates the code, different PSDUs stay the free distance    *)
(* apart, and the pilot polarities are the scrambler's keystream.  Of the  *)
(* LDPC one (LdpcEncode, LdpcDecode), for every parity-check matrix:       *)
(* reducing it keeps the code, with full rank what is encoded is a         *)
(* codeword, and the decoder treats all codewords alike and corrects a     *)
(* single weak error.                                                      *)
(***************************************************************************)
EXTENDS BitCoding, LdpcDecode, FiniteSetTheorems, WellFoundedInduction, TLAPS

(* Feedback bits are bits.                                                 *)
LEMMA FeedbackIsBit ==
  ASSUME NEW R \in Registers
  PROVE  Feedback(R) \in Bit
<1>1. IsFiniteSet(0 .. 6)
  <2>1. 0 \in Int /\ 6 \in Int
    OBVIOUS
  <2>2. QED
    BY <2>1, FS_Interval
<1>2. R \cap {6, 3} \in SUBSET (0 .. 6)
  BY DEF Registers
<1>3. Cardinality(R \cap {6, 3}) \in Nat
  BY <1>1, <1>2, FS_Subset, FS_CardinalityType
<1>4. QED
  BY <1>3 DEF Feedback, Parity, Bit

(* Scrambling a zero sends the feedback bit itself.                        *)
LEMMA ScrambledZero ==
  ASSUME lfsr \in Registers
  PROVE  Scrambled(0) = Feedback(lfsr)
BY FeedbackIsBit DEF Scrambled, Xor, Bit

(* A shifted register is a register.                                       *)
LEMMA ShiftTyped ==
  ASSUME NEW R \in Registers, NEW b
  PROVE  Shift(R, b) \in Registers
BY DEF Shift, Registers

(* Which bits are set after a shift.                                       *)
LEMMA ShiftBits ==
  ASSUME NEW R \in Registers, NEW b, NEW j \in 0 .. 6
  PROVE  j \in Shift(R, b) <=> IF j = 0 THEN b = 1 ELSE j - 1 \in R
<1>1. CASE j = 0
  BY <1>1 DEF Shift, Registers
<1>2. CASE j # 0
  <2>1. j - 1 \in 0 .. 5
    BY <1>2
  <2>2. j \in Shift(R, b) => j - 1 \in R
    BY <1>2 DEF Shift, Registers
  <2>3. j - 1 \in R => j \in Shift(R, b)
    <3> SUFFICES ASSUME j - 1 \in R PROVE j \in {k + 1 : k \in R \ {6}}
      BY DEF Shift
    <3>1. j - 1 \in R \ {6} /\ j = (j - 1) + 1
      BY <2>1
    <3>2. QED
      BY <3>1
  <2>4. QED
    BY <1>2, <2>2, <2>3
<1>3. QED
  BY <1>1, <1>2

-----------------------------------------------------------------------------
(* The descrambler.  While it reads its first seven bits, which are        *)
(* feedback bits since SERVICE is zero, its register is the lower part of  *)
(* the scrambler's, moved up; then the two registers are equal.            *)
Registered ==
  /\ n \in Nat
  /\ lfsr \in Registers
  /\ descr \in Registers

Following ==
  /\ n <= 7 => \A j \in 0 .. 6 : j \in descr <=> (j >= 7 - n /\ j - (7 - n) \in lfsr)
  /\ 7 <= n /\ n <= TailAt => descr = lfsr

DescrInv == Registered /\ Following /\ DescrambleRecovers

(* The initial registers, with nothing read.                               *)
LEMMA DescrInit == Init => DescrInv
<1> SUFFICES ASSUME Init PROVE DescrInv
  OBVIOUS
<1>1. Registered
  BY CodingAssumption DEF Init, Registered, Registers
<1>2. n = 0 /\ descr = {} /\ lfsr \in SUBSET (0 .. 6)
  BY <1>1 DEF Init, Registered, Registers
<1>3. \A j \in 0 .. 6 : ~(j >= 7 - n)
  BY <1>2
<1>4. Following
  BY <1>2, <1>3 DEF Following
<1>5. DescrambleRecovers
  BY DEF Init, DescrambleRecovers
<1>6. QED
  BY <1>1, <1>4, <1>5 DEF DescrInv

(* One bit through scrambler and descrambler: any bit once the register is *)
(* full, a zero before.                                                    *)
LEMMA DescrStep ==
  ASSUME DescrInv, n < TailAt, NEW s, CodeBit(s),
         NEW d \in Bit, Descramble(Scrambled(d)), n < 7 => d = 0
  PROVE  DescrInv'
<1>1. /\ n \in Nat /\ n' = n + 1
      /\ lfsr \in Registers /\ lfsr' = Shift(lfsr, Feedback(lfsr))
      /\ descr \in Registers /\ lfsr' \in Registers
  BY ShiftTyped DEF DescrInv, Registered, CodeBit
<1>2. CASE n < 7
  <2> DEFINE fb == Feedback(lfsr)
  <2>1. fb \in Bit
    BY <1>1, FeedbackIsBit
  <2>2. descr' = (IF fb = 1 THEN descr \cup {6 - n} ELSE descr) /\ read' = read
    BY <1>1, <1>2, ScrambledZero DEF Descramble
  <2>3. 6 - n \in 0 .. 6
    BY <1>1, <1>2
  <2>4. descr' \in Registers
    BY <1>1, <2>2, <2>3 DEF Registers
  <2>5. ASSUME NEW j \in 0 .. 6
        PROVE  j \in descr' <=> (j >= 6 - n /\ j - (6 - n) \in lfsr')
    <3>1. j \in descr <=> (j >= 7 - n /\ j - (7 - n) \in lfsr)
      BY <1>1, <1>2 DEF DescrInv, Following
    <3>2. j \in descr' <=> (j \in descr \/ (fb = 1 /\ j = 6 - n))
      BY <2>2
    <3>3. CASE j < 6 - n
      BY <1>1, <3>1, <3>2, <3>3
    <3>4. CASE j = 6 - n
      <4>1. 0 \in lfsr' <=> fb = 1
        BY <1>1, ShiftBits
      <4>2. j - (6 - n) = 0 /\ ~(j >= 7 - n)
        BY <1>1, <3>4
      <4>3. QED
        BY <1>1, <3>1, <3>2, <3>4, <4>1, <4>2
    <3>5. CASE j > 6 - n
      <4> DEFINE x == j - (6 - n)
      <4>1. x \in 0 .. 6 /\ x # 0 /\ x - 1 = j - (7 - n) /\ j >= 7 - n /\ j # 6 - n
        BY <1>1, <1>2, <3>5
      <4> HIDE DEF x
      <4>2. x \in lfsr' <=> x - 1 \in lfsr
        BY <1>1, <4>1, ShiftBits
      <4>3. QED
        BY <1>1, <3>1, <3>2, <3>5, <4>1, <4>2 DEF x
    <3>6. QED
      BY <1>1, <3>3, <3>4, <3>5
  <2>6. n' <= 7 /\ 7 - n' = 6 - n
    BY <1>1, <1>2
  <2>7. 7 <= n' => descr' = lfsr'
    <3> SUFFICES ASSUME n' = 7 PROVE descr' = lfsr'
      BY <1>1, <2>6
    <3>1. \A j \in 0 .. 6 : j \in descr' <=> j \in lfsr'
      BY <1>1, <2>5
    <3>2. QED
      BY <1>1, <2>4, <3>1 DEF Registers
  <2>8. Following'
    BY <2>5, <2>6, <2>7 DEF Following
  <2>9. QED
    BY <1>1, <2>2, <2>4, <2>8 DEF DescrInv, Registered, DescrambleRecovers
<1>3. CASE n >= 7
  <2>1. descr = lfsr
    <3>1. TailAt \in Nat
      BY CodingAssumption DEF TailAt, Service
    <3>2. 7 <= n /\ n <= TailAt
      BY <1>1, <1>3, <3>1
    <3>3. QED
      BY <3>2 DEF DescrInv, Following
  <2>2. /\ descr' = Shift(descr, Feedback(descr))
        /\ read' = [sent |-> Xor(Scrambled(d), Feedback(lfsr)),
                    got |-> Xor(Scrambled(d), Feedback(descr))]
    BY <1>1, <1>3 DEF Descramble
  <2>3. descr' = lfsr'
    BY <1>1, <2>1, <2>2
  <2>4. DescrambleRecovers'
    BY <2>1, <2>2 DEF DescrambleRecovers
  <2>5. ~(n' <= 7)
    BY <1>1, <1>3
  <2>6. QED
    BY <1>1, <2>3, <2>4, <2>5 DEF DescrInv, Registered, Following
<1>4. QED
  BY <1>1, <1>2, <1>3

(* After the PSDU the descrambler is at rest.                              *)
LEMMA DescrRest ==
  ASSUME DescrInv, TailAt <= n, NEW s, CodeBit(s), UNCHANGED <<descr, read>>
  PROVE  DescrInv'
<1>1. n \in Nat /\ n' = n + 1 /\ lfsr' \in Registers /\ TailAt \in Nat /\ TailAt > 16
  BY CodingAssumption, ShiftTyped DEF DescrInv, Registered, CodeBit, TailAt, Service
<1>2. ~(n' <= 7) /\ ~(n' <= TailAt)
  BY <1>1
<1>3. TailAt' = TailAt
  BY DEF TailAt
<1>4. QED
  BY <1>1, <1>2, <1>3 DEF DescrInv, Registered, Following, DescrambleRecovers

(* The descrambler of ldpc_data_selftest recovers every data bit, for      *)
(* every seed and every PSDU.                                              *)
THEOREM DescramblerRecovers == Spec => []DescrambleRecovers
<1>1. DescrInv /\ [Next]_vars => DescrInv'
  <2> SUFFICES ASSUME DescrInv, [Next]_vars PROVE DescrInv'
    OBVIOUS
  <2>1. CASE ServiceBit
    <3>1. n < TailAt
      BY <2>1, CodingAssumption DEF ServiceBit, TailAt, Service, DescrInv, Registered
    <3>2. QED
      BY <2>1, <3>1, DescrStep DEF ServiceBit, Bit
  <2>2. CASE PsduBit
    <3>1. PICK d \in [Pair -> Bit] :
            /\ CodeBit([m \in Pair |-> Scrambled(d[m])])
            /\ Descramble(Scrambled(d[1]))
      BY <2>2 DEF PsduBit
    <3>2. d[1] \in Bit
      BY <3>1 DEF Pair
    <3>3. n < TailAt /\ ~(n < 7)
      BY <2>2 DEF PsduBit, Service, DescrInv, Registered
    <3>4. QED
      BY <3>1, <3>2, <3>3, DescrStep
  <2>3. CASE TailBit
    BY <2>3, DescrRest DEF TailBit
  <2>4. CASE PadBit
    <3>1. TailAt <= n
      BY <2>4, CodingAssumption DEF PadBit, DescrInv, Registered, TailAt, Service
    <3>2. QED
      BY <2>4, <3>1, DescrRest DEF PadBit
  <2>5. CASE UNCHANGED vars
    BY <2>5 DEF vars, DescrInv, Registered, Following, DescrambleRecovers, TailAt
  <2>6. QED
    BY <2>1, <2>2, <2>3, <2>4, <2>5 DEF Next, Finished
<1>2. DescrInv => DescrambleRecovers
  BY DEF DescrInv
<1>3. QED
  BY <1>1, <1>2, DescrInit, PTL DEF Spec
-----------------------------------------------------------------------------
(* The tail.  Each zero pushes the PSDU's bits one place up the register,  *)
(* so after t tail bits the lowest t places are empty; the pad then enters *)
(* two coders whose remaining bit is pushed out by the first pad bit.      *)
Tailing ==
  /\ n \in Nat
  /\ enc \in [Pair -> Registers]
  /\ TailAt <= n /\ n <= TailAt + 6 =>
       \A m \in Pair : \A j \in 0 .. 5 : j < n - TailAt => j \notin enc[m]
  /\ n > TailAt + 6 => enc[1] = enc[2]

(* The tail's last zero leaves only the oldest place occupied.             *)
LEMMA TailingTerminates == Tailing => TailTerminates
<1> SUFFICES ASSUME Tailing PROVE TailTerminates
  OBVIOUS
<1>1. TailAt \in Nat
  BY CodingAssumption DEF TailAt, Service
<1>2. ASSUME n = TailAt + 6, NEW m \in Pair
      PROVE  enc[m] \subseteq {6}
  <2>1. \A j \in 0 .. 5 : j \notin enc[m]
    BY <1>1, <1>2 DEF Tailing
  <2>2. enc[m] \in SUBSET (0 .. 6)
    BY DEF Tailing, Registers
  <2>3. QED
    BY <2>1, <2>2
<1>3. QED
  BY <1>2 DEF TailTerminates, Tailing

(* What every bit does to the two coders.                                  *)
LEMMA CodeBitTyped ==
  ASSUME Tailing, NEW s, CodeBit(s)
  PROVE  /\ n \in Nat /\ n' = n + 1
         /\ enc' \in [Pair -> Registers]
         /\ \A m \in Pair : enc[m] \in Registers /\ enc'[m] = Shift(enc[m], s[m])
BY ShiftTyped DEF Tailing, CodeBit

(* Step by step.                                                           *)
LEMMA TailingInvariant == Spec => []Tailing
<1>0. TailAt \in Nat /\ TailAt > 16 /\ TailAt' = TailAt
  BY CodingAssumption DEF TailAt, Service
<1>1. Init => Tailing
  BY <1>0 DEF Init, Tailing, Registers
<1>2. Tailing /\ [Next]_vars => Tailing'
  <2> SUFFICES ASSUME Tailing, [Next]_vars PROVE Tailing'
    OBVIOUS
  <2>1. ASSUME NEW s, CodeBit(s), n < TailAt
        PROVE  Tailing'
    <3>1. n' \in Nat /\ n' <= TailAt
      BY <1>0, <2>1, CodeBitTyped
    <3>2. ASSUME NEW j \in 0 .. 5
          PROVE  ~(j < n' - TailAt)
      <4> DEFINE x == n'
                 t == TailAt
      <4>1. x \in Nat /\ t \in Nat /\ x <= t
        BY <1>0, <3>1
      <4> HIDE DEF x, t
      <4>2. ~(j < x - t)
        BY <4>1
      <4>3. QED
        BY <4>2 DEF x, t
    <3>3. ~(n' > TailAt + 6)
      BY <1>0, <3>1
    <3>4. enc' \in [Pair -> Registers]
      BY <2>1, CodeBitTyped
    <3>5. QED
      BY <1>0, <3>1, <3>2, <3>3, <3>4 DEF Tailing
  <2>2. CASE ServiceBit
    BY <1>0, <2>1, <2>2 DEF ServiceBit, Service, Tailing
  <2>3. CASE PsduBit
    BY <2>1, <2>3 DEF PsduBit
  <2>4. CASE TailBit
    <3> DEFINE z == [m \in Pair |-> 0]
    <3>1. CodeBit(z) /\ TailAt <= n /\ n < TailAt + 6
      BY <2>4 DEF TailBit
    <3>2. ASSUME NEW m \in Pair, NEW j \in 0 .. 5, j < n' - TailAt
          PROVE  j \notin enc'[m]
      <4>1. enc[m] \in Registers /\ enc'[m] = Shift(enc[m], 0) /\ n' = n + 1 /\ n \in Nat
        BY <3>1, CodeBitTyped
      <4>2. j \in enc'[m] <=> IF j = 0 THEN FALSE ELSE j - 1 \in enc[m]
        BY <4>1, ShiftBits
      <4>3. j # 0 => j - 1 \in 0 .. 5 /\ j - 1 < n - TailAt
        BY <1>0, <3>2, <4>1
      <4>4. j # 0 => j - 1 \notin enc[m]
        BY <1>0, <3>1, <4>1, <4>3 DEF Tailing
      <4>5. QED
        BY <4>2, <4>4
    <3>3. n' = n + 1 /\ n \in Nat /\ enc' \in [Pair -> Registers]
      BY <3>1, CodeBitTyped
    <3>4. ~(n' > TailAt + 6)
      BY <1>0, <3>1, <3>3
    <3>5. QED
      BY <1>0, <3>2, <3>3, <3>4 DEF Tailing
  <2>5. CASE PadBit
    <3> DEFINE p == [m \in Pair |-> Scrambled(0)]
    <3>1. CodeBit(p) /\ TailAt + 6 <= n
      BY <2>5 DEF PadBit
    <3>2. /\ n' = n + 1 /\ n \in Nat /\ enc' \in [Pair -> Registers]
          /\ enc'[1] = Shift(enc[1], Scrambled(0))
          /\ enc'[2] = Shift(enc[2], Scrambled(0))
      BY <3>1, CodeBitTyped DEF Pair
    <3>3. enc[1] \ {6} = enc[2] \ {6}
      <4>1. CASE n = TailAt + 6
        <5>1. enc[1] \subseteq {6} /\ enc[2] \subseteq {6}
          BY <4>1, TailingTerminates DEF TailTerminates, Pair
        <5>2. QED
          BY <5>1
      <4>2. CASE n > TailAt + 6
        BY <4>2 DEF Tailing
      <4>3. QED
        BY <1>0, <3>1, <3>2, <4>1, <4>2
    <3>4. enc'[1] = enc'[2]
      BY <3>2, <3>3 DEF Shift
    <3>5. ~(n' <= TailAt + 6)
      BY <1>0, <3>1, <3>2
    <3>6. QED
      BY <1>0, <3>2, <3>4, <3>5 DEF Tailing
  <2>6. CASE UNCHANGED vars
    BY <1>0, <2>6 DEF vars, Tailing
  <2>7. QED
    BY <2>2, <2>3, <2>4, <2>5, <2>6 DEF Next, Finished
<1>3. QED
  BY <1>1, <1>2, PTL DEF Spec

(* The tail of six zeros terminates the code for every PSDU and rate.      *)
THEOREM TailTerminatesCode == Spec => []TailTerminates
BY TailingInvariant, TailingTerminates, PTL

-----------------------------------------------------------------------------
(* The keystream.  The register holds the last seven feedback bits, so the *)
(* table is the keystream if it obeys the recurrence of the taps.          *)
LEMMA NegativeRecurs ==
  ASSUME NEW t \in 0 .. 126
  PROVE  t \in Negative <=> ~((IF t < 7 THEN t + 120 ELSE t - 7) \in Negative
                              <=> (IF t < 4 THEN t + 123 ELSE t - 4) \in Negative)
<1>1. CASE t < 4
  BY <1>1 DEF Negative
<1>2. CASE 4 <= t /\ t < 7
  BY <1>2 DEF Negative
<1>3. CASE 7 <= t /\ t < 40
  BY <1>3 DEF Negative
<1>4. CASE 40 <= t /\ t < 80
  BY <1>4 DEF Negative
<1>5. CASE 80 <= t
  BY <1>5 DEF Negative
<1>6. QED
  BY <1>1, <1>2, <1>3, <1>4, <1>5

LEMMA FeedbackTaps ==
  ASSUME NEW R \in Registers
  PROVE  Feedback(R) = 1 <=> ~(6 \in R <=> 3 \in R)
<1>1. /\ Cardinality({3}) = 1 /\ Cardinality({6}) = 1
      /\ Cardinality({}) = 0 /\ Cardinality({3} \cup {6}) = 2
  <2>1. IsFiniteSet({3}) /\ Cardinality({3}) = 1 /\ Cardinality({6}) = 1
    BY FS_Singleton
  <2>2. Cardinality({}) = 0
    BY FS_EmptySet
  <2>3. Cardinality({3} \cup {6}) = 1 + 1
    BY <2>1, FS_AddElement
  <2>4. QED
    BY <2>1, <2>2, <2>3
<1>2. R \cap {6, 3} = IF 6 \in R THEN IF 3 \in R THEN {3} \cup {6} ELSE {6}
                      ELSE IF 3 \in R THEN {3} ELSE {}
  OBVIOUS
<1>3. 0 % 2 = 0 /\ 1 % 2 = 1 /\ 2 % 2 = 0
  OBVIOUS
<1>4. QED
  BY <1>1, <1>2, <1>3 DEF Feedback, Parity

Remembered ==
  /\ n \in Nat
  /\ lfsr \in Registers
  /\ seed = 0 .. 6 => \A j \in 0 .. 6 : j \in lfsr <=> (n + 126 - j) % 127 \in Negative

LEMMA RememberedSays ==
  ASSUME Remembered, seed = 0 .. 6
  PROVE  Feedback(lfsr) = 1 <=> n % 127 \in Negative
<1> DEFINE t == n % 127
<1>1. /\ t \in 0 .. 126
      /\ (n + 126 - 6) % 127 = IF t < 7 THEN t + 120 ELSE t - 7
      /\ (n + 126 - 3) % 127 = IF t < 4 THEN t + 123 ELSE t - 4
  BY DEF Remembered
<1>2. /\ 6 \in lfsr <=> (n + 126 - 6) % 127 \in Negative
      /\ 3 \in lfsr <=> (n + 126 - 3) % 127 \in Negative
  BY DEF Remembered
<1>3. Feedback(lfsr) = 1 <=> ~(6 \in lfsr <=> 3 \in lfsr)
  BY FeedbackTaps DEF Remembered
<1> HIDE DEF t
<1>4. t \in Negative <=> ~(6 \in lfsr <=> 3 \in lfsr)
  BY <1>1, <1>2, NegativeRecurs
<1>5. QED
  BY <1>3, <1>4 DEF t

LEMMA RememberedStep ==
  ASSUME Remembered, NEW s, CodeBit(s)
  PROVE  Remembered'
<1>1. /\ n \in Nat /\ n' = n + 1 /\ seed' = seed
      /\ lfsr \in Registers /\ lfsr' = Shift(lfsr, Feedback(lfsr)) /\ lfsr' \in Registers
  BY ShiftTyped DEF Remembered, CodeBit
<1>2. ASSUME seed = 0 .. 6, NEW j \in 0 .. 6
      PROVE  j \in lfsr' <=> (n' + 126 - j) % 127 \in Negative
  <2>1. CASE j = 0
    <3>1. (n' + 126 - j) % 127 = n % 127
      BY <1>1, <2>1
    <3>2. j \in lfsr' <=> Feedback(lfsr) = 1
      BY <1>1, <2>1, ShiftBits
    <3>3. QED
      BY <1>2, <3>1, <3>2, RememberedSays
  <2>2. CASE j # 0
    <3>1. j - 1 \in 0 .. 6 /\ n' + 126 - j = n + 126 - (j - 1)
      BY <1>1, <2>2
    <3>2. j \in lfsr' <=> j - 1 \in lfsr
      BY <1>1, <2>2, ShiftBits
    <3>3. j - 1 \in lfsr <=> (n + 126 - (j - 1)) % 127 \in Negative
      BY <1>2, <3>1 DEF Remembered
    <3>4. QED
      BY <3>1, <3>2, <3>3
  <2>3. QED
    BY <2>1, <2>2
<1>3. QED
  BY <1>1, <1>2 DEF Remembered

(* The POLARITY table is what scramble() would produce from the all-ones   *)
(* seed, for as long as a frame lasts.                                     *)
THEOREM PolarityMatchesScrambler == Spec => []PolarityIsKeystream
<1>1. Init => Remembered
  <2> SUFFICES ASSUME Init PROVE Remembered
    OBVIOUS
  <2>1. n = 0 /\ lfsr = seed /\ lfsr \in Registers
    BY CodingAssumption DEF Init
  <2>2. ASSUME NEW j \in 0 .. 6
        PROVE  (0 + 126 - j) % 127 \in Negative
    <3>1. (0 + 126 - j) % 127 = 126 - j
      OBVIOUS
    <3>2. 126 - j \in Negative
      BY DEF Negative
    <3>3. QED
      BY <3>1, <3>2
  <2>3. QED
    BY <2>1, <2>2 DEF Remembered
<1>2. Remembered /\ [Next]_vars => Remembered'
  <2>1. ASSUME Remembered, UNCHANGED vars
        PROVE  Remembered'
    BY <2>1 DEF vars, Remembered
  <2>2. QED
    BY <2>1, RememberedStep DEF Next, ServiceBit, PsduBit, TailBit, PadBit, Finished
<1>3. Remembered => PolarityIsKeystream
  BY RememberedSays DEF PolarityIsKeystream
<1>4. QED
  BY <1>1, <1>2, <1>3, PTL DEF Spec

-----------------------------------------------------------------------------
(* The free distance.  What the two coders have sent differently depends   *)
(* only on the places in which their registers differ.  For each rate, each*)
(* place p of the puncturing pattern and each such set of places, given by *)
(* its indicators u (place 5) to z (place 0, the newest bit), the table    *)
(* says in how many transmitted bits the frames must differ by the time    *)
(* the registers look like this: the shortest way there from equal         *)
(* registers.  For the empty set it is the shortest way back to them, and  *)
(* no entry is greater than that.  The sixteen numbers of a line are those *)
(* for w, x, y, z counting up in binary.                                   *)
Of16(w, x, y, z, a0, a1, a2, a3, a4, a5, a6, a7, b0, b1, b2, b3, b4, b5, b6, b7) ==
  IF w = 0 THEN IF x = 0 THEN IF y = 0 THEN IF z = 0 THEN a0 ELSE a1
                                       ELSE IF z = 0 THEN a2 ELSE a3
                         ELSE IF y = 0 THEN IF z = 0 THEN a4 ELSE a5
                                       ELSE IF z = 0 THEN a6 ELSE a7
           ELSE IF x = 0 THEN IF y = 0 THEN IF z = 0 THEN b0 ELSE b1
                                       ELSE IF z = 0 THEN b2 ELSE b3
                         ELSE IF y = 0 THEN IF z = 0 THEN b4 ELSE b5
                                       ELSE IF z = 0 THEN b6 ELSE b7
Half(u, v, w, x, y, z) ==
  IF u = 1 THEN IF v = 1 THEN Of16(w, x, y, z, 7, 7, 6, 4, 8, 8, 7, 7, 6, 6, 7, 7, 7, 7, 6, 6)
                          ELSE Of16(w, x, y, z, 8, 8, 7, 5, 7, 7, 6, 4, 5, 5, 4, 6, 6, 6, 7, 5)
           ELSE IF v = 1 THEN Of16(w, x, y, z, 7, 5, 6, 6, 4, 4, 5, 5, 6, 4, 7, 7, 5, 7, 6, 6)
                          ELSE Of16(w, x, y, z, 10, 2, 3, 3, 5, 3, 4, 4, 7, 5, 4, 4, 4, 6, 5, 5)
TwoThirds0(u, v, w, x, y, z) ==
  IF u = 1 THEN IF v = 1 THEN Of16(w, x, y, z, 4, 4, 4, 4, 4, 4, 4, 4, 4, 4, 4, 4, 4, 4, 3, 4)
                          ELSE Of16(w, x, y, z, 5, 4, 4, 3, 5, 4, 4, 3, 3, 4, 3, 4, 4, 3, 4, 3)
           ELSE IF v = 1 THEN Of16(w, x, y, z, 5, 4, 3, 4, 3, 3, 4, 3, 4, 3, 5, 4, 3, 4, 3, 3)
                          ELSE Of16(w, x, y, z, 6, 1, 2, 3, 3, 2, 3, 2, 4, 4, 3, 2, 4, 4, 4, 4)
TwoThirds1(u, v, w, x, y, z) ==
  IF u = 1 THEN IF v = 1 THEN Of16(w, x, y, z, 5, 5, 4, 3, 5, 5, 4, 4, 4, 4, 4, 4, 4, 4, 4, 3)
                          ELSE Of16(w, x, y, z, 5, 5, 4, 4, 4, 4, 4, 4, 4, 4, 3, 4, 5, 5, 4, 3)
           ELSE IF v = 1 THEN Of16(w, x, y, z, 4, 3, 5, 5, 3, 3, 3, 3, 4, 4, 4, 4, 4, 4, 4, 4)
                          ELSE Of16(w, x, y, z, 6, 2, 2, 2, 4, 2, 4, 4, 5, 3, 3, 3, 3, 4, 3, 3)
ThreeQuarters0(u, v, w, x, y, z) ==
  IF u = 1 THEN IF v = 1 THEN Of16(w, x, y, z, 3, 2, 3, 3, 3, 3, 3, 4, 3, 4, 4, 3, 4, 3, 3, 3)
                          ELSE Of16(w, x, y, z, 3, 3, 3, 3, 3, 3, 3, 3, 4, 3, 3, 3, 3, 4, 3, 3)
           ELSE IF v = 1 THEN Of16(w, x, y, z, 4, 3, 4, 3, 2, 3, 2, 3, 3, 2, 3, 4, 2, 3, 4, 3)
                          ELSE Of16(w, x, y, z, 5, 1, 2, 1, 3, 2, 3, 4, 3, 2, 2, 3, 3, 3, 2, 2)
ThreeQuarters1(u, v, w, x, y, z) ==
  IF u = 1 THEN IF v = 1 THEN Of16(w, x, y, z, 4, 4, 4, 2, 4, 4, 4, 3, 3, 3, 3, 3, 4, 4, 3, 3)
                          ELSE Of16(w, x, y, z, 4, 4, 2, 3, 4, 4, 3, 3, 3, 3, 3, 3, 3, 3, 4, 3)
           ELSE IF v = 1 THEN Of16(w, x, y, z, 3, 4, 3, 3, 3, 2, 4, 4, 3, 3, 4, 4, 2, 3, 3, 3)
                          ELSE Of16(w, x, y, z, 5, 2, 2, 2, 3, 2, 2, 2, 3, 3, 3, 3, 3, 3, 4, 4)
ThreeQuarters2(u, v, w, x, y, z) ==
  IF u = 1 THEN IF v = 1 THEN Of16(w, x, y, z, 3, 3, 3, 3, 4, 3, 4, 3, 2, 3, 3, 4, 3, 3, 3, 3)
                          ELSE Of16(w, x, y, z, 4, 3, 4, 4, 3, 4, 3, 2, 3, 4, 2, 3, 4, 4, 3, 4)
           ELSE IF v = 1 THEN Of16(w, x, y, z, 3, 3, 3, 3, 3, 3, 3, 3, 3, 3, 3, 3, 4, 4, 4, 3)
                          ELSE Of16(w, x, y, z, 5, 1, 2, 3, 2, 2, 3, 2, 4, 3, 3, 2, 2, 3, 2, 3)
FiveSixths0(u, v, w, x, y, z) ==
  IF u = 1 THEN IF v = 1 THEN Of16(w, x, y, z, 3, 2, 3, 2, 3, 3, 3, 2, 2, 3, 3, 3, 2, 3, 2, 2)
                          ELSE Of16(w, x, y, z, 3, 2, 2, 3, 3, 2, 2, 2, 3, 2, 2, 2, 3, 3, 2, 3)
           ELSE IF v = 1 THEN Of16(w, x, y, z, 3, 2, 2, 3, 3, 2, 2, 3, 2, 3, 3, 2, 3, 3, 3, 2)
                          ELSE Of16(w, x, y, z, 4, 1, 2, 1, 2, 1, 2, 2, 3, 3, 2, 3, 2, 2, 2, 1)
FiveSixths1(u, v, w, x, y, z) ==
  IF u = 1 THEN IF v = 1 THEN Of16(w, x, y, z, 3, 3, 3, 3, 4, 4, 2, 3, 3, 3, 3, 3, 3, 3, 2, 2)
                          ELSE Of16(w, x, y, z, 4, 4, 2, 2, 3, 3, 3, 2, 4, 4, 2, 3, 3, 3, 2, 3)
           ELSE IF v = 1 THEN Of16(w, x, y, z, 3, 3, 3, 3, 2, 2, 3, 3, 3, 2, 3, 3, 2, 2, 2, 2)
                          ELSE Of16(w, x, y, z, 4, 2, 2, 2, 2, 2, 2, 2, 3, 2, 2, 2, 2, 2, 3, 3)
FiveSixths2(u, v, w, x, y, z) ==
  IF u = 1 THEN IF v = 1 THEN Of16(w, x, y, z, 3, 3, 3, 2, 3, 3, 3, 3, 2, 3, 2, 3, 2, 2, 2, 2)
                          ELSE Of16(w, x, y, z, 3, 3, 3, 3, 3, 3, 3, 3, 2, 3, 2, 3, 2, 3, 3, 3)
           ELSE IF v = 1 THEN Of16(w, x, y, z, 3, 4, 2, 3, 2, 2, 3, 2, 3, 2, 3, 2, 3, 2, 3, 3)
                          ELSE Of16(w, x, y, z, 4, 1, 2, 3, 2, 2, 2, 2, 3, 2, 3, 2, 2, 3, 2, 2)
FiveSixths3(u, v, w, x, y, z) ==
  IF u = 1 THEN IF v = 1 THEN Of16(w, x, y, z, 3, 2, 3, 2, 2, 3, 2, 3, 2, 3, 2, 2, 3, 2, 2, 3)
                          ELSE Of16(w, x, y, z, 3, 3, 3, 4, 3, 2, 3, 2, 3, 2, 2, 3, 3, 3, 3, 2)
           ELSE IF v = 1 THEN Of16(w, x, y, z, 3, 2, 3, 2, 2, 3, 2, 3, 2, 2, 3, 3, 2, 3, 3, 2)
                          ELSE Of16(w, x, y, z, 4, 1, 2, 1, 3, 2, 3, 3, 3, 2, 2, 3, 2, 3, 3, 2)
FiveSixths4(u, v, w, x, y, z) ==
  IF u = 1 THEN IF v = 1 THEN Of16(w, x, y, z, 2, 2, 3, 2, 3, 2, 3, 2, 2, 3, 3, 2, 2, 3, 3, 2)
                          ELSE Of16(w, x, y, z, 3, 3, 2, 2, 3, 3, 2, 2, 2, 2, 3, 3, 2, 2, 3, 3)
           ELSE IF v = 1 THEN Of16(w, x, y, z, 3, 3, 2, 2, 2, 2, 3, 3, 3, 2, 3, 3, 3, 3, 2, 2)
                          ELSE Of16(w, x, y, z, 4, 1, 1, 2, 3, 2, 2, 1, 3, 3, 2, 2, 3, 3, 3, 2)

Weight(num, p, u, v, w, x, y, z) ==
  IF num = 1 THEN Half(u, v, w, x, y, z)
  ELSE IF num = 2 THEN
    IF p = 0 THEN TwoThirds0(u, v, w, x, y, z)
    ELSE TwoThirds1(u, v, w, x, y, z)
  ELSE IF num = 3 THEN
    IF p = 0 THEN ThreeQuarters0(u, v, w, x, y, z)
    ELSE IF p = 1 THEN ThreeQuarters1(u, v, w, x, y, z)
    ELSE ThreeQuarters2(u, v, w, x, y, z)
  ELSE
    IF p = 0 THEN FiveSixths0(u, v, w, x, y, z)
    ELSE IF p = 1 THEN FiveSixths1(u, v, w, x, y, z)
    ELSE IF p = 2 THEN FiveSixths2(u, v, w, x, y, z)
    ELSE IF p = 3 THEN FiveSixths3(u, v, w, x, y, z)
    ELSE FiveSixths4(u, v, w, x, y, z)

(* What a bit adds: of its two coded bits those that are sent and come from*)
(* an odd number of differing places.                                      *)
OddOf(k) == IF k \in {1, 3, 5} THEN 1 ELSE 0
Sent(num, p, o) == (2 * p + o - 1) % (2 * num) \notin Dropped(num)
Cost(num, p, k, l) ==
  (IF Sent(num, p, 1) THEN OddOf(k) ELSE 0) + (IF Sent(num, p, 2) THEN OddOf(l) ELSE 0)
After(num, p) == IF p + 1 = num THEN 0 ELSE p + 1
LeastDist(num) ==
  CASE num = 1 -> 10 [] num = 2 -> 6 [] num = 3 -> 5 [] num = 5 -> 4

(* Which places are sent.                                                  *)
LEMMA SentPlaces ==
  /\ Sent(1, 0, 1) /\ Sent(1, 0, 2)
  /\ Sent(2, 0, 1) /\ Sent(2, 0, 2) /\ Sent(2, 1, 1) /\ ~Sent(2, 1, 2)
  /\ Sent(3, 0, 1) /\ Sent(3, 0, 2) /\ Sent(3, 1, 1) /\ ~Sent(3, 1, 2)
  /\ ~Sent(3, 2, 1) /\ Sent(3, 2, 2)
  /\ Sent(5, 0, 1) /\ Sent(5, 0, 2) /\ Sent(5, 1, 1) /\ ~Sent(5, 1, 2)
  /\ ~Sent(5, 2, 1) /\ Sent(5, 2, 2) /\ Sent(5, 3, 1) /\ ~Sent(5, 3, 2)
  /\ ~Sent(5, 4, 1) /\ Sent(5, 4, 2)
<1>1. Dropped(1) = {}
  BY DEF Dropped
<1>2. Dropped(2) = {3}
  BY DEF Dropped
<1>3. Dropped(3) = {3, 4}
  BY DEF Dropped
<1>4. Dropped(5) = {3, 4, 7, 8}
  BY DEF Dropped
<1>5. /\ (2 * 0 + 1 - 1) % (2 * 1) = 0 /\ (2 * 0 + 2 - 1) % (2 * 1) = 1
  OBVIOUS
<1>6. /\ (2 * 0 + 1 - 1) % (2 * 2) = 0 /\ (2 * 0 + 2 - 1) % (2 * 2) = 1
      /\ (2 * 1 + 1 - 1) % (2 * 2) = 2 /\ (2 * 1 + 2 - 1) % (2 * 2) = 3
  OBVIOUS
<1>7. /\ (2 * 0 + 1 - 1) % (2 * 3) = 0 /\ (2 * 0 + 2 - 1) % (2 * 3) = 1
      /\ (2 * 1 + 1 - 1) % (2 * 3) = 2 /\ (2 * 1 + 2 - 1) % (2 * 3) = 3
      /\ (2 * 2 + 1 - 1) % (2 * 3) = 4 /\ (2 * 2 + 2 - 1) % (2 * 3) = 5
  OBVIOUS
<1>8. /\ (2 * 0 + 1 - 1) % (2 * 5) = 0 /\ (2 * 0 + 2 - 1) % (2 * 5) = 1
      /\ (2 * 1 + 1 - 1) % (2 * 5) = 2 /\ (2 * 1 + 2 - 1) % (2 * 5) = 3
      /\ (2 * 2 + 1 - 1) % (2 * 5) = 4 /\ (2 * 2 + 2 - 1) % (2 * 5) = 5
      /\ (2 * 3 + 1 - 1) % (2 * 5) = 6 /\ (2 * 3 + 2 - 1) % (2 * 5) = 7
      /\ (2 * 4 + 1 - 1) % (2 * 5) = 8 /\ (2 * 4 + 2 - 1) % (2 * 5) = 9
  OBVIOUS
<1>9. QED
  BY <1>1, <1>2, <1>3, <1>4, <1>5, <1>6, <1>7, <1>8 DEF Sent

(* The tables are consistent: over one bit no claim grows by more than the *)
(* bit adds.                                                               *)
LEMMA WeightStep ==
  ASSUME NEW num \in {1, 2, 3, 5}, NEW p \in 0 .. num - 1,
         NEW u \in 0 .. 1, NEW v \in 0 .. 1, NEW w \in 0 .. 1, NEW x \in 0 .. 1,
         NEW y \in 0 .. 1, NEW z \in 0 .. 1, NEW b \in 0 .. 1
  PROVE  Weight(num, After(num, p), v, w, x, y, z, b)
           <= Weight(num, p, u, v, w, x, y, z)
              + Cost(num, p, b + y + x + v + u, b + z + y + x + u)
<1>1. CASE num = 1 /\ p = 0
  <2>1. /\ Weight(num, p, u, v, w, x, y, z) = Half(u, v, w, x, y, z)
        /\ Weight(num, After(num, p), v, w, x, y, z, b) = Half(v, w, x, y, z, b)
    <3>1. After(num, p) = 0
      BY <1>1 DEF After
    <3>2. QED
      BY <1>1, <3>1 DEF Weight
  <2>2. Cost(num, p, b + y + x + v + u, b + z + y + x + u)
          = OddOf(b + y + x + v + u) + OddOf(b + z + y + x + u)
    BY <1>1, SentPlaces DEF Cost, OddOf
  <2>3. Half(v, w, x, y, z, b)
          <= Half(u, v, w, x, y, z)
               + (OddOf(b + y + x + v + u) + OddOf(b + z + y + x + u))
    BY DEF Half, Of16, OddOf
  <2>4. QED
    BY <2>1, <2>2, <2>3, Zenon
<1>2. CASE num = 2 /\ p = 0
  <2>1. /\ Weight(num, p, u, v, w, x, y, z) = TwoThirds0(u, v, w, x, y, z)
        /\ Weight(num, After(num, p), v, w, x, y, z, b) = TwoThirds1(v, w, x, y, z, b)
    <3>1. After(num, p) = 1
      BY <1>2 DEF After
    <3>2. QED
      BY <1>2, <3>1 DEF Weight
  <2>2. Cost(num, p, b + y + x + v + u, b + z + y + x + u)
          = OddOf(b + y + x + v + u) + OddOf(b + z + y + x + u)
    BY <1>2, SentPlaces DEF Cost, OddOf
  <2>3. TwoThirds1(v, w, x, y, z, b)
          <= TwoThirds0(u, v, w, x, y, z)
               + (OddOf(b + y + x + v + u) + OddOf(b + z + y + x + u))
    BY DEF TwoThirds0, TwoThirds1, Of16, OddOf
  <2>4. QED
    BY <2>1, <2>2, <2>3, Zenon
<1>3. CASE num = 2 /\ p = 1
  <2>1. /\ Weight(num, p, u, v, w, x, y, z) = TwoThirds1(u, v, w, x, y, z)
        /\ Weight(num, After(num, p), v, w, x, y, z, b) = TwoThirds0(v, w, x, y, z, b)
    <3>1. After(num, p) = 0
      BY <1>3 DEF After
    <3>2. QED
      BY <1>3, <3>1 DEF Weight
  <2>2. Cost(num, p, b + y + x + v + u, b + z + y + x + u)
          = OddOf(b + y + x + v + u)
    BY <1>3, SentPlaces DEF Cost, OddOf
  <2>3. TwoThirds0(v, w, x, y, z, b)
          <= TwoThirds1(u, v, w, x, y, z)
               + OddOf(b + y + x + v + u)
    BY DEF TwoThirds1, TwoThirds0, Of16, OddOf
  <2>4. QED
    BY <2>1, <2>2, <2>3, Zenon
<1>4. CASE num = 3 /\ p = 0
  <2>1. /\ Weight(num, p, u, v, w, x, y, z) = ThreeQuarters0(u, v, w, x, y, z)
        /\ Weight(num, After(num, p), v, w, x, y, z, b) = ThreeQuarters1(v, w, x, y, z, b)
    <3>1. After(num, p) = 1
      BY <1>4 DEF After
    <3>2. QED
      BY <1>4, <3>1 DEF Weight
  <2>2. Cost(num, p, b + y + x + v + u, b + z + y + x + u)
          = OddOf(b + y + x + v + u) + OddOf(b + z + y + x + u)
    BY <1>4, SentPlaces DEF Cost, OddOf
  <2>3. ThreeQuarters1(v, w, x, y, z, b)
          <= ThreeQuarters0(u, v, w, x, y, z)
               + (OddOf(b + y + x + v + u) + OddOf(b + z + y + x + u))
    BY DEF ThreeQuarters0, ThreeQuarters1, Of16, OddOf
  <2>4. QED
    BY <2>1, <2>2, <2>3, Zenon
<1>5. CASE num = 3 /\ p = 1
  <2>1. /\ Weight(num, p, u, v, w, x, y, z) = ThreeQuarters1(u, v, w, x, y, z)
        /\ Weight(num, After(num, p), v, w, x, y, z, b) = ThreeQuarters2(v, w, x, y, z, b)
    <3>1. After(num, p) = 2
      BY <1>5 DEF After
    <3>2. QED
      BY <1>5, <3>1 DEF Weight
  <2>2. Cost(num, p, b + y + x + v + u, b + z + y + x + u)
          = OddOf(b + y + x + v + u)
    BY <1>5, SentPlaces DEF Cost, OddOf
  <2>3. ThreeQuarters2(v, w, x, y, z, b)
          <= ThreeQuarters1(u, v, w, x, y, z)
               + OddOf(b + y + x + v + u)
    BY DEF ThreeQuarters1, ThreeQuarters2, Of16, OddOf
  <2>4. QED
    BY <2>1, <2>2, <2>3, Zenon
<1>6. CASE num = 3 /\ p = 2
  <2>1. /\ Weight(num, p, u, v, w, x, y, z) = ThreeQuarters2(u, v, w, x, y, z)
        /\ Weight(num, After(num, p), v, w, x, y, z, b) = ThreeQuarters0(v, w, x, y, z, b)
    <3>1. After(num, p) = 0
      BY <1>6 DEF After
    <3>2. QED
      BY <1>6, <3>1 DEF Weight
  <2>2. Cost(num, p, b + y + x + v + u, b + z + y + x + u)
          = OddOf(b + z + y + x + u)
    BY <1>6, SentPlaces DEF Cost, OddOf
  <2>3. ThreeQuarters0(v, w, x, y, z, b)
          <= ThreeQuarters2(u, v, w, x, y, z)
               + OddOf(b + z + y + x + u)
    BY DEF ThreeQuarters2, ThreeQuarters0, Of16, OddOf
  <2>4. QED
    BY <2>1, <2>2, <2>3, Zenon
<1>7. CASE num = 5 /\ p = 0
  <2>1. /\ Weight(num, p, u, v, w, x, y, z) = FiveSixths0(u, v, w, x, y, z)
        /\ Weight(num, After(num, p), v, w, x, y, z, b) = FiveSixths1(v, w, x, y, z, b)
    <3>1. After(num, p) = 1
      BY <1>7 DEF After
    <3>2. QED
      BY <1>7, <3>1 DEF Weight
  <2>2. Cost(num, p, b + y + x + v + u, b + z + y + x + u)
          = OddOf(b + y + x + v + u) + OddOf(b + z + y + x + u)
    BY <1>7, SentPlaces DEF Cost, OddOf
  <2>3. FiveSixths1(v, w, x, y, z, b)
          <= FiveSixths0(u, v, w, x, y, z)
               + (OddOf(b + y + x + v + u) + OddOf(b + z + y + x + u))
    BY DEF FiveSixths0, FiveSixths1, Of16, OddOf
  <2>4. QED
    BY <2>1, <2>2, <2>3, Zenon
<1>8. CASE num = 5 /\ p = 1
  <2>1. /\ Weight(num, p, u, v, w, x, y, z) = FiveSixths1(u, v, w, x, y, z)
        /\ Weight(num, After(num, p), v, w, x, y, z, b) = FiveSixths2(v, w, x, y, z, b)
    <3>1. After(num, p) = 2
      BY <1>8 DEF After
    <3>2. QED
      BY <1>8, <3>1 DEF Weight
  <2>2. Cost(num, p, b + y + x + v + u, b + z + y + x + u)
          = OddOf(b + y + x + v + u)
    BY <1>8, SentPlaces DEF Cost, OddOf
  <2>3. FiveSixths2(v, w, x, y, z, b)
          <= FiveSixths1(u, v, w, x, y, z)
               + OddOf(b + y + x + v + u)
    BY DEF FiveSixths1, FiveSixths2, Of16, OddOf
  <2>4. QED
    BY <2>1, <2>2, <2>3, Zenon
<1>9. CASE num = 5 /\ p = 2
  <2>1. /\ Weight(num, p, u, v, w, x, y, z) = FiveSixths2(u, v, w, x, y, z)
        /\ Weight(num, After(num, p), v, w, x, y, z, b) = FiveSixths3(v, w, x, y, z, b)
    <3>1. After(num, p) = 3
      BY <1>9 DEF After
    <3>2. QED
      BY <1>9, <3>1 DEF Weight
  <2>2. Cost(num, p, b + y + x + v + u, b + z + y + x + u)
          = OddOf(b + z + y + x + u)
    BY <1>9, SentPlaces DEF Cost, OddOf
  <2>3. FiveSixths3(v, w, x, y, z, b)
          <= FiveSixths2(u, v, w, x, y, z)
               + OddOf(b + z + y + x + u)
    BY DEF FiveSixths2, FiveSixths3, Of16, OddOf
  <2>4. QED
    BY <2>1, <2>2, <2>3, Zenon
<1>10. CASE num = 5 /\ p = 3
  <2>1. /\ Weight(num, p, u, v, w, x, y, z) = FiveSixths3(u, v, w, x, y, z)
        /\ Weight(num, After(num, p), v, w, x, y, z, b) = FiveSixths4(v, w, x, y, z, b)
    <3>1. After(num, p) = 4
      BY <1>10 DEF After
    <3>2. QED
      BY <1>10, <3>1 DEF Weight
  <2>2. Cost(num, p, b + y + x + v + u, b + z + y + x + u)
          = OddOf(b + y + x + v + u)
    BY <1>10, SentPlaces DEF Cost, OddOf
  <2>3. FiveSixths4(v, w, x, y, z, b)
          <= FiveSixths3(u, v, w, x, y, z)
               + OddOf(b + y + x + v + u)
    BY DEF FiveSixths3, FiveSixths4, Of16, OddOf
  <2>4. QED
    BY <2>1, <2>2, <2>3, Zenon
<1>11. CASE num = 5 /\ p = 4
  <2>1. /\ Weight(num, p, u, v, w, x, y, z) = FiveSixths4(u, v, w, x, y, z)
        /\ Weight(num, After(num, p), v, w, x, y, z, b) = FiveSixths0(v, w, x, y, z, b)
    <3>1. After(num, p) = 0
      BY <1>11 DEF After
    <3>2. QED
      BY <1>11, <3>1 DEF Weight
  <2>2. Cost(num, p, b + y + x + v + u, b + z + y + x + u)
          = OddOf(b + z + y + x + u)
    BY <1>11, SentPlaces DEF Cost, OddOf
  <2>3. FiveSixths0(v, w, x, y, z, b)
          <= FiveSixths4(u, v, w, x, y, z)
               + OddOf(b + z + y + x + u)
    BY DEF FiveSixths4, FiveSixths0, Of16, OddOf
  <2>4. QED
    BY <2>1, <2>2, <2>3, Zenon
<1>12. p \in {0, 1, 2, 3, 4} /\ p < num
  OBVIOUS
<1>13. QED
  BY <1>1, <1>2, <1>3, <1>4, <1>5, <1>6, <1>7, <1>8, <1>9, <1>10, <1>11, <1>12

(* The claims are bounded by that for the empty set, and a first difference*)
(* after it adds what is claimed then.                                     *)
LEMMA WeightBounds ==
  ASSUME NEW num \in {1, 2, 3, 5}, NEW p \in 0 .. num - 1
  PROVE  /\ LeastDist(num) \in 4 .. MaxDist
         /\ Weight(num, p, 0, 0, 0, 0, 0, 0) = LeastDist(num)
         /\ Weight(num, After(num, p), 0, 0, 0, 0, 0, 1) <= Cost(num, p, 1, 1)
         /\ \A u, v, w, x, y, z \in 0 .. 1 :
              Weight(num, p, u, v, w, x, y, z) \in 0 .. LeastDist(num)
<1>1. CASE num = 1 /\ p = 0
  <2>1. After(num, p) = 0 /\ LeastDist(num) = 10
    BY <1>1 DEF After, LeastDist
  <2>2. \A u, v, w, x, y, z \in 0 .. 1 :
          /\ Weight(num, p, u, v, w, x, y, z) = Half(u, v, w, x, y, z)
          /\ Weight(num, After(num, p), u, v, w, x, y, z) = Half(u, v, w, x, y, z)
    BY <1>1, <2>1 DEF Weight
  <2>3. Cost(num, p, 1, 1) = 2
    BY <1>1, SentPlaces DEF Cost, OddOf
  <2>4. /\ Half(0, 0, 0, 0, 0, 0) = 10
        /\ Half(0, 0, 0, 0, 0, 1) <= 2
    BY DEF Half, Of16
  <2>5. \A u, v, w, x, y, z \in 0 .. 1 : Half(u, v, w, x, y, z) \in 0 .. 10
    BY DEF Half, Of16
  <2>6. QED
    BY <1>1, <2>1, <2>2, <2>3, <2>4, <2>5, SMTT(30) DEF MaxDist
<1>2. CASE num = 2 /\ p = 0
  <2>1. After(num, p) = 1 /\ LeastDist(num) = 6
    BY <1>2 DEF After, LeastDist
  <2>2. \A u, v, w, x, y, z \in 0 .. 1 :
          /\ Weight(num, p, u, v, w, x, y, z) = TwoThirds0(u, v, w, x, y, z)
          /\ Weight(num, After(num, p), u, v, w, x, y, z) = TwoThirds1(u, v, w, x, y, z)
    BY <1>2, <2>1 DEF Weight
  <2>3. Cost(num, p, 1, 1) = 2
    BY <1>2, SentPlaces DEF Cost, OddOf
  <2>4. /\ TwoThirds0(0, 0, 0, 0, 0, 0) = 6
        /\ TwoThirds1(0, 0, 0, 0, 0, 1) <= 2
    BY DEF TwoThirds0, TwoThirds1, Of16
  <2>5. \A u, v, w, x, y, z \in 0 .. 1 : TwoThirds0(u, v, w, x, y, z) \in 0 .. 6
    BY DEF TwoThirds0, Of16
  <2>6. QED
    BY <1>2, <2>1, <2>2, <2>3, <2>4, <2>5, SMTT(30) DEF MaxDist
<1>3. CASE num = 2 /\ p = 1
  <2>1. After(num, p) = 0 /\ LeastDist(num) = 6
    BY <1>3 DEF After, LeastDist
  <2>2. \A u, v, w, x, y, z \in 0 .. 1 :
          /\ Weight(num, p, u, v, w, x, y, z) = TwoThirds1(u, v, w, x, y, z)
          /\ Weight(num, After(num, p), u, v, w, x, y, z) = TwoThirds0(u, v, w, x, y, z)
    BY <1>3, <2>1 DEF Weight
  <2>3. Cost(num, p, 1, 1) = 1
    BY <1>3, SentPlaces DEF Cost, OddOf
  <2>4. /\ TwoThirds1(0, 0, 0, 0, 0, 0) = 6
        /\ TwoThirds0(0, 0, 0, 0, 0, 1) <= 1
    BY DEF TwoThirds1, TwoThirds0, Of16
  <2>5. \A u, v, w, x, y, z \in 0 .. 1 : TwoThirds1(u, v, w, x, y, z) \in 0 .. 6
    BY DEF TwoThirds1, Of16
  <2>6. QED
    BY <1>3, <2>1, <2>2, <2>3, <2>4, <2>5, SMTT(30) DEF MaxDist
<1>4. CASE num = 3 /\ p = 0
  <2>1. After(num, p) = 1 /\ LeastDist(num) = 5
    BY <1>4 DEF After, LeastDist
  <2>2. \A u, v, w, x, y, z \in 0 .. 1 :
          /\ Weight(num, p, u, v, w, x, y, z) = ThreeQuarters0(u, v, w, x, y, z)
          /\ Weight(num, After(num, p), u, v, w, x, y, z) = ThreeQuarters1(u, v, w, x, y, z)
    BY <1>4, <2>1 DEF Weight
  <2>3. Cost(num, p, 1, 1) = 2
    BY <1>4, SentPlaces DEF Cost, OddOf
  <2>4. /\ ThreeQuarters0(0, 0, 0, 0, 0, 0) = 5
        /\ ThreeQuarters1(0, 0, 0, 0, 0, 1) <= 2
    BY DEF ThreeQuarters0, ThreeQuarters1, Of16
  <2>5. \A u, v, w, x, y, z \in 0 .. 1 : ThreeQuarters0(u, v, w, x, y, z) \in 0 .. 5
    BY DEF ThreeQuarters0, Of16
  <2>6. QED
    BY <1>4, <2>1, <2>2, <2>3, <2>4, <2>5, SMTT(30) DEF MaxDist
<1>5. CASE num = 3 /\ p = 1
  <2>1. After(num, p) = 2 /\ LeastDist(num) = 5
    BY <1>5 DEF After, LeastDist
  <2>2. \A u, v, w, x, y, z \in 0 .. 1 :
          /\ Weight(num, p, u, v, w, x, y, z) = ThreeQuarters1(u, v, w, x, y, z)
          /\ Weight(num, After(num, p), u, v, w, x, y, z) = ThreeQuarters2(u, v, w, x, y, z)
    BY <1>5, <2>1 DEF Weight
  <2>3. Cost(num, p, 1, 1) = 1
    BY <1>5, SentPlaces DEF Cost, OddOf
  <2>4. /\ ThreeQuarters1(0, 0, 0, 0, 0, 0) = 5
        /\ ThreeQuarters2(0, 0, 0, 0, 0, 1) <= 1
    BY DEF ThreeQuarters1, ThreeQuarters2, Of16
  <2>5. \A u, v, w, x, y, z \in 0 .. 1 : ThreeQuarters1(u, v, w, x, y, z) \in 0 .. 5
    BY DEF ThreeQuarters1, Of16
  <2>6. QED
    BY <1>5, <2>1, <2>2, <2>3, <2>4, <2>5, SMTT(30) DEF MaxDist
<1>6. CASE num = 3 /\ p = 2
  <2>1. After(num, p) = 0 /\ LeastDist(num) = 5
    BY <1>6 DEF After, LeastDist
  <2>2. \A u, v, w, x, y, z \in 0 .. 1 :
          /\ Weight(num, p, u, v, w, x, y, z) = ThreeQuarters2(u, v, w, x, y, z)
          /\ Weight(num, After(num, p), u, v, w, x, y, z) = ThreeQuarters0(u, v, w, x, y, z)
    BY <1>6, <2>1 DEF Weight
  <2>3. Cost(num, p, 1, 1) = 1
    BY <1>6, SentPlaces DEF Cost, OddOf
  <2>4. /\ ThreeQuarters2(0, 0, 0, 0, 0, 0) = 5
        /\ ThreeQuarters0(0, 0, 0, 0, 0, 1) <= 1
    BY DEF ThreeQuarters2, ThreeQuarters0, Of16
  <2>5. \A u, v, w, x, y, z \in 0 .. 1 : ThreeQuarters2(u, v, w, x, y, z) \in 0 .. 5
    BY DEF ThreeQuarters2, Of16
  <2>6. QED
    BY <1>6, <2>1, <2>2, <2>3, <2>4, <2>5, SMTT(30) DEF MaxDist
<1>7. CASE num = 5 /\ p = 0
  <2>1. After(num, p) = 1 /\ LeastDist(num) = 4
    BY <1>7 DEF After, LeastDist
  <2>2. \A u, v, w, x, y, z \in 0 .. 1 :
          /\ Weight(num, p, u, v, w, x, y, z) = FiveSixths0(u, v, w, x, y, z)
          /\ Weight(num, After(num, p), u, v, w, x, y, z) = FiveSixths1(u, v, w, x, y, z)
    BY <1>7, <2>1 DEF Weight
  <2>3. Cost(num, p, 1, 1) = 2
    BY <1>7, SentPlaces DEF Cost, OddOf
  <2>4. /\ FiveSixths0(0, 0, 0, 0, 0, 0) = 4
        /\ FiveSixths1(0, 0, 0, 0, 0, 1) <= 2
    BY DEF FiveSixths0, FiveSixths1, Of16
  <2>5. \A u, v, w, x, y, z \in 0 .. 1 : FiveSixths0(u, v, w, x, y, z) \in 0 .. 4
    BY DEF FiveSixths0, Of16
  <2>6. QED
    BY <1>7, <2>1, <2>2, <2>3, <2>4, <2>5, SMTT(30) DEF MaxDist
<1>8. CASE num = 5 /\ p = 1
  <2>1. After(num, p) = 2 /\ LeastDist(num) = 4
    BY <1>8 DEF After, LeastDist
  <2>2. \A u, v, w, x, y, z \in 0 .. 1 :
          /\ Weight(num, p, u, v, w, x, y, z) = FiveSixths1(u, v, w, x, y, z)
          /\ Weight(num, After(num, p), u, v, w, x, y, z) = FiveSixths2(u, v, w, x, y, z)
    BY <1>8, <2>1 DEF Weight
  <2>3. Cost(num, p, 1, 1) = 1
    BY <1>8, SentPlaces DEF Cost, OddOf
  <2>4. /\ FiveSixths1(0, 0, 0, 0, 0, 0) = 4
        /\ FiveSixths2(0, 0, 0, 0, 0, 1) <= 1
    BY DEF FiveSixths1, FiveSixths2, Of16
  <2>5. \A u, v, w, x, y, z \in 0 .. 1 : FiveSixths1(u, v, w, x, y, z) \in 0 .. 4
    BY DEF FiveSixths1, Of16
  <2>6. QED
    BY <1>8, <2>1, <2>2, <2>3, <2>4, <2>5, SMTT(30) DEF MaxDist
<1>9. CASE num = 5 /\ p = 2
  <2>1. After(num, p) = 3 /\ LeastDist(num) = 4
    BY <1>9 DEF After, LeastDist
  <2>2. \A u, v, w, x, y, z \in 0 .. 1 :
          /\ Weight(num, p, u, v, w, x, y, z) = FiveSixths2(u, v, w, x, y, z)
          /\ Weight(num, After(num, p), u, v, w, x, y, z) = FiveSixths3(u, v, w, x, y, z)
    BY <1>9, <2>1 DEF Weight
  <2>3. Cost(num, p, 1, 1) = 1
    BY <1>9, SentPlaces DEF Cost, OddOf
  <2>4. /\ FiveSixths2(0, 0, 0, 0, 0, 0) = 4
        /\ FiveSixths3(0, 0, 0, 0, 0, 1) <= 1
    BY DEF FiveSixths2, FiveSixths3, Of16
  <2>5. \A u, v, w, x, y, z \in 0 .. 1 : FiveSixths2(u, v, w, x, y, z) \in 0 .. 4
    BY DEF FiveSixths2, Of16
  <2>6. QED
    BY <1>9, <2>1, <2>2, <2>3, <2>4, <2>5, SMTT(30) DEF MaxDist
<1>10. CASE num = 5 /\ p = 3
  <2>1. After(num, p) = 4 /\ LeastDist(num) = 4
    BY <1>10 DEF After, LeastDist
  <2>2. \A u, v, w, x, y, z \in 0 .. 1 :
          /\ Weight(num, p, u, v, w, x, y, z) = FiveSixths3(u, v, w, x, y, z)
          /\ Weight(num, After(num, p), u, v, w, x, y, z) = FiveSixths4(u, v, w, x, y, z)
    BY <1>10, <2>1 DEF Weight
  <2>3. Cost(num, p, 1, 1) = 1
    BY <1>10, SentPlaces DEF Cost, OddOf
  <2>4. /\ FiveSixths3(0, 0, 0, 0, 0, 0) = 4
        /\ FiveSixths4(0, 0, 0, 0, 0, 1) <= 1
    BY DEF FiveSixths3, FiveSixths4, Of16
  <2>5. \A u, v, w, x, y, z \in 0 .. 1 : FiveSixths3(u, v, w, x, y, z) \in 0 .. 4
    BY DEF FiveSixths3, Of16
  <2>6. QED
    BY <1>10, <2>1, <2>2, <2>3, <2>4, <2>5, SMTT(30) DEF MaxDist
<1>11. CASE num = 5 /\ p = 4
  <2>1. After(num, p) = 0 /\ LeastDist(num) = 4
    BY <1>11 DEF After, LeastDist
  <2>2. \A u, v, w, x, y, z \in 0 .. 1 :
          /\ Weight(num, p, u, v, w, x, y, z) = FiveSixths4(u, v, w, x, y, z)
          /\ Weight(num, After(num, p), u, v, w, x, y, z) = FiveSixths0(u, v, w, x, y, z)
    BY <1>11, <2>1 DEF Weight
  <2>3. Cost(num, p, 1, 1) = 1
    BY <1>11, SentPlaces DEF Cost, OddOf
  <2>4. /\ FiveSixths4(0, 0, 0, 0, 0, 0) = 4
        /\ FiveSixths0(0, 0, 0, 0, 0, 1) <= 1
    BY DEF FiveSixths4, FiveSixths0, Of16
  <2>5. \A u, v, w, x, y, z \in 0 .. 1 : FiveSixths4(u, v, w, x, y, z) \in 0 .. 4
    BY DEF FiveSixths4, Of16
  <2>6. QED
    BY <1>11, <2>1, <2>2, <2>3, <2>4, <2>5, SMTT(30) DEF MaxDist
<1>12. p \in {0, 1, 2, 3, 4} /\ p < num
  OBVIOUS
<1>13. QED
  BY <1>1, <1>2, <1>3, <1>4, <1>5, <1>6, <1>7, <1>8, <1>9, <1>10, <1>11, <1>12

(* Adding two sets of places adds their sizes, modulo two.                 *)
LEMMA PlusParity ==
  ASSUME NEW S, IsFiniteSet(S), NEW A \in SUBSET S, NEW B \in SUBSET S
  PROVE  /\ Cardinality(A) \in Nat /\ Cardinality(B) \in Nat
         /\ Cardinality(Plus(A, B)) \in Nat
         /\ Cardinality(Plus(A, B)) % 2 = (Cardinality(A) + Cardinality(B)) % 2
<1> DEFINE a == Cardinality(A)
           b == Cardinality(B)
           c == Cardinality(A \cap B)
<1>1. /\ IsFiniteSet(A) /\ IsFiniteSet(B) /\ IsFiniteSet(A \ B) /\ IsFiniteSet(B \ A)
      /\ IsFiniteSet(A \cap B)
  BY FS_Subset
<1>2. a \in Nat /\ b \in Nat /\ c \in Nat
  BY <1>1, FS_CardinalityType
<1>3. Cardinality(A \ B) = a - c
  BY <1>1, FS_Difference
<1>4. Cardinality(B \ A) = b - c
  <2>1. Cardinality(B \ A) = b - Cardinality(B \cap A)
    BY <1>1, FS_Difference
  <2>2. B \cap A = A \cap B
    OBVIOUS
  <2>3. QED
    BY <2>1, <2>2
<1>5. /\ Cardinality((A \ B) \cup (B \ A))
           = Cardinality(A \ B) + Cardinality(B \ A) - Cardinality((A \ B) \cap (B \ A))
      /\ IsFiniteSet((A \ B) \cup (B \ A))
  BY <1>1, FS_Union
<1>6. Cardinality((A \ B) \cap (B \ A)) = 0
  <2>1. (A \ B) \cap (B \ A) = {}
    OBVIOUS
  <2>2. QED
    BY <2>1, FS_EmptySet
<1>7. Cardinality(Plus(A, B)) \in Nat
  BY <1>5, FS_CardinalityType DEF Plus
<1>8. Cardinality(Plus(A, B)) = (a - c) + (b - c)
  <2>1. a - c \in Int /\ b - c \in Int
    BY <1>2
  <2> HIDE DEF a, b, c
  <2>2. QED
    BY <1>3, <1>4, <1>5, <1>6, <2>1 DEF Plus
<1> HIDE DEF a, b, c
<1>9. QED
  BY <1>2, <1>7, <1>8 DEF a, b

(* Indicators of a set's elements, and how they count what it has in common*)
(* with the masks of the two generators.                                   *)
Mark(D, j) == IF j \in D THEN 1 ELSE 0
OnFirst(D) == Mark(D, 0) + Mark(D, 2) + Mark(D, 3) + Mark(D, 5) + Mark(D, 6)
OnSecond(D) == Mark(D, 0) + Mark(D, 1) + Mark(D, 2) + Mark(D, 3) + Mark(D, 6)

LEMMA MarkCounts ==
  ASSUME NEW D, NEW S, IsFiniteSet(S), NEW a, a \notin S
  PROVE  /\ IsFiniteSet({a} \cup S)
         /\ Cardinality(D \cap S) \in Nat
         /\ Cardinality(D \cap ({a} \cup S)) = Mark(D, a) + Cardinality(D \cap S)
<1> DEFINE C == D \cap S
<1>1. IsFiniteSet(C) /\ IsFiniteSet({a} \cup S) /\ a \notin C
  <2>1. IsFiniteSet(C)
    BY FS_Subset
  <2>2. {a} \cup S = S \cup {a}
    OBVIOUS
  <2>3. IsFiniteSet(S \cup {a})
    BY FS_AddElement
  <2>4. QED
    BY <2>1, <2>2, <2>3
<1>2. Cardinality(C) \in Nat /\ Cardinality(C \cup {a}) = Cardinality(C) + 1
  BY <1>1, FS_CardinalityType, FS_AddElement
<1>3. D \cap ({a} \cup S) = IF a \in D THEN C \cup {a} ELSE C
  OBVIOUS
<1> HIDE DEF C
<1>4. ASSUME a \in D
      PROVE  Cardinality(D \cap ({a} \cup S)) = 1 + Cardinality(C)
  BY <1>2, <1>3, <1>4
<1>5. ASSUME a \notin D
      PROVE  Cardinality(D \cap ({a} \cup S)) = Cardinality(C)
  BY <1>2, <1>3, <1>5
<1>6. Cardinality(D \cap ({a} \cup S)) = Mark(D, a) + Cardinality(C)
  BY <1>2, <1>4, <1>5 DEF Mark
<1>7. QED
  BY <1>1, <1>2, <1>6 DEF C

LEMMA MaskCounts ==
  ASSUME NEW D
  PROVE  /\ Cardinality(D \cap {0, 2, 3, 5, 6}) = OnFirst(D)
         /\ Cardinality(D \cap {0, 1, 2, 3, 6}) = OnSecond(D)
<1> DEFINE e == {}
           s6 == {6} \cup e
           s5 == {5} \cup s6
           s35 == {3} \cup s5
           s25 == {2} \cup s35
           s05 == {0} \cup s25
           s36 == {3} \cup s6
           s26 == {2} \cup s36
           s16 == {1} \cup s26
           s06 == {0} \cup s16
<1>1. IsFiniteSet(e) /\ Cardinality(D \cap e) = 0
  <2>1. D \cap e = {}
    OBVIOUS
  <2>2. QED
    BY <2>1, FS_EmptySet
<1>2. /\ 6 \notin e /\ 5 \notin s6 /\ 3 \notin s5 /\ 2 \notin s35 /\ 0 \notin s25
      /\ 3 \notin s6 /\ 2 \notin s36 /\ 1 \notin s26 /\ 0 \notin s16
  OBVIOUS
<1>3. {0, 2, 3, 5, 6} = s05 /\ {0, 1, 2, 3, 6} = s06
  OBVIOUS
<1> HIDE DEF e, s6, s5, s35, s25, s05, s36, s26, s16, s06
<1>4. IsFiniteSet(s6) /\ Cardinality(D \cap s6) = Mark(D, 6) + Cardinality(D \cap e)
  BY <1>1, <1>2, MarkCounts DEF s6
<1>5. IsFiniteSet(s5) /\ Cardinality(D \cap s5) = Mark(D, 5) + Cardinality(D \cap s6)
  BY <1>4, <1>2, MarkCounts DEF s5
<1>6. IsFiniteSet(s35) /\ Cardinality(D \cap s35) = Mark(D, 3) + Cardinality(D \cap s5)
  BY <1>5, <1>2, MarkCounts DEF s35
<1>7. IsFiniteSet(s25) /\ Cardinality(D \cap s25) = Mark(D, 2) + Cardinality(D \cap s35)
  BY <1>6, <1>2, MarkCounts DEF s25
<1>8. IsFiniteSet(s05) /\ Cardinality(D \cap s05) = Mark(D, 0) + Cardinality(D \cap s25)
  BY <1>7, <1>2, MarkCounts DEF s05
<1>9. IsFiniteSet(s36) /\ Cardinality(D \cap s36) = Mark(D, 3) + Cardinality(D \cap s6)
  BY <1>4, <1>2, MarkCounts DEF s36
<1>10. IsFiniteSet(s26) /\ Cardinality(D \cap s26) = Mark(D, 2) + Cardinality(D \cap s36)
  BY <1>9, <1>2, MarkCounts DEF s26
<1>11. IsFiniteSet(s16) /\ Cardinality(D \cap s16) = Mark(D, 1) + Cardinality(D \cap s26)
  BY <1>10, <1>2, MarkCounts DEF s16
<1>12. IsFiniteSet(s06) /\ Cardinality(D \cap s06) = Mark(D, 0) + Cardinality(D \cap s16)
  BY <1>11, <1>2, MarkCounts DEF s06
<1>13. /\ Mark(D, 0) \in Nat /\ Mark(D, 1) \in Nat /\ Mark(D, 2) \in Nat
       /\ Mark(D, 3) \in Nat /\ Mark(D, 5) \in Nat /\ Mark(D, 6) \in Nat
  BY DEF Mark
<1>14. Cardinality(D \cap s05) = OnFirst(D)
  BY <1>1, <1>4, <1>5, <1>6, <1>7, <1>8, <1>13 DEF OnFirst
<1>15. Cardinality(D \cap s06) = OnSecond(D)
  BY <1>1, <1>4, <1>9, <1>10, <1>11, <1>12, <1>13 DEF OnSecond
<1>16. QED
  BY <1>3, <1>14, <1>15

(* The coder is linear: where two registers differ, after a shift and in   *)
(* what they send.                                                         *)
LEMMA ShiftGap ==
  ASSUME NEW A \in Registers, NEW B \in Registers, NEW a \in Bit, NEW b \in Bit
  PROVE  /\ Mark(Plus(Shift(A, a), Shift(B, b)), 0) = IF a = b THEN 0 ELSE 1
         /\ \A j \in 1 .. 6 : Mark(Plus(Shift(A, a), Shift(B, b)), j) = Mark(Plus(A, B), j - 1)
<1>1. \A j \in 0 .. 6 : /\ j \in Shift(A, a) <=> IF j = 0 THEN a = 1 ELSE j - 1 \in A
                        /\ j \in Shift(B, b) <=> IF j = 0 THEN b = 1 ELSE j - 1 \in B
  BY ShiftBits
<1>2. QED
  BY <1>1 DEF Mark, Plus, Bit

LEMMA MaskGap ==
  ASSUME NEW A \in Registers, NEW B \in Registers, NEW K \in Registers
  PROVE  /\ Cardinality(Plus(A, B) \cap K) \in Nat
         /\ Parity(A \cap K) # Parity(B \cap K) <=> Cardinality(Plus(A, B) \cap K) % 2 = 1
<1> DEFINE C == A \cap K
           D == B \cap K
<1>1. Plus(A, B) \cap K = Plus(C, D)
  BY DEF Plus
<1>2. IsFiniteSet(0 .. 6)
  <2>1. 0 \in Int /\ 6 \in Int
    OBVIOUS
  <2>2. QED
    BY <2>1, FS_Interval
<1>3. C \in SUBSET (0 .. 6) /\ D \in SUBSET (0 .. 6)
  BY DEF Registers
<1> HIDE DEF C, D
<1>4. /\ Cardinality(C) \in Nat /\ Cardinality(D) \in Nat /\ Cardinality(Plus(C, D)) \in Nat
      /\ Cardinality(Plus(C, D)) % 2 = (Cardinality(C) + Cardinality(D)) % 2
  BY <1>2, <1>3, PlusParity
<1>5. Cardinality(C) % 2 # Cardinality(D) % 2 <=> (Cardinality(C) + Cardinality(D)) % 2 = 1
  BY <1>4
<1>6. QED
  BY <1>1, <1>4, <1>5 DEF Parity, C, D

LEMMA CodedGap ==
  ASSUME NEW A \in Registers, NEW B \in Registers
  PROVE  /\ Coded(A)[1] # Coded(B)[1] <=> OddOf(OnFirst(Plus(A, B))) = 1
         /\ Coded(A)[2] # Coded(B)[2] <=> OddOf(OnSecond(Plus(A, B))) = 1
<1> DEFINE D == Plus(A, B)
<1>1. {0, 2, 3, 5, 6} \in Registers /\ {0, 1, 2, 3, 6} \in Registers
  BY DEF Registers
<1>2. /\ Parity(A \cap {0, 2, 3, 5, 6}) # Parity(B \cap {0, 2, 3, 5, 6})
           <=> Cardinality(D \cap {0, 2, 3, 5, 6}) % 2 = 1
      /\ Parity(A \cap {0, 1, 2, 3, 6}) # Parity(B \cap {0, 1, 2, 3, 6})
           <=> Cardinality(D \cap {0, 1, 2, 3, 6}) % 2 = 1
  BY <1>1, MaskGap
<1> HIDE DEF D
<1>3. OnFirst(D) \in 0 .. 5 /\ OnSecond(D) \in 0 .. 5
  BY DEF OnFirst, OnSecond, Mark
<1>4. \A k \in 0 .. 5 : k % 2 = 1 <=> OddOf(k) = 1
  <2>1. /\ 0 % 2 = 0 /\ 1 % 2 = 1 /\ 2 % 2 = 0 /\ 3 % 2 = 1 /\ 4 % 2 = 0 /\ 5 % 2 = 1
    OBVIOUS
  <2>2. QED
    BY <2>1 DEF OddOf
<1>5. /\ Cardinality(D \cap {0, 2, 3, 5, 6}) % 2 = 1 <=> OddOf(OnFirst(D)) = 1
      /\ Cardinality(D \cap {0, 1, 2, 3, 6}) % 2 = 1 <=> OddOf(OnSecond(D)) = 1
  BY <1>3, <1>4, MaskCounts
<1>6. QED
  BY <1>2, <1>5 DEF D, Coded

(* While the PSDUs agree, so do the coders; afterwards the frames differ in*)
(* as many bits as the tables claim.                                       *)
GapWeight(num, k, D) ==
  Weight(num, k % num,
         Mark(D, 5), Mark(D, 4), Mark(D, 3), Mark(D, 2), Mark(D, 1), Mark(D, 0))

Apart ==
  /\ rate \in Rates
  /\ lfsr \in Registers
  /\ dist \in 0 .. MaxDist
  /\ ~differ => enc[1] = enc[2]
  /\ differ => GapWeight(rate.num, n, Plus(enc[1], enc[2])) <= dist

LEMMA DifferingCounts ==
  ASSUME NEW A \in Registers, NEW B \in Registers, n \in Nat, rate \in Rates
  PROVE  Cardinality(Differing(A, B))
           = Cost(rate.num, n % rate.num, OnFirst(Plus(A, B)), OnSecond(Plus(A, B)))
<1> DEFINE num == rate.num
           p == n % num
           k == OnFirst(Plus(A, B))
           l == OnSecond(Plus(A, B))
<1>1. num \in {1, 2, 3, 5}
  BY CodingAssumption
<1>2. ASSUME NEW o \in {1, 2}
      PROVE  (2 * n + o - 1) % (2 * num) = (2 * p + o - 1) % (2 * num)
  <2>1. CASE num = 1
    BY <2>1
  <2>2. CASE num = 2
    BY <2>2
  <2>3. CASE num = 3
    BY <2>3
  <2>4. CASE num = 5
    BY <2>4
  <2>5. QED
    BY <1>1, <2>1, <2>2, <2>3, <2>4
<1>3. /\ Coded(A)[1] # Coded(B)[1] <=> OddOf(k) = 1
      /\ Coded(A)[2] # Coded(B)[2] <=> OddOf(l) = 1
  BY CodedGap
<1>4. OddOf(k) \in {0, 1} /\ OddOf(l) \in {0, 1}
  BY DEF OddOf
<1> HIDE DEF p, k, l
<1>5. /\ 1 \in Differing(A, B) <=> Sent(num, p, 1) /\ OddOf(k) = 1
      /\ 2 \in Differing(A, B) <=> Sent(num, p, 2) /\ OddOf(l) = 1
  BY <1>2, <1>3 DEF Differing, Sent
<1>6. Differing(A, B) \subseteq {1, 2}
  BY DEF Differing
<1>7. Cardinality(Differing(A, B))
        = (IF 1 \in Differing(A, B) THEN 1 ELSE 0) + (IF 2 \in Differing(A, B) THEN 1 ELSE 0)
  <2> DEFINE D == Differing(A, B)
  <2>1. D = {} \/ D = {1} \/ D = {2} \/ D = {1} \cup {2}
    BY <1>6
  <2> HIDE DEF D
  <2>2. IsFiniteSet({1}) /\ Cardinality({1}) = 1 /\ Cardinality({2}) = 1
    BY FS_Singleton
  <2>3. Cardinality({}) = 0 /\ Cardinality({1} \cup {2}) = 1 + 1
    <3>1. Cardinality({}) = 0
      BY FS_EmptySet
    <3>2. 2 \notin {1}
      OBVIOUS
    <3>3. Cardinality({1} \cup {2}) = Cardinality({1}) + 1
      BY <2>2, <3>2, FS_AddElement, Zenon
    <3>4. QED
      BY <2>2, <3>1, <3>3, Zenon
  <2>4. Cardinality(D) = (IF 1 \in D THEN 1 ELSE 0) + (IF 2 \in D THEN 1 ELSE 0)
    <3>1. CASE D = {}
      <4>1. Cardinality(D) = 0 /\ 1 \notin D /\ 2 \notin D
        BY <3>1, <2>3
      <4>2. QED
        BY <4>1
    <3>2. CASE D = {1}
      <4>1. Cardinality(D) = 1 /\ 1 \in D /\ 2 \notin D
        BY <3>2, <2>2
      <4>2. QED
        BY <4>1
    <3>3. CASE D = {2}
      <4>1. Cardinality(D) = 1 /\ 1 \notin D /\ 2 \in D
        BY <3>3, <2>2
      <4>2. QED
        BY <4>1
    <3>4. CASE D = {1} \cup {2}
      <4>1. Cardinality(D) = 1 + 1 /\ 1 \in D /\ 2 \in D
        BY <3>4, <2>3
      <4>2. QED
        BY <4>1
    <3>5. QED
      BY <2>1, <3>1, <3>2, <3>3, <3>4
  <2>5. QED
    BY <2>4 DEF D
<1> HIDE DEF num
<1>8. Cardinality(Differing(A, B)) = Cost(num, p, k, l)
  BY <1>4, <1>5, <1>7 DEF Cost
<1>9. QED
  BY <1>8 DEF num, p, k, l

(* One bit: the places move up, the newest one says whether the coders got *)
(* different bits.                                                         *)
LEMMA ApartStep ==
  ASSUME Apart, n \in Nat, enc \in [Pair -> Registers],
         NEW s \in [Pair -> Bit], CodeBit(s), differ' <=> (differ \/ s[1] # s[2])
  PROVE  Apart'
<1> DEFINE num == rate.num
           p == n % num
           D == Plus(enc[1], enc[2])
           E == Plus(Shift(enc[1], s[1]), Shift(enc[2], s[2]))
           add == Cost(num, p, OnFirst(E), OnSecond(E))
<1>1. num \in {1, 2, 3, 5} /\ rate \in Rates /\ rate' = rate /\ n' = n + 1
  BY CodingAssumption DEF Apart, CodeBit
<1>2. p \in 0 .. num - 1 /\ n' % num = After(num, p)
  <2>1. CASE num = 1
    BY <1>1, <2>1 DEF After
  <2>2. CASE num = 2
    BY <1>1, <2>2 DEF After
  <2>3. CASE num = 3
    BY <1>1, <2>3 DEF After
  <2>4. CASE num = 5
    BY <1>1, <2>4 DEF After
  <2>5. QED
    BY <1>1, <2>1, <2>2, <2>3, <2>4
<1>3. /\ enc[1] \in Registers /\ enc[2] \in Registers /\ s[1] \in Bit /\ s[2] \in Bit
      /\ enc'[1] = Shift(enc[1], s[1]) /\ enc'[2] = Shift(enc[2], s[2])
      /\ enc'[1] \in Registers /\ enc'[2] \in Registers
  BY ShiftTyped DEF CodeBit, Pair
<1>4. /\ Mark(E, 0) = (IF s[1] = s[2] THEN 0 ELSE 1)
      /\ \A j \in 1 .. 6 : Mark(E, j) = Mark(D, j - 1)
      /\ Plus(enc'[1], enc'[2]) = E
  BY <1>3, ShiftGap
<1>5. \A F : \A j : Mark(F, j) \in 0 .. 1
  BY DEF Mark
<1>6. add \in 0 .. 2
  BY DEF Cost, OddOf
<1>7. dist' = (IF dist + add > MaxDist THEN MaxDist ELSE dist + add) /\ dist \in 0 .. MaxDist
  <2>1. Cardinality(Differing(enc'[1], enc'[2])) = add
    BY <1>1, <1>3, <1>4, DifferingCounts
  <2>2. QED
    BY <2>1 DEF CodeBit, Apart
<1>8. dist' \in 0 .. MaxDist
  BY <1>6, <1>7 DEF MaxDist
<1>9. ASSUME ~differ'
      PROVE  enc'[1] = enc'[2]
  BY <1>3, <1>9 DEF Apart
<1>10. ASSUME differ'
       PROVE  GapWeight(num, n', E) <= dist'
  <2> DEFINE old == Weight(num, p, Mark(D, 5), Mark(D, 4), Mark(D, 3), Mark(D, 2),
                           Mark(D, 1), Mark(D, 0))
             new == GapWeight(num, n', E)
  <2>1. new = Weight(num, After(num, p), Mark(E, 5), Mark(E, 4), Mark(E, 3), Mark(E, 2),
                     Mark(E, 1), Mark(E, 0))
    BY <1>2 DEF GapWeight
  <2>2. new \in 0 .. MaxDist
    <3>1. After(num, p) \in 0 .. num - 1
      BY <1>1, <1>2 DEF After
    <3>2. LeastDist(num) \in 4 .. MaxDist /\ new \in 0 .. LeastDist(num)
      BY <1>1, <1>5, <2>1, <3>1, WeightBounds
    <3> HIDE DEF new, num
    <3>3. QED
      BY <3>2 DEF MaxDist
  <2>3. new <= dist + add
    <3>1. CASE differ
      <4>1. /\ Mark(E, 1) = Mark(D, 0) /\ Mark(E, 2) = Mark(D, 1) /\ Mark(E, 3) = Mark(D, 2)
            /\ Mark(E, 4) = Mark(D, 3) /\ Mark(E, 5) = Mark(D, 4) /\ Mark(E, 6) = Mark(D, 5)
        BY <1>4
      <4>2. new <= old + Cost(num, p,
                     Mark(E, 0) + Mark(D, 1) + Mark(D, 2) + Mark(D, 4) + Mark(D, 5),
                     Mark(E, 0) + Mark(D, 0) + Mark(D, 1) + Mark(D, 2) + Mark(D, 5))
        <5>1. new = Weight(num, After(num, p), Mark(D, 4), Mark(D, 3), Mark(D, 2), Mark(D, 1),
                           Mark(D, 0), Mark(E, 0))
          BY <2>1, <4>1
        <5> HIDE DEF new, num, p, D, E
        <5>2. QED
          BY <1>1, <1>2, <1>5, <5>1, WeightStep
      <4>3. add = Cost(num, p,
                     Mark(E, 0) + Mark(D, 1) + Mark(D, 2) + Mark(D, 4) + Mark(D, 5),
                     Mark(E, 0) + Mark(D, 0) + Mark(D, 1) + Mark(D, 2) + Mark(D, 5))
        BY <4>1 DEF OnFirst, OnSecond
      <4>4. old \in Int /\ old <= dist
        <5>1. old \in 0 .. LeastDist(num) /\ LeastDist(num) \in 4 .. MaxDist
          BY <1>1, <1>2, <1>5, WeightBounds
        <5>2. old <= dist
          BY <3>1 DEF Apart, GapWeight
        <5>3. QED
          BY <5>1, <5>2
      <4> HIDE DEF old, new, add, num, p, D, E
      <4>5. new <= old + add
        BY <4>2, <4>3
      <4>6. QED
        BY <1>6, <1>7, <2>2, <4>4, <4>5 DEF MaxDist
    <3>2. CASE ~differ
      <4>1. enc[1] = enc[2] /\ s[1] # s[2]
        BY <1>10, <3>2 DEF Apart
      <4>2. \A j : Mark(D, j) = 0
        BY <4>1 DEF Mark, Plus
      <4>3. /\ Mark(E, 0) = 1 /\ Mark(E, 1) = 0 /\ Mark(E, 2) = 0 /\ Mark(E, 3) = 0
            /\ Mark(E, 4) = 0 /\ Mark(E, 5) = 0 /\ Mark(E, 6) = 0
        BY <1>4, <4>1, <4>2
      <4>4. OnFirst(E) = 1 /\ OnSecond(E) = 1
        BY <4>3 DEF OnFirst, OnSecond
      <4>5. new <= add
        BY <1>1, <1>2, <2>1, <4>3, <4>4, WeightBounds
      <4> HIDE DEF new, add
      <4>6. QED
        BY <1>6, <1>7, <2>2, <4>5 DEF MaxDist
    <3>3. QED
      BY <3>1, <3>2
  <2> HIDE DEF new, add
  <2>4. new <= dist'
    BY <1>6, <1>7, <2>2, <2>3 DEF MaxDist
  <2>5. QED
    BY <2>4 DEF new
<1>11. QED
  BY <1>1, <1>4, <1>8, <1>9, <1>10, ShiftTyped DEF Apart, CodeBit

(* Any two frames with different PSDUs differ, in what is sent of them, in *)
(* at least as many bits as the 802.11 code has free distance at the rate, *)
(* for every PSDU length and seed, whatever the PSDUs: conv_encode() and   *)
(* puncture() fit together.                                                *)
THEOREM CodewordsApart == Spec => []FreeDistance
<1>0. TailAt \in Nat /\ TailAt > 16
  BY CodingAssumption DEF TailAt, Service
<1>1. Init => Apart
  BY CodingAssumption DEF Init, Apart, MaxDist, Pair
<1>2. Tailing /\ Apart /\ [Next]_vars => Apart'
  <2> SUFFICES ASSUME Tailing, Apart, [Next]_vars PROVE Apart'
    OBVIOUS
  <2> DEFINE both == [m \in Pair |-> Scrambled(0)]
             none == [m \in Pair |-> 0]
  <2>1. n \in Nat /\ enc \in [Pair -> Registers]
    BY DEF Tailing
  <2>2. \A d \in Bit : Scrambled(d) \in Bit
    BY FeedbackIsBit DEF Apart, Scrambled, Xor, Bit
  <2>3. both \in [Pair -> Bit] /\ both[1] = both[2]
    BY <2>2 DEF Bit, Pair
  <2>4. none \in [Pair -> Bit] /\ none[1] = none[2]
    BY DEF Bit, Pair
  <2>5. CASE ServiceBit
    BY <2>1, <2>3, <2>5, ApartStep DEF ServiceBit
  <2>6. CASE PsduBit
    <3>1. PICK d \in [Pair -> Bit] : /\ CodeBit([m \in Pair |-> Scrambled(d[m])])
                                     /\ differ' = (differ \/ d[1] # d[2])
      BY <2>6 DEF PsduBit
    <3> DEFINE s == [m \in Pair |-> Scrambled(d[m])]
    <3>2. d[1] \in Bit /\ d[2] \in Bit /\ s[1] = Scrambled(d[1]) /\ s[2] = Scrambled(d[2])
      BY DEF Pair
    <3>3. s \in [Pair -> Bit]
      BY <2>2
    <3>4. Scrambled(d[1]) = Scrambled(d[2]) <=> d[1] = d[2]
      BY <3>2, FeedbackIsBit DEF Apart, Scrambled, Xor, Bit
    <3>5. CodeBit(s) /\ (differ' <=> (differ \/ s[1] # s[2]))
      BY <3>1, <3>2, <3>4
    <3> HIDE DEF s
    <3>6. QED
      BY <2>1, <3>3, <3>5, ApartStep
  <2>7. CASE TailBit
    BY <2>1, <2>4, <2>7, ApartStep DEF TailBit
  <2>8. CASE PadBit
    BY <2>1, <2>3, <2>8, ApartStep DEF PadBit
  <2>9. CASE UNCHANGED vars
    BY <2>9 DEF vars, Apart, GapWeight
  <2>10. QED
    BY <2>5, <2>6, <2>7, <2>8, <2>9 DEF Next, Finished
<1>3. Tailing /\ Apart => FreeDistance
  <2> SUFFICES ASSUME Tailing, Apart, n >= TailAt + 6, differ
               PROVE  dist >= LeastDist(rate.num)
    BY DEF FreeDistance, LeastDist
  <2>1. rate.num \in {1, 2, 3, 5} /\ n \in Nat /\ dist \in Int
    BY CodingAssumption DEF Apart, Tailing
  <2>2. \A j \in 0 .. 5 : Mark(Plus(enc[1], enc[2]), j) = 0
    <3>1. CASE n = TailAt + 6
      <4>1. enc[1] \subseteq {6} /\ enc[2] \subseteq {6}
        BY <3>1, TailingTerminates DEF TailTerminates, Pair
      <4>2. QED
        BY <4>1 DEF Mark, Plus
    <3>2. CASE n > TailAt + 6
      BY <3>2 DEF Tailing, Mark, Plus
    <3>3. QED
      BY <1>0, <2>1, <3>1, <3>2
  <2>3. GapWeight(rate.num, n, Plus(enc[1], enc[2]))
          = Weight(rate.num, n % rate.num, 0, 0, 0, 0, 0, 0)
    BY <2>2 DEF GapWeight
  <2>4. n % rate.num \in 0 .. rate.num - 1
    BY <2>1
  <2>5. LeastDist(rate.num) <= dist
    BY <2>1, <2>3, <2>4, WeightBounds DEF Apart
  <2>6. LeastDist(rate.num) \in Int
    BY <2>1, <2>4, WeightBounds
  <2>7. QED
    BY <2>1, <2>5, <2>6
<1>4. QED
  BY <1>1, <1>2, <1>3, TailingInvariant, PTL DEF Spec

-----------------------------------------------------------------------------
(* Rows and columns.                                                       *)
LEMMA Shape ==
  /\ M \in Nat \ {0} /\ N \in Nat /\ M <= N
  /\ IsFiniteSet(Rows) /\ Cardinality(Rows) = M
  /\ IsFiniteSet(Cols) /\ Cardinality(Cols) = N
<1>1. M \in Nat \ {0} /\ N \in Nat /\ M <= N
  BY EncodeAssumption
<1>2. ASSUME NEW w \in Nat
      PROVE  IsFiniteSet(0 .. w - 1) /\ Cardinality(0 .. w - 1) = w
  <2>1. 0 \in Int /\ w - 1 \in Int
    OBVIOUS
  <2>2. /\ IsFiniteSet(0 .. w - 1)
        /\ Cardinality(0 .. w - 1) = IF 0 > w - 1 THEN 0 ELSE (w - 1) - 0 + 1
    BY <2>1, FS_Interval
  <2>3. QED
    BY <2>2
<1>3. QED
  BY <1>1, <1>2 DEF Rows, Cols

(* The sum of two rows holds of a word if both rows do, or neither         *)
(* (PlusParity).                                                           *)
LEMMA PlusEven ==
  ASSUME NEW A \in SUBSET Cols, NEW B \in SUBSET Cols, NEW w \in SUBSET Cols
  PROVE  EvenCommon(Plus(A, B), w) <=> (EvenCommon(A, w) <=> EvenCommon(B, w))
<1> DEFINE C == A \cap w
           D == B \cap w
<1>1. Plus(A, B) \cap w = Plus(C, D)
  BY DEF Plus
<1>2. C \in SUBSET Cols /\ D \in SUBSET Cols
  OBVIOUS
<1>3. /\ Cardinality(C) \in Nat /\ Cardinality(D) \in Nat
      /\ Cardinality(Plus(C, D)) % 2 = (Cardinality(C) + Cardinality(D)) % 2
  BY <1>2, Shape, PlusParity
<1>4. /\ EvenCommon(A, w) <=> Cardinality(C) % 2 = 0
      /\ EvenCommon(B, w) <=> Cardinality(D) % 2 = 0
      /\ EvenCommon(Plus(A, B), w) <=> Cardinality(Plus(C, D)) % 2 = 0
  BY <1>1 DEF EvenCommon
<1> HIDE DEF C, D
<1>5. QED
  BY <1>3, <1>4

(* A sum over two sets of rows is the sum over those in one of them.       *)
SumOf(T) == {c \in Cols : Odd(T, c)}

LEMMA SumsAdd ==
  ASSUME NEW T \in SUBSET Rows, NEW U \in SUBSET Rows
  PROVE  Plus(SumOf(T), SumOf(U)) = SumOf(Plus(T, U)) /\ Plus(T, U) \in SUBSET Rows
<1>1. ASSUME NEW c \in Cols
      PROVE  Odd(Plus(T, U), c) <=> ~(Odd(T, c) <=> Odd(U, c))
  <2> DEFINE C == {x \in T : c \in H0[x]}
             D == {x \in U : c \in H0[x]}
  <2>1. {x \in Plus(T, U) : c \in H0[x]} = Plus(C, D)
    BY DEF Plus
  <2>2. C \in SUBSET Rows /\ D \in SUBSET Rows
    OBVIOUS
  <2>3. /\ Cardinality(C) \in Nat /\ Cardinality(D) \in Nat
        /\ Cardinality(Plus(C, D)) % 2 = (Cardinality(C) + Cardinality(D)) % 2
    BY <2>2, Shape, PlusParity
  <2>4. /\ Odd(T, c) <=> Cardinality(C) % 2 = 1
        /\ Odd(U, c) <=> Cardinality(D) % 2 = 1
        /\ Odd(Plus(T, U), c) <=> Cardinality(Plus(C, D)) % 2 = 1
    BY <2>1 DEF Odd
  <2> HIDE DEF C, D
  <2>5. QED
    BY <2>3, <2>4
<1>2. QED
  BY <1>1 DEF SumOf, Plus

(* One row is the sum over itself.                                         *)
LEMMA SumOfOne ==
  ASSUME NEW x \in Rows, H0 \in [Rows -> SUBSET Cols]
  PROVE  SumOf({x}) = H0[x]
<1>1. ASSUME NEW c \in Cols
      PROVE  Odd({x}, c) <=> c \in H0[x]
  <2>1. CASE c \in H0[x]
    <3>1. {y \in {x} : c \in H0[y]} = {x}
      BY <2>1
    <3>2. Cardinality({x}) = 1
      BY FS_Singleton
    <3>3. QED
      BY <2>1, <3>1, <3>2 DEF Odd
  <2>2. CASE c \notin H0[x]
    <3>1. {y \in {x} : c \in H0[y]} = {}
      BY <2>2
    <3>2. Cardinality({}) = 0
      BY FS_EmptySet
    <3>3. QED
      BY <2>2, <3>1, <3>2 DEF Odd
  <2>3. QED
    BY <2>1, <2>2
<1>2. H0[x] \subseteq Cols
  OBVIOUS
<1>3. QED
  BY <1>1, <1>2 DEF SumOf

(* A set of columns that is not empty has a rightmost one.                 *)
LEMMA Rightmost ==
  ASSUME NEW C \in SUBSET Cols, C # {}
  PROVE  \E c \in C : \A d \in C : d <= c
<1> DEFINE R == OpToRel(<, Nat)
           T == {N - 1 - c : c \in C}
<1>1. IsWellFoundedOn(R, Nat)
  BY NatLessThanWellFounded
<1>2. \A a, b \in Nat : a < b => <<a, b>> \in R
  BY DEF OpToRel
<1>3. C \subseteq 0 .. N - 1 /\ N \in Nat
  BY Shape DEF Cols
<1>4. T \subseteq Nat /\ T # {}
  <2>1. \A c \in C : N - 1 - c \in Nat
    BY <1>3
  <2>2. QED
    BY <2>1
<1> HIDE DEF R
<1>5. PICK t \in T : \A u \in T : ~ (<<u, t>> \in R)
  BY <1>1, <1>4, WFMin
<1>6. PICK c \in C : t = N - 1 - c
  OBVIOUS
<1>7. ASSUME NEW d \in C
      PROVE  d <= c
  <2>1. N - 1 - d \in T
    OBVIOUS
  <2>2. ~(N - 1 - d < t)
    BY <1>2, <1>4, <1>5, <2>1
  <2>3. QED
    BY <1>3, <1>6, <2>2
<1>8. QED
  BY <1>7

-----------------------------------------------------------------------------
(* The reduction.  Sums: every row is a sum of given ones, and one that is *)
(* yet to come has itself among them, so with full rank it cannot have     *)
(* become zero.  Pivots: the pivots' columns form an identity, so a row to *)
(* come has its ones elsewhere.  Neither says anything of the code without *)
(* the other.                                                              *)
RTyped ==
  /\ H0 \in [Rows -> SUBSET Cols]
  /\ H \in [Rows -> SUBSET Cols]
  /\ r \in 0 .. M
  /\ used \in SUBSET Cols
  /\ piv \in Seq(Cols)

Sums ==
  \A x \in Rows : \E T \in SUBSET Rows :
    H[x] = SumOf(T) /\ (x >= r => x \in T /\ T \ {x} \subseteq 0 .. r - 1)

Pivots ==
  /\ Len(piv) = r
  /\ used = {piv[j] : j \in 1 .. r}
  /\ \A j \in 1 .. r : \A x \in Rows : piv[j] \in H[x] <=> x = j - 1

RInv == RTyped /\ SameCode /\ Sums /\ (FullRank => Pivots)

LEMMA ReductionInit == InitReduction => RInv
<1> SUFFICES ASSUME InitReduction PROVE RInv
  OBVIOUS
<1>1. RTyped
  BY EncodeAssumption DEF InitReduction, RTyped
<1>2. SameCode
  BY DEF InitReduction, SameCode
<1>3. Sums
  <2>1. ASSUME NEW x \in Rows
        PROVE  H[x] = SumOf({x}) /\ {x} \in SUBSET Rows
    BY <1>1, SumOfOne DEF InitReduction, RTyped
  <2>2. QED
    BY <2>1 DEF Sums
<1>4. Pivots
  BY DEF InitReduction, Pivots
<1>5. QED
  BY <1>1, <1>2, <1>3, <1>4 DEF RInv

(* The pivot is there.                                                     *)
LEMMA PivotFound ==
  ASSUME RTyped, r < M, Candidates # {}
  PROVE  r \in Rows /\ Pivot \in Cols /\ Pivot \in H[r] /\ Pivot \notin used
<1>1. r \in Rows
  BY Shape DEF RTyped, Rows
<1>2. Candidates \in SUBSET Cols
  BY <1>1 DEF RTyped, Candidates
<1>3. Pivot \in Candidates
  BY <1>2, Rightmost DEF Pivot
<1>4. QED
  BY <1>1, <1>2, <1>3 DEF Candidates

(* Adding a row to others changes no set of checks.                        *)
LEMMA ClearedSame ==
  ASSUME RTyped, r \in Rows, NEW c \in Cols, NEW w \in SUBSET Cols
  PROVE  InCode(Cleared(c), w) <=> InCode(H, w)
<1> DEFINE K == Cleared(c)
<1>1. \A x \in Rows : H[x] \in SUBSET Cols
  BY DEF RTyped
<1>2. \A x \in Rows : K[x] = H[x] \/ (x # r /\ K[x] = Plus(H[x], H[r]))
  BY DEF Cleared
<1>3. K[r] = H[r]
  BY DEF Cleared
<1> HIDE DEF K
<1>4. ASSUME InCode(H, w)
      PROVE  InCode(K, w)
  BY <1>1, <1>2, <1>4, PlusEven DEF InCode
<1>5. ASSUME InCode(K, w)
      PROVE  InCode(H, w)
  <2>1. EvenCommon(H[r], w)
    BY <1>3, <1>5 DEF InCode
  <2>2. QED
    BY <1>1, <1>2, <1>5, <2>1, PlusEven DEF InCode
<1>6. QED
  BY <1>4, <1>5 DEF K

LEMMA ReduceStep ==
  ASSUME RInv, ReduceRow
  PROVE  RInv'
<1> DEFINE c == Pivot
<1>1. RTyped /\ r < M /\ r \in Rows /\ c \in Cols /\ c \in H[r] /\ c \notin used
  BY PivotFound DEF RInv, ReduceRow
<1>2. /\ used' = used \cup {c} /\ piv' = Append(piv, c)
      /\ H' = Cleared(c) /\ r' = r + 1 /\ H0' = H0
  BY DEF ReduceRow
<1> HIDE DEF c
<1>3. /\ r \in Nat /\ r + 1 \in 0 .. M
      /\ Rows' = Rows /\ \A x \in Rows : x \in Nat
  BY <1>1, Shape DEF RTyped, Rows
<1>4. /\ \A x \in Rows : H'[x] = IF x # r /\ c \in H[x] THEN Plus(H[x], H[r]) ELSE H[x]
      /\ \A x \in Rows : H[x] \in SUBSET Cols
  BY <1>1, <1>2 DEF Cleared, RTyped
<1>5. RTyped'
  <2>1. H' \in [Rows -> SUBSET Cols]
    <3>1. \A x \in Rows : H'[x] \in SUBSET Cols
      BY <1>1, <1>4 DEF Plus
    <3>2. H' = [x \in Rows |-> H'[x]]
      BY <1>2 DEF Cleared
    <3>3. QED
      BY <3>1, <3>2, Zenon
  <2>2. used' \in SUBSET Cols /\ piv' \in Seq(Cols)
    BY <1>1, <1>2 DEF RTyped
  <2>3. QED
    BY <1>1, <1>2, <1>3, <2>1, <2>2 DEF RTyped
<1>6. SameCode'
  <2>1. ASSUME NEW w \in SUBSET Cols
        PROVE  InCode(H', w) <=> InCode(H0', w)
    <3>1. InCode(H', w) <=> InCode(H, w)
      BY <1>1, <1>2, ClearedSame
    <3>2. InCode(H, w) <=> InCode(H0, w)
      BY DEF RInv, SameCode
    <3>3. QED
      BY <1>2, <3>1, <3>2
  <2>2. QED
    BY <2>1 DEF SameCode
<1>7. Sums'
  <2>0. \A T : SumOf(T)' = SumOf(T)
    BY <1>2 DEF SumOf, Odd
  <2>1. PICK U \in SUBSET Rows :
          H[r] = SumOf(U) /\ r \in U /\ U \ {r} \subseteq 0 .. r - 1
    BY <1>1, <1>3 DEF RInv, Sums
  <2>2. ASSUME NEW x \in Rows
        PROVE  \E T \in SUBSET Rows :
                 /\ H'[x] = SumOf(T)
                 /\ x >= r + 1 => x \in T /\ T \ {x} \subseteq 0 .. r
    <3>1. PICK T \in SUBSET Rows :
            H[x] = SumOf(T) /\ (x >= r => x \in T /\ T \ {x} \subseteq 0 .. r - 1)
      BY DEF RInv, Sums
    <3>2. x >= r + 1 => x \in T /\ T \ {x} \subseteq 0 .. r /\ x \notin U
      BY <1>3, <2>1, <3>1
    <3>3. CASE x # r /\ c \in H[x]
      <4>1. H'[x] = SumOf(Plus(T, U)) /\ Plus(T, U) \in SUBSET Rows
        BY <1>4, <2>1, <3>1, <3>3, SumsAdd
      <4>2. U \subseteq 0 .. r
        BY <1>3, <2>1
      <4>3. x >= r + 1 => x \in Plus(T, U) /\ Plus(T, U) \ {x} \subseteq 0 .. r
        BY <3>2, <4>2 DEF Plus
      <4>4. QED
        BY <4>1, <4>3
    <3>4. CASE ~(x # r /\ c \in H[x])
      <4>1. H'[x] = SumOf(T)
        BY <1>4, <3>1, <3>4
      <4>2. QED
        BY <3>2, <4>1
    <3>5. QED
      BY <3>3, <3>4
  <2>3. r' - 1 = r
    BY <1>2, <1>3
  <2>4. ASSUME NEW x \in Rows
        PROVE  \E T \in SUBSET Rows :
                 /\ H'[x] = SumOf(T)'
                 /\ x >= r' => x \in T /\ T \ {x} \subseteq 0 .. r' - 1
    BY <1>2, <2>0, <2>2, <2>3
  <2>5. QED
    BY <1>3, <2>4 DEF Sums
<1>8. ASSUME FullRank'
      PROVE  Pivots'
  <2>1. Pivots
    BY <1>2, <1>8 DEF RInv, FullRank, Odd
  <2>2. Len(piv) = r /\ piv \in Seq(Cols)
    BY <1>1, <2>1 DEF Pivots, RTyped
  <2>3. Len(piv') = r + 1 /\ piv'[r + 1] = c /\ \A j \in 1 .. r : piv'[j] = piv[j]
    BY <1>1, <1>2, <1>3, <2>2
  <2>4. 1 .. r + 1 = (1 .. r) \cup {r + 1}
    BY <1>3
  <2>5. used' = {piv'[j] : j \in 1 .. r + 1}
    BY <1>2, <2>1, <2>3, <2>4 DEF Pivots
  <2>6. ASSUME NEW j \in 1 .. r + 1, NEW x \in Rows
        PROVE  piv'[j] \in H'[x] <=> x = j - 1
    <3>1. CASE j = r + 1
      <4>1. c \in H'[x] <=> x = r
        BY <1>1, <1>4 DEF Plus
      <4>2. QED
        BY <1>3, <2>3, <3>1, <4>1
    <3>2. CASE j \in 1 .. r
      <4>1. piv[j] \in H[x] <=> x = j - 1
        BY <2>1, <3>2 DEF Pivots
      <4>2. piv[j] \notin H[r]
        BY <1>1, <1>3, <2>1, <3>2 DEF Pivots
      <4>3. piv[j] \in H'[x] <=> piv[j] \in H[x]
        BY <1>4, <4>2 DEF Plus
      <4>4. QED
        BY <2>3, <3>2, <4>1, <4>3
    <3>3. QED
      BY <2>4, <3>1, <3>2
  <2>7. QED
    BY <1>2, <1>3, <2>3, <2>5, <2>6 DEF Pivots
<1>9. QED
  BY <1>5, <1>6, <1>7, <1>8 DEF RInv

(* With full rank no row is skipped.                                       *)
LEMMA SkipStep ==
  ASSUME RInv, SkipRow
  PROVE  RInv' /\ ~FullRank
<1>1. /\ RTyped /\ r < M /\ Candidates = {}
      /\ r' = r + 1 /\ H0' = H0 /\ H' = H /\ used' = used /\ piv' = piv
  BY DEF RInv, SkipRow
<1>2. r \in Rows /\ r \in Nat /\ r + 1 \in 0 .. M /\ Rows' = Rows
  BY <1>1, Shape DEF RTyped, Rows
<1>3. ~FullRank
  <2> SUFFICES ASSUME FullRank PROVE FALSE
    OBVIOUS
  <2>1. Pivots
    BY DEF RInv
  <2>2. H[r] \subseteq used
    BY <1>1 DEF Candidates
  <2>3. \A j \in 1 .. r : piv[j] \notin H[r]
    BY <1>2, <2>1 DEF Pivots
  <2>4. H[r] = {}
    BY <2>1, <2>2, <2>3 DEF Pivots
  <2>5. PICK T \in SUBSET Rows : H[r] = SumOf(T) /\ r \in T
    BY <1>2 DEF RInv, Sums
  <2>6. T \in (SUBSET Rows) \ {{}}
    BY <2>5
  <2>7. \E c \in Cols : Odd(T, c)
    BY <2>6 DEF FullRank
  <2>8. QED
    BY <2>4, <2>5, <2>7 DEF SumOf
<1>4. RTyped' /\ SameCode'
  BY <1>1, <1>2 DEF RTyped, RInv, SameCode
<1>5. Sums'
  <2>1. \A T : SumOf(T)' = SumOf(T)
    BY <1>1 DEF SumOf, Odd
  <2>2. ASSUME NEW x \in Rows
        PROVE  \E T \in SUBSET Rows :
                 /\ H[x] = SumOf(T)
                 /\ x >= r + 1 => x \in T /\ T \ {x} \subseteq 0 .. r
    <3>1. x \in Nat
      BY Shape DEF Rows
    <3>2. PICK T \in SUBSET Rows :
            H[x] = SumOf(T) /\ (x >= r => x \in T /\ T \ {x} \subseteq 0 .. r - 1)
      BY DEF RInv, Sums
    <3>3. x >= r + 1 => x \in T /\ T \ {x} \subseteq 0 .. r
      BY <1>2, <3>1, <3>2
    <3>4. QED
      BY <3>2, <3>3
  <2>3. r' - 1 = r
    BY <1>1, <1>2
  <2>4. ASSUME NEW x \in Rows
        PROVE  \E T \in SUBSET Rows :
                 /\ H'[x] = SumOf(T)'
                 /\ x >= r' => x \in T /\ T \ {x} \subseteq 0 .. r' - 1
    BY <1>1, <2>1, <2>2, <2>3
  <2>5. QED
    BY <1>2, <2>4 DEF Sums
<1>6. ~FullRank'
  BY <1>1, <1>3 DEF FullRank, Odd
<1>7. QED
  BY <1>3, <1>4, <1>5, <1>6 DEF RInv

LEMMA ReductionInvariant == SpecReduction => []RInv
<1>1. RInv /\ [NextReduction]_reduction => RInv'
  <2> SUFFICES ASSUME RInv, [NextReduction]_reduction PROVE RInv'
    OBVIOUS
  <2>1. CASE UNCHANGED reduction
    <3>1. H0' = H0 /\ H' = H /\ r' = r /\ used' = used /\ piv' = piv
      BY <2>1 DEF reduction
    <3>2. RTyped' /\ SameCode' /\ Sums'
      BY <3>1 DEF RInv, RTyped, SameCode, Sums, SumOf, Odd, InCode
    <3>3. FullRank' => Pivots'
      BY <3>1 DEF RInv, FullRank, Odd, Pivots
    <3>4. QED
      BY <3>2, <3>3 DEF RInv
  <2>2. QED
    BY <2>1, ReduceStep, SkipStep DEF NextReduction, Reduced
<1>2. QED
  BY <1>1, ReductionInit, PTL DEF SpecReduction

(* The decoder leaves the reduction alone.                                 *)
LEMMA RunsReduction == SpecAll => SpecReduction
<1>1. InitAll => InitReduction
  BY DEF InitAll
<1>2. [NextAll]_<<reduction, decoder>> => [NextReduction]_reduction
  BY DEF NextAll, NextReduction, reduction, Reduced
<1>3. QED
  BY <1>1, <1>2, PTL DEF SpecAll, SpecReduction

(* gf2_systematic() never changes the code, whatever the matrix, its size  *)
(* and its rank: a word passes the reduced checks exactly if it passes the *)
(* given ones.                                                             *)
THEOREM ReducingKeepsCode == SpecAll => []SameCode
<1>1. RInv => SameCode
  BY DEF RInv
<1>2. QED
  BY <1>1, RunsReduction, ReductionInvariant, PTL

-----------------------------------------------------------------------------
(* The pivots are as many as the rows, so the rest are N - M.              *)
LEMMA InfoCount ==
  ASSUME RTyped, Pivots, Done
  PROVE  Cardinality(InfoCols) = N - M
<1> DEFINE f == [j \in 1 .. M |-> piv[j]]
<1>1. r = M /\ M \in Nat
  BY Shape DEF Done
<1>2. \A j \in 1 .. M : piv[j] \in used
  BY <1>1 DEF Pivots
<1>3. f \in Bijection(1 .. M, used)
  <2>1. f \in [1 .. M -> used]
    BY <1>2
  <2>2. ASSUME NEW j \in 1 .. M, NEW k \in 1 .. M, f[j] = f[k]
        PROVE  j = k
    <3>1. j - 1 \in Rows
      BY <1>1 DEF Rows
    <3>2. piv[j] \in H[j - 1] /\ (piv[k] \in H[j - 1] <=> j - 1 = k - 1)
      BY <1>1, <3>1 DEF Pivots
    <3>3. QED
      BY <2>2, <3>2
  <2>3. \A c \in used : \E j \in 1 .. M : f[j] = c
    BY <1>1 DEF Pivots
  <2> HIDE DEF f
  <2>4. f \in Injection(1 .. M, used)
    BY <2>1, <2>2 DEF Injection, IsInjective
  <2>5. f \in Surjection(1 .. M, used)
    BY <2>1, <2>3 DEF Surjection
  <2>6. QED
    BY <2>4, <2>5 DEF Bijection
<1>4. Cardinality(1 .. M) = M /\ IsFiniteSet(1 .. M)
  <2>1. /\ IsFiniteSet(1 .. M)
        /\ Cardinality(1 .. M) = IF 1 > M THEN 0 ELSE M - 1 + 1
    BY <1>1, FS_Interval
  <2>2. QED
    BY <1>1, <2>1
<1>5. Cardinality(used) = M
  <2>1. ExistsBijection(1 .. M, used)
    BY <1>3 DEF ExistsBijection
  <2>2. QED
    BY <1>4, <2>1, FS_Bijection
<1>6. Cardinality(InfoCols) = N - Cardinality(Cols \cap used)
  BY Shape, FS_Difference DEF InfoCols
<1>7. Cols \cap used = used
  BY DEF RTyped
<1>8. QED
  BY <1>5, <1>6, <1>7

(* A reduced row meets an encoded word in its information bits and its     *)
(* pivot, which is there to make them even.                                *)
LEMMA EncodedHolds ==
  ASSUME RTyped, Pivots, Done, NEW info \in SUBSET InfoCols, NEW x \in Rows
  PROVE  EvenCommon(H[x], Encode(info))
<1> DEFINE p == x + 1
           C == H[x] \cap info
           Set == {j \in 1 .. Len(piv) : ~EvenCommon(PColumn(j), info)}
<1>1. /\ r = M /\ M \in Nat /\ p \in 1 .. M /\ p - 1 = x /\ Len(piv) = M
      /\ H[x] \in SUBSET Cols /\ info \in SUBSET Cols
  BY Shape DEF Done, Rows, Pivots, RTyped, InfoCols
<1>2. \A j \in 1 .. M : piv[j] \in H[x] <=> j = p
  BY <1>1 DEF Pivots
<1>3. PColumn(p) \cap info = C
  BY <1>1 DEF PColumn, InfoCols
<1>4. p \in Set <=> Cardinality(C) % 2 # 0
  BY <1>1, <1>3 DEF EvenCommon
<1>5. Encode(info) = info \cup {piv[j] : j \in Set}
  BY DEF Encode
<1>6. \A j \in Set : j \in 1 .. M
  BY <1>1
<1>7. IsFiniteSet(C) /\ Cardinality(C) \in Nat
  BY <1>1, Shape, FS_Subset, FS_CardinalityType
<1>8. piv[p] \notin C
  <2>1. piv[p] \in used
    BY <1>1 DEF Pivots
  <2>2. QED
    BY <2>1 DEF InfoCols
<1> HIDE DEF p, C, Set
<1>9. CASE p \in Set
  <2>1. H[x] \cap Encode(info) = C \cup {piv[p]}
    BY <1>1, <1>2, <1>5, <1>6, <1>9 DEF C
  <2>2. Cardinality(C \cup {piv[p]}) = Cardinality(C) + 1
    BY <1>7, <1>8, FS_AddElement
  <2>3. \A k \in Nat : k % 2 # 0 => (k + 1) % 2 = 0
    OBVIOUS
  <2>4. QED
    BY <1>4, <1>7, <1>9, <2>1, <2>2, <2>3, Zenon DEF EvenCommon
<1>10. CASE p \notin Set
  <2>1. H[x] \cap Encode(info) = C
    BY <1>1, <1>2, <1>5, <1>6, <1>10 DEF C
  <2>2. QED
    BY <1>4, <1>7, <1>10, <2>1 DEF EvenCommon
<1>11. QED
  BY <1>9, <1>10

(* With a matrix of full rank encode() gives only codewords, and there are *)
(* N - M information bits: what selftest() asserts of one random word.     *)
THEOREM EncodedWordsPass == SpecAll => []EncodesCodewords
<1>1. RInv => EncodesCodewords
  <2> SUFFICES ASSUME RInv, Done, FullRank
               PROVE  /\ Cardinality(InfoCols) = N - M
                      /\ \A info \in SUBSET InfoCols : InCode(H0, Encode(info))
    BY DEF EncodesCodewords
  <2>1. RTyped /\ Pivots /\ SameCode
    BY DEF RInv
  <2>2. ASSUME NEW info \in SUBSET InfoCols
        PROVE  InCode(H0, Encode(info))
    <3>1. InCode(H, Encode(info))
      BY <2>1, EncodedHolds DEF InCode
    <3>2. Encode(info) \in SUBSET Cols
      <4>1. \A j \in 1 .. Len(piv) : piv[j] \in Cols
        BY <2>1 DEF RTyped
      <4>2. QED
        BY <4>1 DEF Encode, InfoCols
    <3>3. QED
      BY <2>1, <3>1, <3>2 DEF SameCode
  <2>3. QED
    BY <2>1, <2>2, InfoCount
<1>2. QED
  BY <1>1, RunsReduction, ReductionInvariant, PTL

-----------------------------------------------------------------------------
(* Induction over the natural numbers, for sets of them.                   *)
LEMMA Induct ==
  ASSUME NEW T \in SUBSET Nat, 0 \in T, \A k \in T : k + 1 \in T
  PROVE  T = Nat
<1> DEFINE R == OpToRel(<, Nat)
<1>1. IsWellFoundedOn(R, Nat)
  BY NatLessThanWellFounded
<1>2. \A a, b \in Nat : a < b => <<a, b>> \in R
  BY DEF OpToRel
<1> HIDE DEF R
<1> SUFFICES ASSUME Nat \ T # {} PROVE FALSE
  OBVIOUS
<1>3. PICK x \in Nat \ T : \A y \in Nat \ T : ~ (<<y, x>> \in R)
  BY <1>1, WFMin
<1>4. x # 0 /\ x - 1 \in Nat /\ x - 1 < x /\ (x - 1) + 1 = x
  OBVIOUS
<1>5. x - 1 \in T
  BY <1>2, <1>3, <1>4
<1>6. QED
  BY <1>3, <1>4, <1>5

(* A set of natural numbers that is not empty has a least one.             *)
LEMMA Least ==
  ASSUME NEW V \in SUBSET Nat, V # {}
  PROVE  Min(V) \in V /\ \A v \in V : Min(V) <= v
<1> DEFINE R == OpToRel(<, Nat)
<1>1. IsWellFoundedOn(R, Nat)
  BY NatLessThanWellFounded
<1>2. \A a, b \in Nat : a < b => <<a, b>> \in R
  BY DEF OpToRel
<1> HIDE DEF R
<1>3. PICK x \in V : \A y \in V : ~ (<<y, x>> \in R)
  BY <1>1, WFMin
<1>4. \A y \in V : x <= y
  <2>1. \A y \in V : y \in Nat /\ x \in Nat /\ ~(y < x)
    BY <1>2, <1>3
  <2>2. QED
    BY <2>1
<1>5. QED
  BY <1>4 DEF Min

-----------------------------------------------------------------------------
(* Sums over sets of checks.  SumsOf(f, g) says that g gives the sum of f  *)
(* over every subset of the finite set g is defined on the subsets of.     *)
Pick(s) == CHOOSE x \in s : TRUE
SumsOf(f, g, D) ==
  g = [s \in D |-> IF s = {} THEN 0 ELSE f[Pick(s)] + g[s \ {Pick(s)}]]
Small(k) == {s \in SUBSET Rows : Cardinality(s) <= k}

LEMMA PickSmaller ==
  ASSUME NEW s \in SUBSET Rows, s # {}
  PROVE  /\ Pick(s) \in s /\ s \ {Pick(s)} \in SUBSET Rows
         /\ Cardinality(s) \in Nat /\ Cardinality(s \ {Pick(s)}) = Cardinality(s) - 1
<1>1. Pick(s) \in s
  BY DEF Pick
<1>2. IsFiniteSet(s) /\ Cardinality(s) \in Nat
  BY Shape, FS_Subset, FS_CardinalityType
<1>3. QED
  BY <1>1, <1>2, FS_RemoveElement

LEMMA SmallSums ==
  ASSUME NEW f \in [Rows -> Int], NEW k \in Nat
  PROVE  \E g \in [Small(k) -> Int] : SumsOf(f, g, Small(k))
<1> DEFINE T == {j \in Nat : \E g \in [Small(j) -> Int] : SumsOf(f, g, Small(j))}
<1>1. 0 \in T
  <2> DEFINE g == [s \in Small(0) |-> 0]
  <2>1. \A s \in Small(0) : s = {}
    <3>1. ASSUME NEW s \in SUBSET Rows, Cardinality(s) <= 0
          PROVE  s = {}
      BY <3>1, PickSmaller, FS_Subset, Shape, FS_EmptySet, FS_CardinalityType
    <3>2. QED
      BY <3>1 DEF Small
  <2>2. g \in [Small(0) -> Int] /\ SumsOf(f, g, Small(0))
    BY <2>1 DEF SumsOf
  <2>3. QED
    BY <2>2
<1>2. ASSUME NEW j \in T
      PROVE  j + 1 \in T
  <2>1. PICK g \in [Small(j) -> Int] : SumsOf(f, g, Small(j))
    OBVIOUS
  <2> DEFINE h == [s \in Small(j + 1) |->
                     IF s = {} THEN 0 ELSE f[Pick(s)] + g[s \ {Pick(s)}]]
  <2>2. ASSUME NEW s \in Small(j + 1), s # {}
        PROVE  /\ f[Pick(s)] \in Int /\ s \ {Pick(s)} \in Small(j)
               /\ s \ {Pick(s)} \in Small(j + 1)
    BY <2>2, PickSmaller DEF Small
  <2>3. h \in [Small(j + 1) -> Int]
    BY <2>2
  <2>4. ASSUME NEW s \in Small(j)
        PROVE  h[s] = g[s]
    <3>1. s \in Small(j + 1)
      <4>1. s \in SUBSET Rows
        BY DEF Small
      <4>2. Cardinality(s) \in Nat
        BY <4>1, Shape, FS_Subset, FS_CardinalityType
      <4>3. QED
        BY <4>1, <4>2 DEF Small
    <3>2. g[s] = IF s = {} THEN 0 ELSE f[Pick(s)] + g[s \ {Pick(s)}]
      BY <2>1 DEF SumsOf
    <3>3. QED
      BY <3>1, <3>2
  <2>5. SumsOf(f, h, Small(j + 1))
    <3>1. ASSUME NEW s \in Small(j + 1), s # {}
          PROVE  g[s \ {Pick(s)}] = h[s \ {Pick(s)}]
      BY <2>2, <2>4, <3>1
    <3> DEFINE h2 == [s \in Small(j + 1) |->
                        IF s = {} THEN 0 ELSE f[Pick(s)] + h[s \ {Pick(s)}]]
    <3>2. \A s \in Small(j + 1) : h[s] = h2[s]
      BY <3>1
    <3>3. h = h2
      BY <3>2, Zenon
    <3>4. QED
      BY <3>3 DEF SumsOf
  <2> HIDE DEF h
  <2>6. j + 1 \in Nat
    OBVIOUS
  <2>7. QED
    BY <2>3, <2>5, <2>6
<1>3. T \in SUBSET Nat
  OBVIOUS
<1> HIDE DEF T
<1>4. T = Nat
  BY <1>1, <1>2, <1>3, Induct
<1>5. k \in T
  BY <1>4
<1>6. QED
  BY <1>5 DEF T

(* Induction along such a sum, one element less at a time.                 *)
LEMMA SumInduct ==
  ASSUME NEW S \in SUBSET Rows, NEW Good, {} \in Good,
         \A s \in SUBSET S : s # {} /\ s \ {Pick(s)} \in Good => s \in Good
  PROVE  S \in Good
<1> DEFINE Bad == {s \in SUBSET S : s \notin Good}
           V == {Cardinality(s) : s \in Bad}
<1> SUFFICES ASSUME S \in Bad PROVE FALSE
  OBVIOUS
<1>1. V \in SUBSET Nat /\ V # {}
  BY Shape, FS_Subset, FS_CardinalityType
<1>2. Min(V) \in V /\ \A v \in V : Min(V) <= v
  BY <1>1, Least
<1>3. PICK s \in Bad : Min(V) = Cardinality(s)
  BY <1>2
<1>4. \A t \in Bad : Cardinality(t) \in V
  OBVIOUS
<1>5. s # {} /\ s \in SUBSET Rows
  OBVIOUS
<1>6. /\ s \ {Pick(s)} \in SUBSET S
      /\ Cardinality(s) \in Nat /\ Cardinality(s \ {Pick(s)}) = Cardinality(s) - 1
  BY <1>5, PickSmaller
<1>7. s \ {Pick(s)} \in Bad
  BY <1>5, <1>6
<1> HIDE DEF Bad, V
<1>8. QED
  BY <1>2, <1>3, <1>4, <1>6, <1>7

(* What a sum is, over a set with something in it.                         *)
LEMMA SumMore ==
  ASSUME NEW f \in [Rows -> Int], NEW S \in SUBSET Rows, NEW g,
         SumsOf(f, g, SUBSET S), NEW s \in SUBSET S, s # {}
  PROVE  /\ g[s] = f[Pick(s)] + g[s \ {Pick(s)}]
         /\ f[Pick(s)] \in Int /\ s \ {Pick(s)} \in SUBSET S
  BY PickSmaller DEF SumsOf

LEMMA SumNone ==
  ASSUME NEW f, NEW S, NEW g, SumsOf(f, g, SUBSET S)
  PROVE  g[{}] = 0
<1>1. {} \in SUBSET S
  OBVIOUS
<1>2. QED
  BY <1>1 DEF SumsOf

(* Sums of the same values are the same, of opposite values opposite.      *)
LEMMA SumsSame ==
  ASSUME NEW f \in [Rows -> Int], NEW S \in SUBSET Rows,
         NEW g, NEW h, SumsOf(f, g, SUBSET S), SumsOf(f, h, SUBSET S)
  PROVE  h[S] = g[S]
<1> DEFINE Good == {s \in SUBSET S : h[s] = g[s]}
<1>1. {} \in Good
  BY SumNone
<1>2. ASSUME NEW s \in SUBSET S, s # {}, s \ {Pick(s)} \in Good
      PROVE  s \in Good
  <2>1. g[s] = f[Pick(s)] + g[s \ {Pick(s)}]
    BY <1>2 DEF SumsOf
  <2>2. h[s] = f[Pick(s)] + h[s \ {Pick(s)}]
    BY <1>2 DEF SumsOf
  <2>3. QED
    BY <1>2, <2>1, <2>2
<1>3. S \in Good
  BY <1>1, <1>2, SumInduct
<1>4. QED
  BY <1>3

LEMMA SumsOpposite ==
  ASSUME NEW f \in [Rows -> Int], NEW f2 \in [Rows -> Int],
         \A x \in Rows : f2[x] = -f[x], NEW S \in SUBSET Rows,
         NEW g \in [SUBSET S -> Int], NEW h,
         SumsOf(f, g, SUBSET S), SumsOf(f2, h, SUBSET S)
  PROVE  h[S] = -g[S]
<1> DEFINE Good == {s \in SUBSET S : h[s] = -g[s]}
<1>1. {} \in Good
  <2>1. g[{}] = 0 /\ h[{}] = 0
    BY SumNone
  <2>2. QED
    BY <2>1
<1>2. ASSUME NEW s \in SUBSET S, s # {}, s \ {Pick(s)} \in Good
      PROVE  s \in Good
  <2>1. /\ g[s] = f[Pick(s)] + g[s \ {Pick(s)}]
        /\ f[Pick(s)] \in Int /\ s \ {Pick(s)} \in SUBSET S
    BY <1>2, SumMore
  <2>2. h[s] = f2[Pick(s)] + h[s \ {Pick(s)}]
    BY <1>2, SumMore
  <2>3. f2[Pick(s)] = -f[Pick(s)]
    BY <1>2, PickSmaller
  <2>4. h[s \ {Pick(s)}] = -g[s \ {Pick(s)}] /\ g[s \ {Pick(s)}] \in Int
    BY <1>2, <2>1
  <2>5. QED
    BY <2>1, <2>2, <2>3, <2>4
<1>3. S \in Good
  BY <1>1, <1>2, SumInduct
<1>4. QED
  BY <1>3

Total(f, S) == FoldFunctionOnSet(+, 0, f, S)

(* The community module's fold is such a sum.                              *)
LEMMA TotalSums ==
  ASSUME NEW f \in [Rows -> Int], NEW S \in SUBSET Rows
  PROVE  \E g \in [SUBSET S -> Int] : SumsOf(f, g, SUBSET S) /\ Total(f, S) = g[S]
<1>1. PICK b \in [Small(M) -> Int] : SumsOf(f, b, Small(M))
  BY Shape, SmallSums
<1>2. SUBSET S \subseteq Small(M)
  <2>1. ASSUME NEW s \in SUBSET Rows
        PROVE  Cardinality(s) <= M
    BY Shape, FS_Subset
  <2>2. QED
    BY <2>1 DEF Small
<1> DEFINE g == [s \in SUBSET S |-> b[s]]
<1>3. g \in [SUBSET S -> Int]
  BY <1>1, <1>2
<1>4. SumsOf(f, g, SUBSET S)
  <2> DEFINE g2 == [s \in SUBSET S |->
                      IF s = {} THEN 0 ELSE f[Pick(s)] + g[s \ {Pick(s)}]]
  <2>1. ASSUME NEW s \in SUBSET S
        PROVE  g[s] = g2[s]
    <3>1. b[s] = IF s = {} THEN 0 ELSE f[Pick(s)] + b[s \ {Pick(s)}]
      BY <1>1, <1>2 DEF SumsOf
    <3>2. QED
      BY <3>1
  <2>2. g = g2
    BY <2>1, Zenon
  <2>3. QED
    BY <2>2 DEF SumsOf
<1> HIDE DEF g
<1> DEFINE it == CHOOSE e : SumsOf(f, e, SUBSET S)
<1>5. SumsOf(f, it, SUBSET S)
  BY <1>4
<1>6. Total(f, S) = it[S]
  BY DEF Total, FoldFunctionOnSet, MapThenFoldSet, SumsOf, Pick
<1> HIDE DEF it
<1>7. PICK e : SumsOf(f, e, SUBSET S) /\ Total(f, S) = e[S]
  BY <1>5, <1>6
<1>8. PICK d \in [SUBSET S -> Int] : SumsOf(f, d, SUBSET S)
  BY <1>3, <1>4
<1>9. e[S] = d[S]
  BY <1>7, <1>8, SumsSame
<1>10. QED
  BY <1>7, <1>8, <1>9

(* What min_sum_decode() adds up for a column: an integer, which changes   *)
(* its sign if all that is added does.                                     *)
LEMMA TotalNegates ==
  ASSUME NEW f \in [Rows -> Int], NEW f2 \in [Rows -> Int], NEW S \in SUBSET Rows,
         \A x \in Rows : f2[x] = -f[x]
  PROVE  Total(f, S) \in Int /\ Total(f2, S) = -Total(f, S)
<1>1. PICK g \in [SUBSET S -> Int] : SumsOf(f, g, SUBSET S) /\ Total(f, S) = g[S]
  BY TotalSums
<1>2. PICK h \in [SUBSET S -> Int] : SumsOf(f2, h, SUBSET S) /\ Total(f2, S) = h[S]
  BY TotalSums
<1>4. h[S] = -g[S]
  BY <1>1, <1>2, SumsOpposite
<1>5. g[S] \in Int
  OBVIOUS
<1>6. QED
  BY <1>1, <1>2, <1>4, <1>5

Strengths == [Cols -> Int]
Messages == [Rows -> [Cols -> Int]]

LEMMA BeliefTyped ==
  ASSUME NEW l \in Strengths, NEW m \in Messages, NEW S \in SUBSET Rows, NEW c \in Cols
  PROVE  Belief(l, m, S, c) \in Int
<1> DEFINE f == [x \in Rows |-> m[x][c]]
           f2 == [x \in Rows |-> -m[x][c]]
<1>1. \A x \in Rows : m[x][c] \in Int
  BY DEF Messages
<1>2. f \in [Rows -> Int] /\ f2 \in [Rows -> Int] /\ \A x \in Rows : f2[x] = -f[x]
  BY <1>1
<1>3. Belief(l, m, S, c) = l[c] + Total(f, S)
  BY DEF Belief, Total
<1> HIDE DEF f, f2
<1>4. Total(f, S) \in Int
  BY <1>2, TotalNegates
<1>5. l[c] \in Int
  BY DEF Strengths
<1>6. QED
  BY <1>3, <1>4, <1>5

(* A word's flip of strengths and messages flips the beliefs in its ones.  *)
LEMMA BeliefFlips ==
  ASSUME llr \in Strengths, NEW m \in Messages, NEW S \in SUBSET Rows, NEW c \in Cols,
         NEW w \in SUBSET Cols
  PROVE  Belief(FlipLlr(w), FlipMsg(m, w), S, c)
           = IF c \in w THEN -Belief(llr, m, S, c) ELSE Belief(llr, m, S, c)
<1> DEFINE f == [x \in Rows |-> m[x][c]]
           f2 == [x \in Rows |-> FlipMsg(m, w)[x][c]]
           l2 == FlipLlr(w)[c]
<1>1. \A x \in Rows : m[x][c] \in Int
  BY DEF Messages
<1>2. \A x \in Rows : f2[x] = IF c \in w THEN -f[x] ELSE f[x]
  BY DEF FlipMsg
<1>3. l2 = (IF c \in w THEN -llr[c] ELSE llr[c]) /\ llr[c] \in Int
  BY DEF FlipLlr, Strengths
<1>4. f \in [Rows -> Int] /\ f2 \in [Rows -> Int]
  BY <1>1, <1>2
<1>5. /\ Belief(llr, m, S, c) = llr[c] + Total(f, S)
      /\ Belief(FlipLlr(w), FlipMsg(m, w), S, c) = l2 + Total(f2, S)
  BY DEF Belief, Total
<1>6. CASE c \in w
  <2>1. \A x \in Rows : f2[x] = -f[x]
    BY <1>2, <1>6
  <2> HIDE DEF f, f2, l2
  <2>2. Total(f, S) \in Int /\ Total(f2, S) = -Total(f, S)
    BY <1>4, <2>1, TotalNegates
  <2>3. QED
    BY <1>3, <1>5, <1>6, <2>2
<1>7. CASE c \notin w
  <2>1. \A x \in Rows : f2[x] = f[x]
    BY <1>2, <1>7
  <2>2. f2 = f
    BY <2>1, Zenon
  <2> HIDE DEF f, f2, l2
  <2>3. QED
    BY <1>3, <1>5, <1>7, <2>2
<1>8. QED
  BY <1>6, <1>7

(* Zero has no sign.                                                       *)
LEMMA Unsigned ==
  ASSUME NEW k, k = 0
  PROVE  -k = k
<1>1. \A i \in Int : i <= 0 /\ i >= 0 => -i = i
  OBVIOUS
<1>2. k \in Int /\ k <= 0 /\ k >= 0
  OBVIOUS
<1>3. QED
  BY <1>1, <1>2, Zenon

-----------------------------------------------------------------------------
(* What a check tells a column.                                            *)
LEMMA FromCheckTyped ==
  ASSUME H0 \in [Rows -> SUBSET Cols], NEW l \in Strengths, NEW m \in Messages,
         NEW x \in Rows, NEW c \in Cols
  PROVE  FromCheck(l, m, x, c) \in Int
<1> DEFINE V == {Abs(ToCheck(l, m, x, d)) : d \in H0[x] \ {c}}
<1>1. \A d \in Cols : Abs(ToCheck(l, m, x, d)) \in Nat
  <2>1. \A d \in Cols : ToCheck(l, m, x, d) \in Int
    BY BeliefTyped DEF ToCheck
  <2>2. \A i \in Int : Abs(i) \in Nat
    BY DEF Abs
  <2>3. QED
    BY <2>1, <2>2
<1>2. V \in SUBSET Nat
  BY <1>1
<1>3. CASE V = {}
  <2>1. H0[x] \ {c} = {}
    BY <1>3
  <2>2. QED
    BY <2>1 DEF FromCheck
<1>4. CASE V # {}
  <2>1. Min(V) \in V
    BY <1>2, <1>4, Least
  <2>2. Min(V) \in Int /\ -Min(V) \in Int
    BY <1>2, <2>1
  <2>3. FromCheck(l, m, x, c) \in {0, Min(V), -Min(V)}
    BY DEF FromCheck, Magnitude
  <2>4. QED
    BY <2>2, <2>3
<1>5. QED
  BY <1>3, <1>4

LEMMA UpdatedTyped ==
  ASSUME H0 \in [Rows -> SUBSET Cols], NEW l \in Strengths, NEW m \in Messages, NEW x \in Rows
  PROVE  Updated(l, m, x) \in Messages
<1>1. [c \in Cols |-> IF c \in H0[x] THEN FromCheck(l, m, x, c) ELSE 0] \in [Cols -> Int]
  BY FromCheckTyped
<1>2. QED
  BY <1>1 DEF Updated, Messages

(* A codeword joins a check in an even number of columns, so it flips the  *)
(* signs of an odd number of the other columns exactly where it is one.    *)
(* If one of these says nothing (zero), so does the check.                 *)
LEMMA FromCheckFlips ==
  ASSUME H0 \in [Rows -> SUBSET Cols], llr \in Strengths, NEW m \in Messages,
         NEW x \in Rows, NEW c \in H0[x],
         NEW w \in SUBSET Cols, EvenCommon(H0[x], w)
  PROVE  FromCheck(FlipLlr(w), FlipMsg(m, w), x, c)
           = IF c \in w THEN -FromCheck(llr, m, x, c) ELSE FromCheck(llr, m, x, c)
<1> DEFINE others == H0[x] \ {c}
           B(d) == ToCheck(llr, m, x, d)
           F(d) == ToCheck(FlipLlr(w), FlipMsg(m, w), x, d)
           V == {Abs(B(d)) : d \in others}
           neg == {d \in others : B(d) < 0}
           neg2 == {d \in others : F(d) < 0}
           flips == others \cap w
<1>1. \A d \in others : d \in Cols
  OBVIOUS
<1>2. \A d \in others : B(d) \in Int /\ F(d) = IF d \in w THEN -B(d) ELSE B(d)
  BY <1>1, BeliefTyped, BeliefFlips DEF ToCheck
<1>3. \A d \in others : Abs(F(d)) = Abs(B(d)) /\ Abs(B(d)) \in Nat
  BY <1>2 DEF Abs
<1>4. {Abs(F(d)) : d \in others} = V
  BY <1>3
<1>5. FromCheck(llr, m, x, c) =
        IF others = {} THEN 0
        ELSE IF Cardinality(neg) % 2 = 0 THEN Min(V) ELSE -Min(V)
  BY DEF FromCheck, Signers, Magnitude
<1>6. FromCheck(FlipLlr(w), FlipMsg(m, w), x, c) =
        IF others = {} THEN 0
        ELSE IF Cardinality(neg2) % 2 = 0 THEN Min(V) ELSE -Min(V)
  <2>1. FromCheck(FlipLlr(w), FlipMsg(m, w), x, c) =
          IF others = {} THEN 0
          ELSE IF Cardinality(neg2) % 2 = 0 THEN Min({Abs(F(d)) : d \in others})
               ELSE -Min({Abs(F(d)) : d \in others})
    BY DEF FromCheck, Signers, Magnitude
  <2>2. QED
    BY <1>4, <2>1
<1>7. CASE others = {}
  <2> DEFINE G == FromCheck(llr, m, x, c)
  <2>1. FromCheck(FlipLlr(w), FlipMsg(m, w), x, c) = 0 /\ G = 0
    BY <1>5, <1>6, <1>7
  <2> HIDE DEF G
  <2>2. -G = G
    BY <2>1, Unsigned, Zenon
  <2>3. QED
    BY <2>1, <2>2, Zenon DEF G
<1>8. CASE others # {} /\ \E d \in others : B(d) = 0
  <2>1. V \in SUBSET Nat /\ V # {}
    BY <1>3, <1>8
  <2>2. 0 \in V
    BY <1>8 DEF Abs
  <2>3. Min(V) \in V /\ Min(V) <= 0
    BY <2>1, <2>2, Least
  <2>4. Min(V) = 0
    BY <2>1, <2>3
  <2> DEFINE G == FromCheck(llr, m, x, c)
  <2>5. -Min(V) = Min(V)
    BY <2>4, Unsigned, Zenon
  <2> HIDE DEF V, others, neg, neg2, B, F
  <2>6. FromCheck(FlipLlr(w), FlipMsg(m, w), x, c) = Min(V) /\ G = Min(V)
    BY <1>5, <1>6, <1>8, <2>5, Zenon
  <2> DEFINE least == Min(V)
  <2>7. -least = least
    BY <2>5, Zenon
  <2>8. FromCheck(FlipLlr(w), FlipMsg(m, w), x, c) = least /\ G = least
    BY <2>6, Zenon
  <2> HIDE DEF G, least
  <2>9. QED
    BY <2>7, <2>8, Zenon DEF G
<1>9. CASE others # {} /\ \A d \in others : B(d) # 0
  <2>1. V \in SUBSET Nat /\ V # {}
    BY <1>3, <1>9
  <2>2. Min(V) \in Int
    BY <2>1, Least
  <2>3. neg2 = Plus(neg, flips)
    BY <1>2, <1>9 DEF Plus
  <2>4. neg \in SUBSET Cols /\ flips \in SUBSET Cols
    BY <1>1
  <2>5. /\ Cardinality(neg) \in Nat /\ Cardinality(flips) \in Nat
        /\ Cardinality(neg2) % 2 = (Cardinality(neg) + Cardinality(flips)) % 2
        /\ Cardinality(neg2) \in Nat
    <3> HIDE DEF neg, neg2, flips
    <3>1. QED
      BY <2>3, <2>4, Shape, PlusParity
  <2>6. Cardinality(flips) % 2 = IF c \in w THEN 1 ELSE 0
    <3> DEFINE C == H0[x] \cap w
    <3>1. Cardinality(C) % 2 = 0
      BY DEF EvenCommon
    <3>2. IsFiniteSet(C) /\ Cardinality(C) \in Nat
      <4>1. C \in SUBSET Cols
        OBVIOUS
      <4>2. QED
        BY <4>1, Shape, FS_Subset, FS_CardinalityType
    <3>3. CASE c \in w
      <4>1. flips = C \ {c} /\ c \in C
        BY <3>3
      <4>2. Cardinality(flips) = Cardinality(C) - 1
        <5> HIDE DEF C, flips
        <5>1. QED
          BY <3>2, <4>1, FS_RemoveElement
      <4>3. \A j, k \in Nat : j % 2 = 0 /\ k = j - 1 => k % 2 = 1
        OBVIOUS
      <4> HIDE DEF C, flips
      <4>4. Cardinality(flips) % 2 = 1
        BY <2>5, <3>1, <3>2, <4>2, <4>3
      <4>5. QED
        BY <3>3, <4>4
    <3>4. CASE c \notin w
      <4>1. flips = C
        BY <3>4
      <4>2. QED
        BY <3>1, <3>4, <4>1
    <3>5. QED
      BY <3>3, <3>4
  <2> HIDE DEF neg, neg2, flips, V, others
  <2>7. Cardinality(neg2) % 2 = 0 <=> IF c \in w THEN Cardinality(neg) % 2 # 0
                                               ELSE Cardinality(neg) % 2 = 0
    BY <2>5, <2>6
  <2>8. QED
    BY <1>5, <1>6, <1>9, <2>2, <2>7
<1>10. QED
  BY <1>7, <1>8, <1>9

-----------------------------------------------------------------------------
(* The decoder's variables.                                                *)
DTyped ==
  /\ llr \in Strengths
  /\ msg \in Messages
  /\ q \in Rows

LEMMA DecoderInit == InitAll => DTyped
BY Shape DEF InitAll, InitDecoder, DTyped, Strengths, Messages, NoMessages, Rows

LEMMA DecoderStep ==
  ASSUME RInv, DTyped, [NextAll]_<<reduction, decoder>>
  PROVE  DTyped'
<1>1. Rows' = Rows /\ Strengths' = Strengths /\ Messages' = Messages
  BY DEF Rows, Strengths, Messages
<1>2. CASE SendWord
  <2>1. PICK info \in SUBSET InfoCols, noise \in Noises :
          llr' = [c \in Cols |-> IF c \in sent' THEN -noise[c] ELSE noise[c]]
    BY <1>2 DEF SendWord
  <2>2. noise \in [Cols -> Int]
    BY DecodeAssumption
  <2>3. llr' \in [Cols -> Int]
    BY <2>1, <2>2
  <2>4. QED
    BY <1>1, <1>2, <2>3 DEF SendWord, DTyped, Strengths
<1>3. CASE UpdateCheck
  <2>1. msg' \in Messages
    BY <1>3, UpdatedTyped DEF UpdateCheck, DTyped, RInv, RTyped
  <2>2. q' \in Rows
    <3>1. q \in 0 .. M - 1 /\ M \in Nat \ {0} /\ q' = (q + 1) % M
      BY <1>3, Shape DEF UpdateCheck, DTyped, Rows
    <3>2. (q + 1) % M \in 0 .. M - 1
      BY <3>1
    <3>3. QED
      BY <3>1, <3>2 DEF Rows
  <2>3. QED
    BY <1>1, <1>3, <2>1, <2>2 DEF UpdateCheck, DTyped
<1>4. CASE Decide \/ UNCHANGED decoder
  BY <1>1, <1>4 DEF Decide, decoder, DTyped
<1>5. QED
  BY <1>2, <1>3, <1>4 DEF NextAll

(* A pass over a check flips with a codeword.                              *)
LEMMA UpdatedFlips ==
  ASSUME H0 \in [Rows -> SUBSET Cols], llr \in Strengths, NEW m \in Messages,
         NEW x \in Rows, NEW w \in SUBSET Cols, InCode(H0, w)
  PROVE  Updated(FlipLlr(w), FlipMsg(m, w), x) = FlipMsg(Updated(llr, m, x), w)
<1> DEFINE new == [c \in Cols |-> IF c \in H0[x] THEN FromCheck(llr, m, x, c) ELSE 0]
           new2 == [c \in Cols |->
                      IF c \in H0[x] THEN FromCheck(FlipLlr(w), FlipMsg(m, w), x, c) ELSE 0]
           flip == [c \in Cols |-> IF c \in w THEN -new[c] ELSE new[c]]
<1>1. ASSUME NEW c \in Cols
      PROVE  new2[c] = flip[c]
  <2>1. CASE c \in H0[x]
    <3>1. EvenCommon(H0[x], w)
      BY DEF InCode
    <3>2. FromCheck(FlipLlr(w), FlipMsg(m, w), x, c)
            = IF c \in w THEN -FromCheck(llr, m, x, c) ELSE FromCheck(llr, m, x, c)
      BY <2>1, <3>1, FromCheckFlips
    <3>3. QED
      BY <2>1, <3>2
  <2>2. CASE c \notin H0[x]
    <3>1. new[c] = 0 /\ new2[c] = 0
      BY <2>2
    <3>2. flip[c] = IF c \in w THEN -new[c] ELSE new[c]
      OBVIOUS
    <3> HIDE DEF new, new2, flip
    <3>3. -new[c] = new[c]
      BY <3>1, Unsigned, Zenon
    <3>4. QED
      BY <3>1, <3>2, <3>3, Zenon
  <2>3. QED
    BY <2>1, <2>2
<1>2. new2 = flip
  BY <1>1, Zenon
<1>3. /\ Updated(llr, m, x) = [m EXCEPT ![x] = new]
      /\ Updated(FlipLlr(w), FlipMsg(m, w), x) = [FlipMsg(m, w) EXCEPT ![x] = new2]
  BY DEF Updated
<1> HIDE DEF new2
<1>4. FlipMsg(Updated(llr, m, x), w)
        = [y \in Rows |-> IF y = x THEN flip ELSE FlipMsg(m, w)[y]]
  <2>1. m = [y \in Rows |-> m[y]]
    BY DEF Messages
  <2>2. \A y \in Rows : [m EXCEPT ![x] = new][y] = IF y = x THEN new ELSE m[y]
    BY <2>1
  <2> HIDE DEF new
  <2>3. QED
    BY <1>3, <2>2 DEF FlipMsg
<1>5. [FlipMsg(m, w) EXCEPT ![x] = new2]
        = [y \in Rows |-> IF y = x THEN new2 ELSE FlipMsg(m, w)[y]]
  BY DEF FlipMsg
<1>6. QED
  BY <1>2, <1>3, <1>4, <1>5

LEMMA FlipsAgree ==
  ASSUME RInv, DTyped
  PROVE  CodewordsAlike
<1> SUFFICES ASSUME NEW w \in Codewords
             PROVE  /\ Updated(FlipLlr(w), FlipMsg(msg, w), q)
                          = FlipMsg(Updated(llr, msg, q), w)
                    /\ Plus(Hard(FlipLlr(w), FlipMsg(msg, w)), Plus(Hard(llr, msg), w))
                          \subseteq {c \in Cols : Belief(llr, msg, Rows, c) = 0}
  BY DEF CodewordsAlike
<1>1. /\ H0 \in [Rows -> SUBSET Cols] /\ llr \in Strengths /\ msg \in Messages /\ q \in Rows
      /\ InCode(H0, w) /\ w \in SUBSET Cols
  <2>1. PICK info \in SUBSET InfoCols : w = Encode(info)
    BY DEF Codewords
  <2>2. \A j \in 1 .. Len(piv) : piv[j] \in Cols
    BY DEF RInv, RTyped
  <2>3. w \in SUBSET Cols
    BY <2>1, <2>2 DEF Encode, InfoCols
  <2>4. QED
    BY <2>3 DEF DTyped, RInv, RTyped, Codewords
<1>2. Updated(FlipLlr(w), FlipMsg(msg, w), q) = FlipMsg(Updated(llr, msg, q), w)
  BY <1>1, UpdatedFlips
<1>3. ASSUME NEW c \in Plus(Hard(FlipLlr(w), FlipMsg(msg, w)), Plus(Hard(llr, msg), w))
      PROVE  c \in Cols /\ Belief(llr, msg, Rows, c) = 0
  <2>1. c \in Cols
    BY <1>1 DEF Plus, Hard
  <2> DEFINE B == Belief(llr, msg, Rows, c)
             F == Belief(FlipLlr(w), FlipMsg(msg, w), Rows, c)
  <2>2. B \in Int /\ F = IF c \in w THEN -B ELSE B
    BY <1>1, <2>1, BeliefTyped, BeliefFlips
  <2>3. /\ c \in Hard(llr, msg) <=> B < 0
        /\ c \in Hard(FlipLlr(w), FlipMsg(msg, w)) <=> F < 0
    BY <2>1 DEF Hard
  <2> HIDE DEF B, F
  <2>4. ~(F < 0 <=> ~(B < 0 <=> c \in w))
    BY <1>3, <2>3 DEF Plus
  <2>5. B = 0
    BY <2>2, <2>4
  <2>6. QED
    BY <2>1, <2>5 DEF B
<1>4. QED
  BY <1>2, <1>3

(* min_sum_decode() treats all codewords of a code alike, for every        *)
(* matrix, every noise and every number of passes: selftest()'s one random *)
(* word speaks for all.                                                    *)
THEOREM AllWordsAlike == SpecAll => []CodewordsAlike
<1>1. RInv /\ DTyped /\ [NextAll]_<<reduction, decoder>> => DTyped'
  BY DecoderStep
<1>2. RInv /\ DTyped => CodewordsAlike
  BY FlipsAgree
<1>3. QED
  BY <1>1, <1>2, DecoderInit, RunsReduction, ReductionInvariant, PTL DEF SpecAll

-----------------------------------------------------------------------------
(* A weak error.  By UpdatedFlips the decoder may be followed as if the    *)
(* word sent were zero, with the strengths l and messages m flipped by it: *)
(* then a value is right if it is not negative.  Only column e is misread, *)
(* by a, if any is; the others are at least twice as strong, and more if   *)
(* there is a misread column or if a tie would be decided against them.    *)
(* NotWrong stands for e if all columns are right.                         *)
NotWrong == -1

WeakAt(l, e, a) ==
  /\ \A d \in Cols \ {e} :
       l[d] >= 2 * a /\ (d \in sent \/ e \in Cols => l[d] > 2 * a)
  /\ e \in Cols => l[e] = -a

(* The first check that joins column e to another one.  It is the only one *)
(* that may be misled, and what it tells e outweighs the error.            *)
Joins(x, e) == e \in H0[x] /\ H0[x] # {e}
FirstJoin(x, e) == Joins(x, e) /\ \A y \in Rows : y < x => ~Joins(y, e)

(* The messages in the first pass, when the first k checks are updated.    *)
Leaning(m, e, a, k) ==
  \A x \in Rows :
    /\ \A c \in Cols : m[x][c] >= IF FirstJoin(x, e) /\ c # e THEN -a ELSE 0
    /\ FirstJoin(x, e) /\ x < k => m[x][e] > 2 * a
    /\ x >= k => \A c \in Cols : m[x][c] = 0

LEMMA FirstJoinUnique ==
  ASSUME NEW e, NEW x \in Rows, NEW y \in Rows, FirstJoin(x, e), FirstJoin(y, e)
  PROVE  x = y
<1>1. x \in Int /\ y \in Int
  BY DEF Rows
<1>2. ~(x < y) /\ ~(y < x)
  BY DEF FirstJoin
<1>3. QED
  BY <1>1, <1>2

LEMMA FirstJoinFound ==
  ASSUME NEW e, NEW x \in Rows, Joins(x, e)
  PROVE  \E y \in Rows : y <= x /\ FirstJoin(y, e)
<1> DEFINE V == {y \in Rows : Joins(y, e)}
<1>1. V \in SUBSET Nat /\ V # {}
  BY DEF Rows
<1>2. Min(V) \in V /\ \A v \in V : Min(V) <= v
  BY <1>1, Least
<1>3. \A y \in Rows : y < Min(V) => ~Joins(y, e)
  BY <1>1, <1>2
<1>4. QED
  BY <1>2, <1>3 DEF FirstJoin

(* Sums of values that are not negative, but for one of them.              *)
LEMMA TotalAtLeast ==
  ASSUME NEW f \in [Rows -> Int], NEW S \in SUBSET Rows, NEW y, NEW b \in Int,
         \A x \in S : f[x] >= IF x = y THEN b ELSE 0
  PROVE  Total(f, S) \in Int /\ Total(f, S) >= IF y \in S THEN b ELSE 0
<1>1. PICK g \in [SUBSET S -> Int] : SumsOf(f, g, SUBSET S) /\ Total(f, S) = g[S]
  BY TotalSums
<1> DEFINE Good == {s \in SUBSET S : g[s] >= IF y \in s THEN b ELSE 0}
<1>2. {} \in Good
  <2>1. g[{}] = 0
    BY <1>1, SumNone
  <2>2. QED
    BY <2>1
<1>3. ASSUME NEW s \in SUBSET S, s # {}, s \ {Pick(s)} \in Good
      PROVE  s \in Good
  <2> DEFINE p == Pick(s)
             t == s \ {p}
  <2>1. g[s] = f[p] + g[t] /\ f[p] \in Int /\ t \in SUBSET S
    BY <1>1, <1>3, SumMore
  <2>2. p \in s /\ p \in S
    BY <1>3, PickSmaller
  <2>3. f[p] >= IF p = y THEN b ELSE 0
    BY <2>2
  <2>4. g[t] \in Int /\ g[s] \in Int
    BY <1>1, <2>1
  <2>5. g[t] >= IF y \in t THEN b ELSE 0
    BY <1>3
  <2>6. y \in t <=> y \in s /\ y # p
    OBVIOUS
  <2> HIDE DEF p, t
  <2>7. g[s] >= IF y \in s THEN b ELSE 0
    <3>1. CASE p = y
      BY <2>1, <2>2, <2>3, <2>4, <2>5, <2>6, <3>1
    <3>2. CASE p # y /\ y \in s
      BY <2>1, <2>3, <2>4, <2>5, <2>6, <3>2
    <3>3. CASE p # y /\ y \notin s
      BY <2>1, <2>3, <2>4, <2>5, <2>6, <3>3
    <3>4. QED
      BY <3>1, <3>2, <3>3
  <2>8. QED
    BY <2>7
<1> HIDE DEF Good
<1>4. S \in Good
  BY <1>2, <1>3, SumInduct
<1>5. g[S] \in Int /\ g[S] >= IF y \in S THEN b ELSE 0
  BY <1>1, <1>4 DEF Good
<1>6. QED
  BY <1>1, <1>5

LEMMA BeliefAtLeast ==
  ASSUME NEW l \in Strengths, NEW m \in Messages, NEW S \in SUBSET Rows, NEW c \in Cols,
         NEW y, NEW b \in Int, \A x \in S : m[x][c] >= IF x = y THEN b ELSE 0
  PROVE  /\ Belief(l, m, S, c) \in Int /\ l[c] \in Int
         /\ Belief(l, m, S, c) >= l[c] + IF y \in S THEN b ELSE 0
<1> DEFINE f == [x \in Rows |-> m[x][c]]
<1>1. f \in [Rows -> Int] /\ l[c] \in Int
  BY DEF Messages, Strengths
<1>2. \A x \in S : f[x] >= IF x = y THEN b ELSE 0
  OBVIOUS
<1>3. Belief(l, m, S, c) = l[c] + Total(f, S)
  BY DEF Belief, Total
<1> HIDE DEF f
<1>4. Total(f, S) \in Int /\ Total(f, S) >= IF y \in S THEN b ELSE 0
  BY <1>1, <1>2, TotalAtLeast
<1>5. QED
  BY <1>1, <1>3, <1>4

(* A check tells a column nothing wrong if none of its other columns does, *)
(* and is wrong by no more than any of them is sure.                       *)
LEMMA CheckTells ==
  ASSUME H0 \in [Rows -> SUBSET Cols], NEW l \in Strengths, NEW m \in Messages,
         NEW x \in Rows, NEW c \in Cols, NEW k \in Nat
  PROVE  /\ H0[x] \ {c} = {} => FromCheck(l, m, x, c) = 0
         /\ H0[x] \ {c} # {} /\ (\A d \in H0[x] \ {c} : ToCheck(l, m, x, d) >= k)
              => FromCheck(l, m, x, c) >= k
         /\ \A d \in H0[x] \ {c} :
              ToCheck(l, m, x, d) >= -k /\ ToCheck(l, m, x, d) <= k
                => FromCheck(l, m, x, c) >= -k
<1> DEFINE others == H0[x] \ {c}
           B(d) == ToCheck(l, m, x, d)
           V == {Abs(B(d)) : d \in others}
           neg == {d \in others : B(d) < 0}
           F == FromCheck(l, m, x, c)
<1>1. others = {} => F = 0
  BY DEF FromCheck
<1>2. others # {} => F = IF Cardinality(neg) % 2 = 0 THEN Min(V) ELSE -Min(V)
  BY DEF FromCheck, Signers, Magnitude
<1>3. \A d \in others : B(d) \in Int
  BY BeliefTyped DEF ToCheck
<1>4. \A d \in others : Abs(B(d)) \in Nat
  BY <1>3 DEF Abs
<1>5. others # {} => Min(V) \in Nat /\ Min(V) \in V /\ \A v \in V : Min(V) <= v
  <2>1. V \in SUBSET Nat
    BY <1>4
  <2>2. others # {} => V # {}
    OBVIOUS
  <2>3. QED
    BY <2>1, <2>2, Least
<1>6. ASSUME others # {}, \A d \in others : B(d) >= k
      PROVE  F >= k
  <2>1. neg = {}
    BY <1>3, <1>6
  <2>2. Cardinality(neg) % 2 = 0
    <3>1. Cardinality({}) = 0 /\ 0 % 2 = 0
      BY FS_EmptySet
    <3>2. QED
      BY <2>1, <3>1
  <2>3. F = Min(V)
    BY <1>2, <1>6, <2>2
  <2>4. PICK d \in others : Min(V) = Abs(B(d))
    BY <1>5, <1>6
  <2>5. Abs(B(d)) >= k
    BY <1>3, <1>6 DEF Abs
  <2>6. QED
    BY <2>3, <2>4, <2>5
<1>7. ASSUME NEW d \in others, B(d) >= -k, B(d) <= k
      PROVE  F >= -k
  <2>1. others # {} /\ Abs(B(d)) \in V
    OBVIOUS
  <2>2. Abs(B(d)) <= k /\ Abs(B(d)) \in Nat
    BY <1>3, <1>4, <1>7 DEF Abs
  <2>3. Min(V) \in Nat /\ Min(V) <= k
    <3>1. Min(V) \in Nat /\ Min(V) <= Abs(B(d))
      BY <1>5, <2>1
    <3> HIDE DEF V, B
    <3>2. QED
      BY <2>2, <3>1
  <2>4. F = Min(V) \/ F = -Min(V)
    BY <1>2, <2>1
  <2> HIDE DEF F, V
  <2>5. F >= -k
    BY <2>3, <2>4
  <2>6. QED
    BY <2>5
<1>8. QED
  BY <1>1, <1>6, <1>7

(* What the columns believe meanwhile.                                     *)
LEMMA LeaningBeliefs ==
  ASSUME NEW l \in Strengths, NEW m \in Messages, NEW e, NEW a \in Nat, NEW k \in 0 .. M,
         Leaning(m, e, a, k), NEW S \in SUBSET Rows, NEW c \in Cols
  PROVE  /\ l[c] \in Int /\ Belief(l, m, S, c) \in Int
         /\ c # e => Belief(l, m, S, c) >= l[c] - a
         /\ c # e /\ (\A x \in S : ~FirstJoin(x, e)) => Belief(l, m, S, c) >= l[c]
         /\ c = e => Belief(l, m, S, c) >= l[c]
         /\ c = e /\ (\E x \in S : FirstJoin(x, e) /\ x < k)
              => Belief(l, m, S, c) > l[c] + 2 * a
<1> DEFINE B == Belief(l, m, S, c)
<1>1. l[c] \in Int /\ B \in Int
  BY BeliefTyped DEF Strengths
<1>2. \A x \in S : m[x][c] \in Int /\ m[x][c] >= IF FirstJoin(x, e) /\ c # e THEN -a ELSE 0
  BY DEF Leaning, Messages
<1>3. ASSUME c = e \/ \A x \in S : ~FirstJoin(x, e)
      PROVE  B >= l[c]
  <2> DEFINE b == 0
  <2>1. b \in Int /\ \A x \in S : m[x][c] >= IF x = c THEN b ELSE 0
    BY <1>2, <1>3
  <2> HIDE DEF b
  <2>2. B >= l[c] + IF c \in S THEN b ELSE 0
    BY <2>1, BeliefAtLeast
  <2> HIDE DEF B
  <2>3. QED
    BY <1>1, <2>2 DEF b
<1>4. ASSUME c # e
      PROVE  B >= l[c] - a
  <2>1. CASE \E y \in S : FirstJoin(y, e)
    <3>1. PICK y \in S : FirstJoin(y, e)
      BY <2>1
    <3>2. \A x \in S : x # y => ~FirstJoin(x, e)
      BY <3>1, FirstJoinUnique
    <3>3. -a \in Int
      OBVIOUS
    <3>4. \A x \in S : m[x][c] >= IF x = y THEN -a ELSE 0
      BY <1>2, <3>2
    <3>5. B >= l[c] + IF y \in S THEN -a ELSE 0
      BY <3>3, <3>4, BeliefAtLeast
    <3> HIDE DEF B
    <3>6. QED
      BY <1>1, <3>5
  <2>2. CASE ~ \E y \in S : FirstJoin(y, e)
    <3>1. B >= l[c]
      BY <1>3, <2>2
    <3> HIDE DEF B
    <3>2. QED
      BY <1>1, <3>1
  <2>3. QED
    BY <2>1, <2>2
<1>5. ASSUME c = e, NEW y \in S, FirstJoin(y, e), y < k
      PROVE  B > l[c] + 2 * a
  <2> DEFINE b == 2 * a + 1
  <2>1. b \in Int
    OBVIOUS
  <2>2. m[y][c] > 2 * a
    BY <1>5 DEF Leaning
  <2>3. \A x \in S : m[x][c] >= IF x = y THEN b ELSE 0
    BY <1>2, <1>5, <2>2
  <2> HIDE DEF b
  <2>4. B >= l[c] + IF y \in S THEN b ELSE 0
    BY <2>1, <2>3, BeliefAtLeast
  <2> HIDE DEF B
  <2>5. QED
    BY <1>1, <2>4 DEF b
<1>6. QED
  BY <1>1, <1>3, <1>4, <1>5

(* One check more: what it tells each column.                              *)
LEMMA LeaningCheck ==
  ASSUME H0 \in [Rows -> SUBSET Cols], NEW l \in Strengths, NEW m \in Messages,
         NEW e, NEW a \in Nat, NEW k \in Rows, WeakAt(l, e, a), Leaning(m, e, a, k),
         NEW c \in H0[k]
  PROVE  /\ FromCheck(l, m, k, c) >= IF FirstJoin(k, e) /\ c # e THEN -a ELSE 0
         /\ FirstJoin(k, e) /\ c = e => FromCheck(l, m, k, c) > 2 * a
<1> DEFINE S == Rows \ {k}
           others == H0[k] \ {c}
           B(d) == ToCheck(l, m, k, d)
           F == FromCheck(l, m, k, c)
<1>1. /\ k \in 0 .. M /\ k \in Int /\ c \in Cols /\ S \in SUBSET Rows
      /\ \A d \in others : d \in Cols
  BY Shape DEF Rows
<1>2. F \in Int
  BY <1>1, FromCheckTyped
<1>3. ASSUME NEW d \in Cols
      PROVE  /\ l[d] \in Int /\ B(d) \in Int
             /\ d # e => B(d) >= l[d] - a
             /\ d # e /\ (\A x \in S : ~FirstJoin(x, e)) => B(d) >= l[d]
             /\ d = e => B(d) >= l[d]
             /\ d = e /\ (\E x \in S : FirstJoin(x, e) /\ x < k) => B(d) > l[d] + 2 * a
  BY <1>1, LeaningBeliefs DEF ToCheck
<1>4. \A d \in Cols : d # e => l[d] >= 2 * a /\ (e \in Cols => l[d] > 2 * a)
  BY DEF WeakAt
<1>5. e \in Cols => l[e] = -a
  BY DEF WeakAt
<1>6. CASE FirstJoin(k, e)
  <2>1. \A x \in S : ~FirstJoin(x, e)
    BY <1>6, FirstJoinUnique
  <2>2. e \in H0[k] /\ H0[k] # {e} /\ e \in Cols
    BY <1>6 DEF FirstJoin, Joins
  <2>3. CASE c = e
    <3> DEFINE j == 2 * a + 1
    <3>1. others # {} /\ j \in Nat
      BY <2>2, <2>3
    <3>2. \A d \in others : B(d) >= j
      <4> SUFFICES ASSUME NEW d \in others PROVE B(d) >= j
        OBVIOUS
      <4>1. d \in Cols /\ d # e
        BY <1>1, <2>3
      <4>2. B(d) >= l[d] /\ l[d] > 2 * a /\ l[d] \in Int /\ B(d) \in Int
        BY <1>3, <1>4, <2>1, <2>2, <4>1
      <4> HIDE DEF B
      <4>3. QED
        BY <4>2
    <3> HIDE DEF j
    <3>3. F >= j
      BY <1>1, <3>1, <3>2, CheckTells
    <3> HIDE DEF F
    <3>4. F > 2 * a /\ F >= 0
      BY <1>2, <3>3 DEF j
    <3>5. QED
      BY <2>3, <3>4 DEF F
  <2>4. CASE c # e
    <3>1. e \in others
      BY <2>2, <2>4
    <3>2. B(e) \in Int /\ B(e) >= -a
      BY <1>3, <1>5, <2>2
    <3>3. F >= -a
      <4>1. CASE B(e) <= a
        BY <1>1, <3>1, <3>2, <4>1, CheckTells
      <4>2. CASE B(e) > a
        <5>1. \A d \in others : B(d) >= 0
          <6> SUFFICES ASSUME NEW d \in others PROVE B(d) >= 0
            OBVIOUS
          <6>1. CASE d = e
            <7> HIDE DEF B
            <7>1. QED
              BY <3>2, <4>2, <6>1
          <6>2. CASE d # e
            <7>1. B(d) >= l[d] /\ l[d] >= 2 * a /\ l[d] \in Int /\ B(d) \in Int
              BY <1>1, <1>3, <1>4, <2>1, <6>2
            <7> HIDE DEF B
            <7>2. QED
              BY <7>1
          <6>3. QED
            BY <6>1, <6>2
        <5>2. F >= 0
          BY <1>1, <3>1, <5>1, CheckTells
        <5> HIDE DEF F
        <5>3. QED
          BY <1>2, <5>2
      <4>3. QED
        BY <3>2, <4>1, <4>2
    <3>4. QED
      BY <1>6, <2>4, <3>3
  <2>5. QED
    BY <2>3, <2>4
<1>7. CASE ~FirstJoin(k, e)
  <2>1. CASE others = {}
    <3>1. F = 0
      BY <1>1, <2>1, CheckTells
    <3>2. QED
      BY <1>7, <3>1
  <2>2. CASE others # {}
    <3>1. ASSUME NEW d \in others
          PROVE  B(d) >= 0
      <4>1. d \in Cols /\ d \in H0[k]
        BY <1>1
      <4>2. CASE d # e
        <5>1. B(d) >= l[d] - a /\ l[d] >= 2 * a /\ l[d] \in Int /\ B(d) \in Int
          BY <1>3, <1>4, <4>1, <4>2
        <5> HIDE DEF B
        <5>2. QED
          BY <5>1
      <4>3. CASE d = e
        <5>1. Joins(k, e)
          BY <4>1, <4>3 DEF Joins
        <5>2. PICK y \in Rows : y <= k /\ FirstJoin(y, e)
          BY <5>1, FirstJoinFound
        <5>3. y # k /\ y \in S /\ y < k
          <6>1. y # k
            BY <1>7, <5>2
          <6>2. y \in Int
            BY DEF Rows
          <6>3. QED
            BY <1>1, <5>2, <6>1, <6>2
        <5>4. B(d) > l[d] + 2 * a /\ l[d] = -a /\ l[d] \in Int /\ B(d) \in Int
          BY <1>3, <1>5, <4>1, <4>3, <5>2, <5>3
        <5> HIDE DEF B
        <5>5. QED
          BY <5>4
      <4>4. QED
        BY <4>2, <4>3
    <3>2. F >= 0
      BY <1>1, <2>2, <3>1, CheckTells
    <3>3. QED
      BY <1>7, <3>2
  <2>3. QED
    BY <2>1, <2>2
<1>8. QED
  BY <1>6, <1>7

LEMMA LeaningStep ==
  ASSUME H0 \in [Rows -> SUBSET Cols], NEW l \in Strengths, NEW m \in Messages,
         NEW e, NEW a \in Nat, NEW k \in Rows, WeakAt(l, e, a), Leaning(m, e, a, k)
  PROVE  Leaning(Updated(l, m, k), e, a, k + 1)
<1> DEFINE new == [c \in Cols |-> IF c \in H0[k] THEN FromCheck(l, m, k, c) ELSE 0]
           m2 == Updated(l, m, k)
<1>1. \A x \in Rows : m2[x] = IF x = k THEN new ELSE m[x]
  BY DEF Updated, Messages
<1>2. ASSUME NEW x \in Rows, x = k
      PROVE  /\ \A c \in Cols : new[c] >= IF FirstJoin(x, e) /\ c # e THEN -a ELSE 0
             /\ FirstJoin(x, e) => new[e] > 2 * a
  <2>1. ASSUME NEW c \in Cols
        PROVE  new[c] >= IF FirstJoin(k, e) /\ c # e THEN -a ELSE 0
    <3>1. CASE c \in H0[k]
      BY <3>1, LeaningCheck
    <3>2. CASE c \notin H0[k]
      BY <3>2
    <3>3. QED
      BY <3>1, <3>2
  <2>2. ASSUME FirstJoin(k, e)
        PROVE  new[e] > 2 * a
    <3>1. e \in H0[k] /\ e \in Cols
      BY <2>2 DEF FirstJoin, Joins
    <3>2. FromCheck(l, m, k, e) > 2 * a
      BY <2>2, <3>1, LeaningCheck
    <3>3. QED
      BY <3>1, <3>2
  <2> HIDE DEF new
  <2>3. QED
    BY <1>2, <2>1, <2>2
<1> HIDE DEF new, m2
<1>3. ASSUME NEW x \in Rows
      PROVE  /\ \A c \in Cols : m2[x][c] >= IF FirstJoin(x, e) /\ c # e THEN -a ELSE 0
             /\ FirstJoin(x, e) /\ x < k + 1 => m2[x][e] > 2 * a
             /\ x >= k + 1 => \A c \in Cols : m2[x][c] = 0
  <2>1. x \in Int /\ k \in Int
    BY DEF Rows
  <2>2. CASE x = k
    BY <1>1, <1>2, <2>1, <2>2
  <2>3. CASE x # k
    <3>1. m2[x] = m[x]
      BY <1>1, <2>3
    <3>2. (x < k + 1 => x < k) /\ (x >= k + 1 => x >= k)
      BY <2>1, <2>3
    <3>3. QED
      BY <3>1, <3>2 DEF Leaning
  <2>4. QED
    BY <2>2, <2>3
<1>4. QED
  BY <1>3 DEF Leaning, m2

(* The invariant: a codeword is on its way, and if a weak error is all that*)
(* happened to it, one pass is enough.                                     *)
CodeSent ==
  /\ sent \in SUBSET Cols
  /\ step # "encode" => H0 \in Codes /\ InCode(H0, sent)

OnePass(e, a) ==
  /\ step = "check" => Leaning(FlipMsg(msg, sent), e, a, q)
  /\ step = "decide" => Leaning(FlipMsg(msg, sent), e, a, M)
  /\ step = "over" => dec = sent

Correcting ==
  /\ step = "encode" => msg = NoMessages /\ q = 0
  /\ step # "encode" =>
       \A e \in Cols \cup {NotWrong} : \A a \in Nat :
         WeakAt(FlipLlr(sent), e, a) => OnePass(e, a)

(* Flipped strengths and messages are strengths and messages.              *)
LEMMA FlipsTyped ==
  ASSUME DTyped, sent \in SUBSET Cols
  PROVE  FlipLlr(sent) \in Strengths /\ FlipMsg(msg, sent) \in Messages
BY DEF DTyped, FlipLlr, FlipMsg, Strengths, Messages

(* After a whole pass the hard decision is the word sent.                  *)
LEMMA PassDecides ==
  ASSUME RInv, DTyped, CodeSent, H0 \in Codes,
         NEW e \in Cols \cup {NotWrong}, NEW a \in Nat,
         WeakAt(FlipLlr(sent), e, a), Leaning(FlipMsg(msg, sent), e, a, M)
  PROVE  Hard(llr, msg) = sent
<1> DEFINE l == FlipLlr(sent)
           m == FlipMsg(msg, sent)
<1>1. l \in Strengths /\ m \in Messages /\ sent \in SUBSET Cols
  BY FlipsTyped DEF CodeSent
<1>2. llr \in Strengths /\ msg \in Messages
  BY DEF DTyped
<1>3. ASSUME NEW c \in Cols
      PROVE  Belief(llr, msg, Rows, c) < 0 <=> c \in sent
  <2> DEFINE B == Belief(l, m, Rows, c)
             own == Belief(llr, msg, Rows, c)
  <2>1. own \in Int /\ B = IF c \in sent THEN -own ELSE own
    BY <1>1, <1>2, BeliefTyped, BeliefFlips
  <2>2. M \in 0 .. M /\ Rows \in SUBSET Rows
    BY Shape
  <2>3. /\ l[c] \in Int /\ B \in Int
        /\ c # e => B >= l[c] - a
        /\ c = e /\ (\E x \in Rows : FirstJoin(x, e) /\ x < M) => B > l[c] + 2 * a
    BY <1>1, <2>2, LeaningBeliefs
  <2>4. B >= 0 /\ (c \in sent => B > 0)
    <3>1. CASE c # e
      <4>1. l[c] >= 2 * a /\ (c \in sent => l[c] > 2 * a)
        BY <3>1 DEF WeakAt
      <4>2. B >= l[c] - a
        BY <2>3, <3>1
      <4> HIDE DEF B, l
      <4>3. QED
        BY <2>3, <4>1, <4>2
    <3>2. CASE c = e
      <4>1. l[c] = -a
        BY <3>2 DEF WeakAt
      <4>2. PICK x \in Rows : Joins(x, e)
        BY <3>2, DecodeAssumption DEF Joins
      <4>3. PICK y \in Rows : FirstJoin(y, e)
        BY <4>2, FirstJoinFound
      <4>4. y < M
        BY Shape DEF Rows
      <4>5. B > l[c] + 2 * a
        BY <2>3, <3>2, <4>3, <4>4
      <4> HIDE DEF B, l
      <4>6. QED
        BY <2>3, <4>1, <4>5
    <3>3. QED
      BY <3>1, <3>2
  <2> HIDE DEF B, own
  <2>5. own < 0 <=> c \in sent
    BY <2>1, <2>4
  <2>6. QED
    BY <2>5 DEF own
<1>4. QED
  BY <1>1, <1>3 DEF Hard

LEMMA CorrectingInit == InitAll => CodeSent /\ Correcting
BY DEF InitAll, InitDecoder, CodeSent, Correcting

LEMMA CorrectingStep ==
  ASSUME RInv, DTyped, CodeSent, Correcting, [NextAll]_<<reduction, decoder>>
  PROVE  CodeSent' /\ Correcting'
<1>1. H0 \in [Rows -> SUBSET Cols] /\ llr \in Strengths /\ msg \in Messages /\ q \in Rows
  BY DEF RInv, RTyped, DTyped
<1>2. CASE SendWord /\ UNCHANGED reduction
  <2>1. PICK info \in SUBSET InfoCols : InCode(H0, Encode(info)) /\ sent' = Encode(info)
    BY <1>2 DEF SendWord
  <2>2. sent' \in SUBSET Cols
    <3>1. \A j \in 1 .. Len(piv) : piv[j] \in Cols
      BY DEF RInv, RTyped
    <3>2. QED
      BY <2>1, <3>1 DEF Encode, InfoCols
  <2>3. /\ H0' = H0 /\ H0 \in Codes /\ step = "encode" /\ step' = "check"
        /\ msg' = NoMessages /\ q' = 0
    BY <1>2 DEF SendWord, reduction, Correcting
  <2>4. CodeSent'
    BY <2>1, <2>2, <2>3 DEF CodeSent, InCode
  <2>5. ASSUME NEW x \in Rows, NEW c \in Cols
        PROVE  FlipMsg(msg', sent')[x][c] = 0
    <3> DEFINE z == msg'[x][c]
    <3>1. z = 0
      BY <2>3 DEF NoMessages
    <3>2. FlipMsg(msg', sent')[x][c] = IF c \in sent' THEN -z ELSE z
      BY DEF FlipMsg
    <3> HIDE DEF z
    <3>3. -z = z
      BY <3>1, Unsigned
    <3>4. QED
      BY <3>1, <3>2, <3>3, Zenon
  <2>6. ASSUME NEW e, NEW a \in Nat
        PROVE  Leaning(FlipMsg(msg, sent), e, a, q)'
    <3> DEFINE m == FlipMsg(msg', sent')
    <3>1. \A x \in Rows : \A c \in Cols : m[x][c] = 0
      BY <2>5
    <3>2. \A x \in Rows : ~(x < q')
      BY <2>3 DEF Rows
    <3> HIDE DEF m
    <3>3. \A x \in Rows :
            /\ \A c \in Cols : m[x][c] >= IF FirstJoin(x, e)' /\ c # e THEN -a ELSE 0
            /\ FirstJoin(x, e)' /\ x < q' => m[x][e] > 2 * a
            /\ x >= q' => \A c \in Cols : m[x][c] = 0
      BY <3>1, <3>2
    <3>4. QED
      BY <3>3 DEF Leaning, m
  <2>7. QED
    BY <2>3, <2>4, <2>6 DEF Correcting, OnePass
<1>3. CASE UpdateCheck /\ UNCHANGED reduction
  <2>1. /\ step = "check" /\ H0' = H0 /\ sent' = sent /\ llr' = llr
        /\ msg' = Updated(llr, msg, q) /\ q' = (q + 1) % M
        /\ step' = (IF q + 1 = M THEN "decide" ELSE "check")
    BY <1>3 DEF UpdateCheck, reduction
  <2>2. sent \in SUBSET Cols /\ InCode(H0, sent) /\ CodeSent'
    BY <2>1 DEF CodeSent, InCode
  <2>3. FlipMsg(msg, sent)' = Updated(FlipLlr(sent), FlipMsg(msg, sent), q)
    <3>1. FlipMsg(Updated(llr, msg, q), sent) = Updated(FlipLlr(sent), FlipMsg(msg, sent), q)
      BY <1>1, <2>2, UpdatedFlips
    <3>2. FlipMsg(msg, sent)' = FlipMsg(Updated(llr, msg, q), sent)
      BY <2>1 DEF FlipMsg
    <3>3. QED
      BY <3>1, <3>2
  <2>4. q + 1 # M => q' = q + 1
    <3>1. q \in 0 .. M - 1 /\ M \in Nat \ {0}
      BY <1>1, Shape DEF Rows
    <3>2. q + 1 # M => (q + 1) % M = q + 1
      BY <3>1
    <3>3. QED
      BY <2>1, <3>2
  <2>5. ASSUME NEW e \in Cols \cup {NotWrong}, NEW a \in Nat, WeakAt(FlipLlr(sent), e, a)'
        PROVE  OnePass(e, a)'
    <3>1. WeakAt(FlipLlr(sent), e, a)
      BY <2>1, <2>5 DEF WeakAt, FlipLlr
    <3>2. Leaning(FlipMsg(msg, sent), e, a, q)
      BY <2>1, <3>1 DEF Correcting, OnePass
    <3>3. Leaning(FlipMsg(msg, sent)', e, a, q + 1)
      BY <1>1, <2>2, <2>3, <3>1, <3>2, FlipsTyped, LeaningStep
    <3> DEFINE m2 == FlipMsg(msg, sent)'
    <3>4. \A k : Leaning(m2, e, a, k) => Leaning(FlipMsg(msg, sent), e, a, k)'
      BY <2>1 DEF Leaning, FirstJoin, Joins
    <3>5. QED
      BY <2>1, <2>4, <3>3, <3>4 DEF OnePass
  <2>6. QED
    BY <2>1, <2>2, <2>5 DEF Correcting
<1>4. CASE Decide /\ UNCHANGED reduction
  <2>1. /\ step = "decide" /\ H0' = H0 /\ sent' = sent /\ llr' = llr
        /\ dec' = Hard(llr, msg)
        /\ step' = (IF InCode(H0, dec') \/ iter = Iters THEN "over" ELSE "check")
    BY <1>4 DEF Decide, reduction
  <2>2. H0 \in Codes /\ InCode(H0, sent) /\ CodeSent'
    BY <2>1 DEF CodeSent, InCode
  <2>3. ASSUME NEW e \in Cols \cup {NotWrong}, NEW a \in Nat, WeakAt(FlipLlr(sent), e, a)'
        PROVE  OnePass(e, a)'
    <3>1. WeakAt(FlipLlr(sent), e, a)
      BY <2>1, <2>3 DEF WeakAt, FlipLlr
    <3>2. Leaning(FlipMsg(msg, sent), e, a, M)
      BY <2>1, <3>1 DEF Correcting, OnePass
    <3>3. dec' = sent
      BY <2>1, <2>2, <3>1, <3>2, PassDecides
    <3>4. step' = "over"
      BY <2>1, <2>2, <3>3
    <3>5. QED
      BY <2>1, <3>3, <3>4 DEF OnePass
  <2>4. step' # "encode"
    BY <2>1
  <2>5. QED
    BY <2>2, <2>3, <2>4 DEF Correcting
<1>5. CASE UNCHANGED <<H0, decoder>>
  BY <1>5 DEF decoder, CodeSent, Correcting, OnePass, WeakAt, Leaning, FirstJoin, Joins,
    FlipLlr, FlipMsg, InCode
<1>6. QED
  BY <1>2, <1>3, <1>4, <1>5 DEF NextAll, ReduceRow, SkipRow, Reduced, reduction

(* If at most one column is misread, and weakly, the strengths are weak.   *)
LEMMA WeakFound ==
  ASSUME DTyped, CodeSent, Cardinality({c \in Cols : Misread(c)}) <= 1,
         \A c, d \in Cols : Misread(c) /\ ~Misread(d) => 2 * Abs(llr[c]) < Abs(llr[d])
  PROVE  \E e \in Cols \cup {NotWrong} : \E a \in Nat : WeakAt(FlipLlr(sent), e, a)
<1> DEFINE l == FlipLlr(sent)
           Wrong == {c \in Cols : Misread(c)}
<1>1. ASSUME NEW c \in Cols
      PROVE  /\ l[c] \in Int
             /\ Misread(c) => l[c] = -Abs(llr[c]) /\ Abs(llr[c]) \in Nat
             /\ ~Misread(c) => l[c] = Abs(llr[c]) /\ l[c] >= 0 /\ (c \in sent => l[c] > 0)
  <2>1. l[c] = (IF c \in sent THEN -llr[c] ELSE llr[c]) /\ llr[c] \in Int
    BY DEF FlipLlr, DTyped, Strengths
  <2> HIDE DEF l
  <2>2. QED
    BY <2>1 DEF Misread, Abs
<1>2. CASE Wrong = {}
  <2>1. \A d \in Cols : ~Misread(d)
    BY <1>2
  <2>2. NotWrong \notin Cols
    BY DEF NotWrong, Cols
  <2>3. ASSUME NEW d \in Cols
        PROVE  l[d] >= 2 * 0 /\ (d \in sent => l[d] > 2 * 0)
    BY <1>1, <2>1
  <2>4. WeakAt(l, NotWrong, 0)
    BY <2>2, <2>3 DEF WeakAt
  <2>5. QED
    BY <2>4
<1>3. CASE Wrong # {}
  <2>1. PICK e \in Cols : Misread(e)
    BY <1>3
  <2> DEFINE a == Abs(llr[e])
  <2>2. l[e] = -a /\ a \in Nat
    BY <1>1, <2>1
  <2>3. ASSUME NEW d \in Cols \ {e}
        PROVE  ~Misread(d)
    <3> SUFFICES ASSUME Misread(d) PROVE FALSE
      OBVIOUS
    <3>1. IsFiniteSet(Wrong)
      BY Shape, FS_Subset
    <3>2. {e} \cup {d} \in SUBSET Wrong
      BY <2>1
    <3>3. Cardinality({e} \cup {d}) = 2
      <4>1. IsFiniteSet({e}) /\ Cardinality({e}) = 1
        BY FS_Singleton
      <4>2. Cardinality({e} \cup {d}) = 1 + 1
        BY <4>1, FS_AddElement
      <4>3. QED
        BY <4>2
    <3>4. Cardinality({e} \cup {d}) <= Cardinality(Wrong) /\ Cardinality(Wrong) \in Nat
      BY <3>1, <3>2, FS_Subset, FS_CardinalityType
    <3>5. Cardinality(Wrong) <= 1
      OBVIOUS
    <3> DEFINE k == Cardinality(Wrong)
    <3>6. k \in Nat /\ 2 <= k /\ k <= 1
      BY <3>3, <3>4, <3>5, Zenon
    <3> HIDE DEF k
    <3>7. QED
      BY <3>6
  <2>4. ASSUME NEW d \in Cols \ {e}
        PROVE  l[d] >= 2 * a /\ l[d] > 2 * a
    <3>1. l[d] = Abs(llr[d]) /\ l[d] \in Int /\ 2 * a < Abs(llr[d])
      BY <1>1, <2>1, <2>3
    <3> HIDE DEF l, a
    <3>2. QED
      BY <2>2, <3>1
  <2>5. WeakAt(l, e, a)
    BY <2>2, <2>4 DEF WeakAt
  <2>6. QED
    BY <2>2, <2>5
<1>4. QED
  BY <1>2, <1>3

(* A word with at most one misread column, whose strength is less than half*)
(* that of any other, is recovered: for every matrix, codeword and number  *)
(* of passes, and for strengths of any size.  One pass of min_sum_decode() *)
(* is enough, because each check sees what the earlier ones have sent.     *)
THEOREM WeakErrorsCorrected == SpecAll => []WeakErrorCorrected
<1>1. ASSUME DTyped, CodeSent, Correcting
      PROVE  WeakErrorCorrected
  <2> SUFFICES ASSUME step = "over",
                      Cardinality({c \in Cols : Misread(c)}) <= 1,
                      \A c, d \in Cols :
                        Misread(c) /\ ~Misread(d) => 2 * Abs(llr[c]) < Abs(llr[d])
               PROVE  dec = sent
    BY DEF WeakErrorCorrected
  <2>1. PICK e \in Cols \cup {NotWrong}, a \in Nat : WeakAt(FlipLlr(sent), e, a)
    BY <1>1, WeakFound
  <2>2. OnePass(e, a)
    BY <1>1, <2>1 DEF Correcting
  <2>3. QED
    BY <2>2 DEF OnePass
<1>2. RInv /\ DTyped /\ [NextAll]_<<reduction, decoder>> => DTyped'
  BY DecoderStep
<1>3. RInv /\ DTyped /\ CodeSent /\ Correcting /\ [NextAll]_<<reduction, decoder>>
        => CodeSent' /\ Correcting'
  BY CorrectingStep
<1>4. QED
  BY <1>1, <1>2, <1>3, DecoderInit, CorrectingInit, RunsReduction, ReductionInvariant, PTL
    DEF SpecAll
=============================================================================
