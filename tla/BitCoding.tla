------------------------------ MODULE BitCoding ------------------------------
(***************************************************************************)
(* The bits of a data field in tools_gen_wifi.py, one at a time: scramble, *)
(* the reset of the six tail bits, conv_encode and puncture, with the      *)
(* descrambler of ldpc_data_selftest beside them.  Two PSDUs of one length *)
(* pass the coder in step, and the coded bits in which they differ are     *)
(* counted; the descrambler reads the scrambled bits of the first.         *)
(*                                                                         *)
(* A shift register is the set of its bits that are 1.                     *)
(***************************************************************************)
EXTENDS Integers, FiniteSets, Puncturing

CONSTANTS
  PsduBits,    \* 8 * len(psdu)
  Seeds,       \* initial scrambler states (0x5d is {0, 2, 3, 4, 6})
  Rates        \* [num, dbps]: code rate num/(num+1), data bits per symbol

Registers == SUBSET (0 .. 6)
Bit == 0 .. 1

ASSUME CodingAssumption ==
  /\ PsduBits \in Nat \ {0}
  /\ Seeds \subseteq Registers
  /\ Rates \subseteq [num : {1, 2, 3, 5}, dbps : Nat \ {0}]

VARIABLES
  rate,
  seed,
  n,          \* data bits handled
  lfsr,       \* the scrambler's register
  enc,        \* the coder's register, for each of the two PSDUs
  differ,     \* have the two PSDUs differed?
  dist,       \* coded and transmitted bits in which they have, up to MaxDist
  descr,      \* the descrambler's register
  read        \* the data bit scrambled last, and what the descrambler made of it

vars == <<rate, seed, n, lfsr, enc, differ, dist, descr, read>>

Pair == {1, 2}
MaxDist == 10
Service == 16
TailAt == Service + PsduBits
NSym == (TailAt + 6 + rate.dbps - 1) \div rate.dbps
NBits == NSym * rate.dbps

Init ==
  /\ rate \in Rates
  /\ seed \in Seeds
  /\ n = 0
  /\ lfsr = seed
  /\ enc = [m \in Pair |-> {}]
  /\ differ = FALSE
  /\ dist = 0
  /\ descr = {}
  /\ read = [sent |-> 0, got |-> 0]

Parity(R) == Cardinality(R) % 2
Xor(a, b) == (a + b) % 2
Shift(R, b) == {k + 1 : k \in R \ {6}} \cup (IF b = 1 THEN {0} ELSE {})

(* The feedback of scramble(); the faulty variant has another tap.         *)
FeedbackTap(R) == Parity(R \cap {6, 4})
Feedback(R) == Parity(R \cap {6, 3})

(* The two outputs of conv_encode(), state & 0155 and state & 0117; in the *)
(* faulty variant the second mask is taken for the first again.            *)
CodedTwice(R) == <<Parity(R \cap {0, 2, 3, 5, 6}), Parity(R \cap {0, 2, 3, 5, 6})>>
Coded(R) == <<Parity(R \cap {0, 2, 3, 5, 6}), Parity(R \cap {0, 1, 2, 3, 6})>>

(* Of the two bits coded for data bit n, those that are transmitted and    *)
(* differ when the registers are A and B.                                  *)
Differing(A, B) ==
  {o \in {1, 2} : /\ (2 * n + o - 1) % (2 * rate.num) \notin Dropped(rate.num)
                  /\ Coded(A)[o] # Coded(B)[o]}

(* One data bit through the scrambler and the coder.  s is the bit the     *)
(* coder gets for each PSDU.                                               *)
CodeBit(s) ==
  /\ n' = n + 1
  /\ lfsr' = Shift(lfsr, Feedback(lfsr))
  /\ enc' = [m \in Pair |-> Shift(enc[m], s[m])]
  /\ LET d == dist + Cardinality(Differing(enc'[1], enc'[2]))
     IN  dist' = IF d > MaxDist THEN MaxDist ELSE d
  /\ UNCHANGED <<rate, seed>>

(* The descrambler: the first seven bits seed its register, from the       *)
(* highest bit down; then it runs like the scrambler.  Faulty variant: the *)
(* register is filled from the lowest bit up.                              *)
DescrambleUpwards(received) ==
  IF n < 7
  THEN /\ descr' = IF received = 1 THEN descr \cup {n} ELSE descr
       /\ UNCHANGED read
  ELSE /\ descr' = Shift(descr, Feedback(descr))
       /\ read' = [sent |-> Xor(received, Feedback(lfsr)),
                   got |-> Xor(received, Feedback(descr))]

Descramble(received) ==
  IF n < 7
  THEN /\ descr' = IF received = 1 THEN descr \cup {6 - n} ELSE descr
       /\ UNCHANGED read
  ELSE /\ descr' = Shift(descr, Feedback(descr))
       /\ read' = [sent |-> Xor(received, Feedback(lfsr)),
                   got |-> Xor(received, Feedback(descr))]

Scrambled(d) == Xor(Feedback(lfsr), d)

ServiceBit ==
  /\ n < Service
  /\ CodeBit([m \in Pair |-> Scrambled(0)])
  /\ Descramble(Scrambled(0))
  /\ UNCHANGED differ

PsduBit ==
  /\ Service <= n /\ n < TailAt
  /\ \E d \in [Pair -> Bit] :
       /\ CodeBit([m \in Pair |-> Scrambled(d[m])])
       /\ Descramble(Scrambled(d[1]))
       /\ differ' = (differ \/ d[1] # d[2])

(* The tail is zero after scrambling; in the faulty variant, before it.    *)
TailBitScrambled ==
  /\ TailAt <= n /\ n < TailAt + 6
  /\ CodeBit([m \in Pair |-> Scrambled(0)])
  /\ UNCHANGED <<differ, descr, read>>

TailBit ==
  /\ TailAt <= n /\ n < TailAt + 6
  /\ CodeBit([m \in Pair |-> 0])
  /\ UNCHANGED <<differ, descr, read>>

PadBit ==
  /\ TailAt + 6 <= n /\ n < NBits
  /\ CodeBit([m \in Pair |-> Scrambled(0)])
  /\ UNCHANGED <<differ, descr, read>>

Finished == n = NBits /\ UNCHANGED vars

Next == ServiceBit \/ PsduBit \/ TailBit \/ PadBit \/ Finished

Spec == Init /\ [][Next]_vars

-----------------------------------------------------------------------------
(* POLARITY, the places where it is -1.                                    *)
Negative == {
  4, 5, 6, 8, 9, 10, 11, 14, 16, 17, 20, 23, 30, 34, 37, 38, 42, 44, 45, 46, 48,
  50, 51, 53, 54, 60, 61, 64, 65, 67, 69, 72, 73, 74, 77, 78, 79, 80, 82, 83, 85,
  90, 92, 94, 96, 97, 98, 99, 100, 102, 105, 107, 111, 112, 114, 115, 116, 120,
  121, 122, 123, 124, 125, 126 }

(* The descrambler recovers the SERVICE and PSDU bits whatever the seed,   *)
(* which it is never told (ldpc_data_selftest, "descramble (seed from      *)
(* first 7 bits) -> recover PSDU bytes").                                  *)
DescrambleRecovers == read.got = read.sent

(* The tail terminates the code (comment of gen_legacy, "so the conv       *)
(* encoder terminates to state 0"): after it nothing of the PSDU is left   *)
(* in the coder's memory, and the pad is the same for every PSDU.          *)
TailTerminates ==
  /\ n = TailAt + 6 => \A m \in Pair : enc[m] \subseteq {6}
  /\ n > TailAt + 6 => enc[1] = enc[2]

(* Different PSDUs stay apart: the transmitted bits of their frames differ *)
(* in at least the free distance of the 802.11 code at the rate, so the    *)
(* generators, the puncturing pattern and its phase fit together.          *)
FreeDistance ==
  n >= TailAt + 6 /\ differ =>
    dist >= CASE rate.num = 1 -> 10 [] rate.num = 2 -> 6
              [] rate.num = 3 -> 5 [] rate.num = 5 -> 4

(* The POLARITY table is the scrambler's output for the all-ones seed, of  *)
(* period 127; the table and scramble() are written down independently.    *)
PolarityIsKeystream ==
  seed = 0 .. 6 => (Feedback(lfsr) = 1 <=> n % 127 \in Negative)
=============================================================================
