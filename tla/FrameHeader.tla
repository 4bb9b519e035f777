----------------------------- MODULE FrameHeader -----------------------------
(***************************************************************************)
(* The signalling of the frames of FrameLayout, bit by bit: L-SIG, HT-SIG, *)
(* VHT-SIG-A and VHT-SIG-B, with the parity and the CRC that protect them, *)
(* and what a receiver can tell about a frame from these alone.  A field   *)
(* is the set of the positions of its ones.                                *)
(***************************************************************************)
EXTENDS FrameLayout, FiniteSets

Ones(value, first, width) ==
  {first + i : i \in {j \in 0 .. width - 1 : (value \div 2^j) % 2 = 1}}

(* build_sig_bits().                                                       *)
LSigParity(bits) == bits \cap (0 .. 16)
LSigBits ==
  LET bits == Ones(11, 0, 4) \cup Ones(LSigLen, 5, 12)
  IN  bits \cup {b \in {17} : Cardinality(LSigParity(bits)) % 2 = 1}

(* ht_sig_crc8(): a register of eight bits, polynomial 0x07.               *)
Crc8Step(c, b) ==
  LET shifted == (2 * c) % 256
  IN  IF (b + c \div 128) % 2 = 0 THEN shifted
      ELSE (shifted - (shifted % 8)) + (7 - (shifted % 8))

(* The bits it is taken over; the faulty variant stops one short.          *)
CheckedShort == 0 .. 32
Checked == 0 .. 33

Crc8(bits) ==
  LET c[j \in 0 .. 34] ==
        IF j = 0 THEN 255
        ELSE IF j - 1 \notin Checked THEN c[j - 1]
        ELSE Crc8Step(c[j - 1], IF j - 1 \in bits THEN 1 ELSE 0)
  IN  255 - c[34]

(* MSB first, after the bits it protects; the tail bits are zero.          *)
WithCrc(bits) ==
  bits \cup {34 + i : i \in {j \in 0 .. 7 : (Crc8(bits) \div 2^(7 - j)) % 2 = 1}}

Mcs == Cardinality({d \in Rates(fmt) : d < dbps}) + (IF fmt = "mimo" THEN 8 ELSE 0)

(* hsig of the gen_ht* functions.  In the faulty variant the length field  *)
(* begins a bit early, over CBW.                                           *)
HtLengthEarly == Ones(len, 7, 16)
HtLength == Ones(len, 8, 16)

HtSig ==
  WithCrc(Ones(Mcs, 0, 7) \cup HtLength
            \cup {b \in {7} : fmt = "ht40"}
            \cup {b \in {28} : fmt = "stbc"}
            \cup {b \in {30} : fmt = "ldpc"})

(* vht_sig_a_bits() for one stream: reserved bits 2, 23 and 33.            *)
VhtSigA == WithCrc({2, 23, 33} \cup Ones(Mcs, 28, 4))

(* vht_sig_b_bits_20(): the length in units of four octets.                *)
VhtSigB == Ones((len + 3) \div 4, 0, 17) \cup {17, 18, 19}

(* Are the two symbols after the L-SIG rotated (QBPSK)?  Data and the rest *)
(* are not.                                                                *)
Rotation ==
  CASE fmt = "legacy" -> <<FALSE, FALSE>>
    [] fmt \in {"ht", "ht40", "mimo", "stbc", "ldpc"} -> <<TRUE, TRUE>>
    [] fmt = "vht" -> <<FALSE, TRUE>>

(* The family that a receiver takes the rotation for.                      *)
SeenLegacy == Rotation = <<FALSE, FALSE>>
SeenHt == Rotation = <<TRUE, TRUE>>
SeenVht == Rotation = <<FALSE, TRUE>>

-----------------------------------------------------------------------------
(* The receiver (external), which knows of the frame these fields only.    *)
Read(bits, first, width) ==
  LET v[j \in 0 .. width] ==
        IF j = 0 THEN 0 ELSE v[j - 1] + (IF first + j - 1 \in bits THEN 2^(j - 1) ELSE 0)
  IN  v[width]

CrcHolds(bits) == WithCrc(bits \cap (0 .. 33)) = bits

RxDbps(mcs, table) ==
  CHOOSE d \in table : Cardinality({d2 \in table : d2 < d}) = mcs

RxHtSyms ==
  LET mcs == Read(HtSig, 0, 7)
      rate == RxDbps(mcs % 8, IF 7 \in HtSig THEN Dbps40 ELSE Dbps20)
      bits == 16 + 8 * Read(HtSig, 8, 16) + 6
  IN  IF 30 \in HtSig THEN Ceil(648, 2 * rate)
      ELSE IF 28 \in HtSig THEN 2 * Ceil(bits, 2 * rate)
      ELSE Ceil(bits, (mcs \div 8 + 1) * rate)

RxVhtSyms ==
  Ceil(16 + 8 * (4 * Read(VhtSigB, 0, 17)) + 6, RxDbps(Read(VhtSigA, 28, 4), Dbps20))

-----------------------------------------------------------------------------
(* What the fields of each family say of the data symbols that follow.     *)
(* VHT-SIG-B rounds the length up, and the count it yields (its docstring, *)
(* "derives the data symbol count") may be one too many for a length that  *)
(* is no multiple of four.                                                 *)
LegacyAgrees == Ceil(16 + 8 * Read(LSigBits, 5, 12) + 6, 24) = n - NHeader
HtAgrees == CrcHolds(HtSig) /\ RxHtSyms = n - NHeader
VhtAgrees ==
  /\ CrcHolds(VhtSigA)
  /\ RxVhtSyms - (n - NHeader) \in IF len % 4 = 0 THEN {0} ELSE {0, 1}

(* The header describes the frame that was built: with parity and CRC in   *)
(* order, rotation and fields yield the number of data symbols that follow.*)
(* gen_ht_ldpc() writes the MCS it is given but always sends BPSK symbols: *)
(* its header is right for MCS 0 only.                                     *)
HeaderTellsFrame ==
  n = NHeader + NSym /\ (fmt = "ldpc" => Mcs = 0) =>
    /\ Cardinality(LSigBits) % 2 = 0
    /\ SeenLegacy => LegacyAgrees
    /\ SeenHt => HtAgrees
    /\ SeenVht => VhtAgrees

(* The CRC is taken over every bit and in an order in which its polynomial *)
(* works: no one or two wrong bits in a header, CRC included, go unnoticed.*)
(* A run asks it at the slowest rate of each format and before the data.   *)
Flip(bits, e) == (bits \ e) \cup (e \ bits)
ErrorsSeen(sig) == \A a, b \in 0 .. 41 : ~CrcHolds(Flip(sig, {a, b}))
HeaderErrorsSeen ==
  n = NSig /\ NSig = 3 /\ Mcs % 8 = 0 =>
    ErrorsSeen(IF fmt = "vht" THEN VhtSigA ELSE HtSig)
=============================================================================
