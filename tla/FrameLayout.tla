----------------------------- MODULE FrameLayout -----------------------------
(***************************************************************************)
(* The frames tools_gen_wifi.py builds, OFDM symbol by OFDM symbol: how    *)
(* many data symbols a PSDU takes, how long the L-SIG says the frame is,   *)
(* and which entry of the pilot polarity sequence each symbol uses.  What  *)
(* the symbols carry is the subject of StreamMap.                          *)
(***************************************************************************)
EXTENDS Integers, Sequences

CONSTANTS
  Formats,     \* the gen_* functions under study
  Lengths      \* PSDU lengths in octets, FCS included

AllFormats == {"legacy", "ht", "ht40", "mimo", "vht", "stbc", "ldpc"}

ASSUME FrameAssumption ==
  /\ Formats \subseteq AllFormats
  /\ Lengths \subseteq Nat

(* n_dbps of HT_MCS and HT_MCS40.  One LDPC codeword of 324 information    *)
(* bits holds SERVICE and a PSDU of at most 38 octets.                     *)
Dbps20 == {26, 52, 78, 104, 156, 208, 234, 260}
Dbps40 == {54, 108, 162, 216, 324, 432, 486, 540}
Rates(f) == IF f = "legacy" THEN {24} ELSE IF f = "ht40" THEN Dbps40 ELSE Dbps20
Fits(f, l) == f = "ldpc" => 16 + 8 * l <= 324

VARIABLES
  fmt,     \* the format
  dbps,    \* n_dbps (per stream)
  len,     \* PSDU length
  n,       \* symbols appended after the L-STF and L-LTF
  pol      \* polarity index of the last symbol with pilots

vars == <<fmt, dbps, len, n, pol>>

Init ==
  /\ fmt \in Formats
  /\ dbps \in Rates(fmt)
  /\ len \in {l \in Lengths : Fits(fmt, l)}
  /\ n = 0
  /\ pol = 126

-----------------------------------------------------------------------------
(* SERVICE, PSDU and tail, in symbols.                                     *)
Ceil(a, b) == (a + b - 1) \div b

Even(s) == s + (s % 2)         \* Alamouti works on symbol pairs

NSym ==
  CASE fmt \in {"legacy", "ht", "ht40", "vht"} -> Ceil(16 + 8 * len + 6, dbps)
    [] fmt = "mimo" -> Ceil(16 + 8 * len + 6, 2 * dbps)
    [] fmt = "stbc" -> Even(Ceil(16 + 8 * len + 6, dbps))
    [] fmt = "ldpc" -> Ceil(648, 52)

(* The length put into the L-SIG, and what its 12 bits keep of it; the     *)
(* faulty variant leaves less room for the symbols before the data.        *)
AnnouncedShort(l, least) == IF l + 15 > least THEN l + 15 ELSE least
Announced(l, least) == IF l + 16 > least THEN l + 16 ELSE least

LSigLen ==
  CASE fmt = "legacy" -> len
    [] fmt \in {"ht", "mimo", "vht", "stbc"} -> Announced(len, 40)
    [] fmt \in {"ht40", "ldpc"} -> Announced(len, 60)
LSigField == LSigLen % 4096

(* Symbols before the data: the SIG symbols, then the unpiloted STF and    *)
(* LTFs, then VHT-SIG-B.                                                   *)
NSig == IF fmt = "legacy" THEN 1 ELSE 3
NTraining ==
  CASE fmt = "legacy" -> 0
    [] fmt \in {"ht", "ht40", "vht", "ldpc"} -> 2
    [] fmt \in {"mimo", "stbc"} -> 3
NSigB == IF fmt = "vht" THEN 1 ELSE 0
NHeader == NSig + NTraining + NSigB

(* The sym_idx given for data symbol 0, and what is taken off it to index  *)
(* POLARITY.  The faulty variant lets STBC start at 7 like its siblings.   *)
FirstDataSeven == CASE fmt = "legacy" -> 3 [] fmt = "vht" -> 8 [] fmt \notin {"legacy", "vht"} -> 7
FirstData ==
  CASE fmt = "legacy" -> 3
    [] fmt \in {"ht", "ht40", "ldpc", "mimo"} -> 7
    [] fmt \in {"vht", "stbc"} -> 8
PolarityOffset ==
  CASE fmt \in {"legacy", "mimo"} -> 2
    [] fmt \in {"ht", "ht40", "ldpc", "vht"} -> 4
    [] fmt = "stbc" -> 5

-----------------------------------------------------------------------------
Append1 == n' = n + 1 /\ UNCHANGED <<fmt, dbps, len>>

(* L-SIG, HT-SIG or VHT-SIG-A: sym_idx 2, 3 and 4.                         *)
SigSymbol ==
  /\ n < NSig
  /\ pol' = ((2 + n) - 2) % 127
  /\ Append1

TrainingSymbol ==
  /\ NSig <= n /\ n < NSig + NTraining
  /\ UNCHANGED pol
  /\ Append1

SigBSymbol ==
  /\ NSig + NTraining <= n /\ n < NHeader
  /\ pol' = (7 - 2) % 127
  /\ Append1

(* Faulty variant of DataSymbol: the loop runs once too often.             *)
DataSymbolTooMany ==
  /\ NHeader <= n /\ n <= NHeader + NSym
  /\ pol' = (FirstData + (n - NHeader) - PolarityOffset) % 127
  /\ Append1

DataSymbol ==
  /\ NHeader <= n /\ n < NHeader + NSym
  /\ pol' = (FirstData + (n - NHeader) - PolarityOffset) % 127
  /\ Append1

Finished == n = NHeader + NSym /\ UNCHANGED vars

Next == SigSymbol \/ TrainingSymbol \/ SigBSymbol \/ DataSymbol \/ Finished

Spec == Init /\ [][Next]_vars

-----------------------------------------------------------------------------
(* Type correctness: what is being built never outgrows its plan.          *)
TypeOK ==
  /\ fmt \in AllFormats
  /\ dbps \in Rates(fmt)
  /\ len \in {l \in Lengths : Fits(fmt, l)}
  /\ n \in 0 .. NHeader + NSym
  /\ pol \in 0 .. 126

(* The length a legacy receiver reads from the L-SIG, at 6 Mbps, covers    *)
(* every symbol that follows it (comments of gen_ht, "length large enough  *)
(* to cover the HT frame", and gen_vht, "must cover the whole VHT PPDU").  *)
LSigCovers == n - 1 <= Ceil(16 + 8 * LSigField + 6, 24)

(* The pilots of the legacy, HT, STBC and LDPC frames run through the      *)
(* polarity sequence without a gap or a repetition from the L-SIG to the   *)
(* last data symbol, however many training symbols come between.           *)
PolarityAdvances ==
  [][fmt \notin {"mimo", "vht"} /\ (n < NSig \/ (NHeader <= n /\ n' > n))
       => pol' = (pol + 1) % 127]_vars

=============================================================================
