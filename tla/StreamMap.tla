------------------------------ MODULE StreamMap ------------------------------
(***************************************************************************)
(* How tools_gen_wifi.py carries the convolutional coder's output to the   *)
(* tones of its OFDM symbols (puncturing, stream parsing, interleaving,    *)
(* tone mapping), and the way back that mimo_selftest and stbc_selftest    *)
(* take.  Every stage moves bits without looking at them, so the state is  *)
(* where each coded bit is, not its value: what holds of the places holds  *)
(* for every frame.  Indices start at 0, as in the code.                   *)
(***************************************************************************)
EXTENDS Integers, FiniteSets, Puncturing

CONSTANT MaxSyms        \* most OFDM symbols in a frame

ASSUME StreamAssumption == MaxSyms \in Nat \ {0}

(* n_bpsc, code rate, n_cbps and n_dbps per stream.                        *)
Rate(bpsc, num, den, cbps, dbps) ==
  [bpsc |-> bpsc, num |-> num, den |-> den, cbps |-> cbps, dbps |-> dbps]

HT_MCS == {
  Rate(1, 1, 2,  52,  26), Rate(2, 1, 2, 104,  52), Rate(2, 3, 4, 104,  78),
  Rate(4, 1, 2, 208, 104), Rate(4, 3, 4, 208, 156), Rate(6, 2, 3, 312, 208),
  Rate(6, 3, 4, 312, 234), Rate(6, 5, 6, 312, 260) }

HT_MCS40 == {
  Rate(1, 1, 2, 108,  54), Rate(2, 1, 2, 216, 108), Rate(2, 3, 4, 216, 162),
  Rate(4, 1, 2, 432, 216), Rate(4, 3, 4, 432, 324), Rate(6, 2, 3, 648, 432),
  Rate(6, 3, 4, 648, 486), Rate(6, 5, 6, 648, 540) }

(* The callers: the SIG fields and legacy data, HT and VHT at 20 MHz, HT   *)
(* at 40 MHz, and the two frames with a self-test, MIMO and STBC.          *)
Configs ==
  {[path |-> "legacy", nss |-> 1, rate |-> Rate(1, 1, 2, 48, 24)]}
    \cup [path : {"ht", "stbc"}, nss : {1}, rate : HT_MCS]
    \cup [path : {"ht40"}, nss : {1}, rate : HT_MCS40]
    \cup [path : {"mimo"}, nss : {2}, rate : HT_MCS]

VARIABLES
  cfg,     \* the caller and its rate
  nsym,    \* OFDM symbols of the frame
  stage,   \* coded, punctured, parsed, interleaved, mapped, demapped, ...
  place    \* per transmitted bit of the coder's output: where it is now

vars == <<cfg, nsym, stage, place>>

Cbps == cfg.rate.cbps
Bpsc == cfg.rate.bpsc
S == IF Bpsc \div 2 > 1 THEN Bpsc \div 2 ELSE 1
CodedBits == 0 .. 2 * nsym * cfg.nss * cfg.rate.dbps - 1

Init ==
  /\ cfg \in Configs
  /\ nsym \in 1 .. MaxSyms
  /\ stage = "coded"
  /\ place = [k \in CodedBits |-> k]

-----------------------------------------------------------------------------
(* puncture().                                                             *)
Transmitted(k) == k % (2 * cfg.rate.num) \notin Dropped(cfg.rate.num)
KeptBefore(k) ==
  LET period == 2 * cfg.rate.num
      Rank(r) == Cardinality((0 .. r - 1) \ Dropped(cfg.rate.num))
  IN  (k \div period) * Rank(period) + Rank(k % period)

Puncture ==
  /\ stage = "coded"
  /\ stage' = "punctured"
  /\ place' = [k \in {k2 \in CodedBits : Transmitted(k2)} |-> KeptBefore(k)]
  /\ UNCHANGED <<cfg, nsym>>

(* stream_parse(): s-bit blocks dealt round-robin, anew in each symbol.    *)
Slot(idx) ==
  LET perSym == cfg.nss * Cbps
      blk == (idx % perSym) \div S
  IN  <<blk % cfg.nss,
        (idx \div perSym) * Cbps + (blk \div cfg.nss) * S + (idx % S)>>

Parse ==
  /\ stage = "punctured"
  /\ stage' = "parsed"
  /\ place' = [k \in DOMAIN place |->
                 IF cfg.nss = 1 THEN <<0, place[k]>> ELSE Slot(place[k])]
  /\ UNCHANGED <<cfg, nsym>>

-----------------------------------------------------------------------------
(* interleave(): position k of a symbol is filled from second[first[k]].   *)
LegacySource(k) ==
  LET f == S * (k \div S) + ((k + (16 * k) \div Cbps) % S)
  IN  16 * f - (Cbps - 1) * ((16 * f) \div Cbps)
LegacyPosition(q) == CHOOSE k \in 0 .. Cbps - 1 : LegacySource(k) = q

NCol == IF cfg.path = "ht40" THEN 18 ELSE 13
NRowNarrow == 4 * Bpsc          \* faulty variant: the rows of 20 MHz always
NRow == (IF cfg.path = "ht40" THEN 6 ELSE 4) * Bpsc

(* The two permutations of interleave_ht(); in the faulty variant the      *)
(* first alone.                                                            *)
HtFirstOnly(k) == NRow * (k % NCol) + k \div NCol
HtPosition(k) ==
  LET i == NRow * (k % NCol) + k \div NCol
  IN  S * (i \div S) + ((i + Cbps - (NCol * i) \div Cbps) % S)

(* The third one of interleave_ht_ss(), for stream iss: a rotation of each *)
(* symbol, in the faulty variant not modulo its length.                    *)
Jrot(iss) == (((iss * 2) % 3) + 3 * (iss \div 3)) * 11 * Bpsc
Rotated(iss, base, j) == base + ((j - Jrot(iss)) % Cbps)

Interleaved(iss, p) ==
  LET k == p % Cbps
      base == p - k
  IN  CASE cfg.path = "legacy" -> base + LegacyPosition(k)
        [] cfg.path \in {"ht", "ht40", "stbc"} -> base + HtPosition(k)
        [] cfg.path = "mimo" -> Rotated(iss, base, HtPosition(k))

Interleave ==
  /\ stage = "parsed"
  /\ stage' = "interleaved"
  /\ place' = [k \in DOMAIN place |->
                 <<place[k][1], Interleaved(place[k][1], place[k][2])>>]
  /\ UNCHANGED <<cfg, nsym>>

-----------------------------------------------------------------------------
(* map_qam() and the symbol builders: Bpsc consecutive bits to a point,    *)
(* the points of a symbol to the data tones in rising order.               *)
Pilots == {11, 25, 39, 53}
Pilots40 == {11, 39, 53, 75, 89, 117}
DataTones(path) ==
  CASE path = "legacy" -> (6 .. 58) \ (Pilots \cup {32})
    [] path = "ht40" -> ((6 .. 62) \cup (66 .. 122)) \ Pilots40
    [] path \in {"ht", "stbc", "mimo"} -> (4 .. 60) \ (Pilots \cup {32})

Ascending(T) ==
  [c \in 0 .. Cardinality(T) - 1 |->
     CHOOSE t \in T : Cardinality({u \in T : u < t}) = c]
DataSc ==
  [path \in {"legacy", "ht", "stbc", "mimo", "ht40"} |-> Ascending(DataTones(path))]

MapTones ==
  /\ stage = "interleaved"
  /\ stage' = "mapped"
  /\ place' = [k \in DOMAIN place |->
       LET p == place[k][2] IN
         [iss |-> place[k][1], sym |-> p \div Cbps,
          tone |-> DataSc[cfg.path][(p % Cbps) \div Bpsc], bit |-> p % Bpsc]]
  /\ UNCHANGED <<cfg, nsym>>

-----------------------------------------------------------------------------
(* mimo_selftest() and stbc_selftest(): demap, deinterleave, deparse.      *)
HasSelftest == cfg.path \in {"mimo", "stbc"}

Demap ==
  /\ stage = "mapped"
  /\ HasSelftest
  /\ stage' = "demapped"
  /\ LET point(t) == CHOOSE c \in DOMAIN DataSc[cfg.path] : DataSc[cfg.path][c] = t
     IN  place' = [k \in DOMAIN place |->
           <<place[k].iss,
             place[k].sym * Cbps + point(place[k].tone) * Bpsc + place[k].bit>>]
  /\ UNCHANGED <<cfg, nsym>>

(* The forward map recomputed by the receiver; the faulty variant forgets  *)
(* the rotation of the second stream.                                      *)
ForwardNoRotation(iss) == [k \in 0 .. Cbps - 1 |-> HtPosition(k)]
Forward(iss) ==
  [k \in 0 .. Cbps - 1 |->
     IF cfg.path = "mimo" THEN (HtPosition(k) - Jrot(iss)) % Cbps ELSE HtPosition(k)]

Deinterleave ==
  /\ stage = "demapped"
  /\ stage' = "deinterleaved"
  /\ LET back == [iss \in 0 .. cfg.nss - 1 |->
                    LET fwd == Forward(iss)
                    IN  [q \in 0 .. Cbps - 1 |->
                           CHOOSE k \in 0 .. Cbps - 1 : fwd[k] = q]]
     IN  place' = [k \in DOMAIN place |->
           LET p == place[k][2] IN
             <<place[k][1], (p - (p % Cbps)) + back[place[k][1]][p % Cbps]>>]
  /\ UNCHANGED <<cfg, nsym>>

Deparse ==
  /\ stage = "deinterleaved"
  /\ stage' = "recovered"
  /\ place' = [k \in DOMAIN place |->
       LET iss == place[k][1]
           p == place[k][2]
           blk == ((p % Cbps) \div S) * cfg.nss + iss
       IN  (p \div Cbps) * cfg.nss * Cbps + blk * S + (p % S)]
  /\ UNCHANGED <<cfg, nsym>>

Finished ==      \* the frame is built, the self-test done
  /\ stage = "recovered" \/ (stage = "mapped" /\ ~HasSelftest)
  /\ UNCHANGED vars

Next ==
  \/ Puncture \/ Parse \/ Interleave \/ MapTones
  \/ Demap \/ Deinterleave \/ Deparse
  \/ Finished

Spec == Init /\ [][Next]_vars

-----------------------------------------------------------------------------
(* No bit is lost or written over between the coder and the antenna, and   *)
(* no data tone is left without its bits: the transmitted bits fill every  *)
(* bit of every data tone of every symbol and stream exactly once.         *)
EveryBitOnce ==
  stage = "mapped" =>
    LET slots == [iss : 0 .. cfg.nss - 1, sym : 0 .. nsym - 1,
                  tone : DataTones(cfg.path), bit : 0 .. Bpsc - 1]
    IN  /\ {place[k] : k \in DOMAIN place} = slots
        /\ Cardinality(DOMAIN place) = Cardinality(slots)

(* What interleaving is for: bits next to each other in one stream of one  *)
(* symbol are at least three data tones apart, so a faded tone does not    *)
(* hit a run of coded bits, and, at 20 MHz, fall on bits of different      *)
(* significance in the constellation.                                      *)
InStream(k) == IF cfg.nss = 1 THEN <<0, KeptBefore(k)>> ELSE Slot(KeptBefore(k))
Neighbours ==
  {pair \in UNION {{k} \X (k + 1 .. k + 12) : k \in DOMAIN place} :
     /\ pair[2] \in DOMAIN place
     /\ InStream(pair[2])[1] = InStream(pair[1])[1]
     /\ InStream(pair[2])[2] = InStream(pair[1])[2] + 1
     /\ InStream(pair[2])[2] % Cbps # 0}

BurstsSpread ==
  stage = "mapped" /\ nsym = 1 =>
    \A pair \in Neighbours :
      LET d == place[pair[1]].tone - place[pair[2]].tone
      IN  /\ d >= 3 \/ -d >= 3
          /\ S > 1 /\ cfg.path # "ht40" =>
               place[pair[1]].bit % S # place[pair[2]].bit % S

(* The self-tests invert the transmitter: at the end every bit is back at  *)
(* its index (mimo_selftest, "Proves the 2x2 data model is invertible").   *)
RecoversCoded ==
  stage = "recovered" =>
    \A k \in DOMAIN place : place[k] = KeptBefore(k)
=============================================================================
