----------------------------- MODULE MCBitCoding -----------------------------
(***************************************************************************)
(* BitCoding for one-octet PSDUs: the seed scramble() uses and the         *)
(* all-ones seed, each code rate of the tables with a symbol size it is    *)
(* used with (the HT20 ones of BPSK 1/2 and 64-QAM, 16-QAM 3/4).           *)
(***************************************************************************)
EXTENDS BitCoding

MCSeeds == {{0, 2, 3, 4, 6}, 0 .. 6}

MCRates == {
  [num |-> 1, dbps |-> 26], [num |-> 2, dbps |-> 208],
  [num |-> 3, dbps |-> 156], [num |-> 5, dbps |-> 260] }
=============================================================================
