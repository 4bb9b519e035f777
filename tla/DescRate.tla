------------------------------ MODULE DescRate ------------------------------
(***************************************************************************)
(* desc_rate.py: the rate index of the receive descriptor, encoded from    *)
(* what was transmitted and decoded from what the driver reports.          *)
(***************************************************************************)
EXTENDS Integers

DESC_RATEMCS0 == 12
DESC_RATEVHTSS1MCS0 == 44

encode_ht(mcs) == DESC_RATEMCS0 + mcs
encode_vht(nss, mcs) == DESC_RATEVHTSS1MCS0 + (nss - 1) * 10 + mcs

Phy(format, mcs, nss) == [format |-> format, mcs |-> mcs, nss |-> nss]
None == -1

(* The ifs of decode(), which return at the first that applies.            *)
decode(rate) ==
  IF rate \in 0 .. 3 THEN Phy("CCK", None, None)
  ELSE IF rate \in 4 .. DESC_RATEMCS0 - 1 THEN Phy("OFDM", None, None)
  ELSE IF rate \in DESC_RATEMCS0 .. DESC_RATEVHTSS1MCS0 - 1
  THEN Phy("HT", rate - DESC_RATEMCS0, (rate - DESC_RATEMCS0) \div 8 + 1)
  ELSE IF rate >= DESC_RATEVHTSS1MCS0
  THEN LET off == rate - DESC_RATEVHTSS1MCS0
       IN  Phy("VHT", off % 10, off \div 10 + 1)
  ELSE Phy("?", None, None)
=============================================================================
