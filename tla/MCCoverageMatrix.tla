--------------------------- MODULE MCCoverageMatrix ---------------------------
(***************************************************************************)
(* Three cells of the matrix: two that can be measured, of different       *)
(* format and MCS, and one that is out of reach.  Three channels, one of   *)
(* them without a frequency.                                               *)
(***************************************************************************)
EXTENDS BenchSession

MCCells == <<
  [mode |-> "ht",  mcs |-> 0, reachable |-> TRUE],
  [mode |-> "vht", mcs |-> 9, reachable |-> FALSE],
  [mode |-> "vht", mcs |-> 4, reachable |-> TRUE] >>

MCChannels == <<36, 52, 149>>
MCStations == {[mode |-> "vht", mcs |-> 7]}
=============================================================================
