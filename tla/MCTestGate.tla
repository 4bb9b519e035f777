----------------------------- MODULE MCTestGate -----------------------------
(***************************************************************************)
(* A shortened plan with one format of each kind that run-tests.sh gates:  *)
(* legacy, two formats that share marker and bandwidth (ht, ht_spec), one  *)
(* at another bandwidth (ht40), one whose lines show another's marker      *)
(* (vht) and the SOFT one (ht_mimo).                                       *)
(***************************************************************************)
EXTENDS TestGate

MCPlan == <<
  [marker |-> "legacy",  bw |-> 20, soft |-> FALSE, cells |-> 1],
  [marker |-> "HT-DATA", bw |-> 20, soft |-> FALSE, cells |-> 2],
  [marker |-> "HT-DATA", bw |-> 20, soft |-> FALSE, cells |-> 2],
  [marker |-> "HT-DATA", bw |-> 40, soft |-> FALSE, cells |-> 1],
  [marker |-> "VHT-DATA", bw |-> 20, soft |-> FALSE, cells |-> 1],
  [marker |-> "HT-MIMO", bw |-> 20, soft |-> TRUE,  cells |-> 2] >>
=============================================================================
