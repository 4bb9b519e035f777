---------------------------- MODULE SalvageSpec ----------------------------
(***************************************************************************)
(* What the fused-FEC experiment promises, without decoders, loops or a    *)
(* flowgraph: frames are captured until the capture ends; then the verdict *)
(* compares the blocks determined by the symbols of the good frames with   *)
(* those determined by the symbols of all frames.  There is no FAIL.       *)
(***************************************************************************)
EXTENDS Integers, FiniteSets

CONSTANTS NBlocks, K, N, None

Blocks == 1 .. NBlocks
Symbols == Blocks \X (1 .. N)

VARIABLES
  clean,     \* symbols seen in frames whose FCS held
  kept,      \* symbols seen in any frame
  corrupt,   \* has a frame with a failed FCS been captured?
  verdict

vars == <<clean, kept, corrupt, verdict>>

Decodable(S) ==
  {b \in Blocks : Cardinality({x \in 1 .. N : <<b, x>> \in S}) >= K}

Init ==
  /\ clean = {}
  /\ kept = {}
  /\ corrupt = FALSE
  /\ verdict = None

Capture(S, ok) ==
  /\ verdict = None
  /\ clean' = IF ok THEN clean \cup S ELSE clean
  /\ kept' = kept \cup S
  /\ corrupt' = (corrupt \/ ~ok)
  /\ UNCHANGED verdict

Compare ==
  /\ verdict = None
  /\ verdict' = IF ~corrupt THEN "INCONCLUSIVE"
                ELSE IF Decodable(kept) = Decodable(clean) THEN "PASS_NO_CONTRAST"
                ELSE "PASS"
  /\ UNCHANGED <<clean, kept, corrupt>>

Next ==
  \/ \E S \in SUBSET Symbols, ok \in BOOLEAN : Capture(S, ok)
  \/ Compare

Spec == Init /\ [][Next]_vars
=============================================================================
