----------------------------- MODULE MCLdpcEncode -----------------------------
(***************************************************************************)
(* Inputs for LdpcDecode: quasi-cyclic matrices of three block rows and    *)
(* four block columns.  DualDiagonal are those with the parity part of the *)
(* 802.11 tables in small (a first column of weight three, then the dual   *)
(* diagonal) and any information part; AnyParity have any last two         *)
(* columns, the rank-deficient choices included.                           *)
(***************************************************************************)
EXTENDS LdpcDecode

Parity == <<<<1, 0, -1>>, <<0, 0, 0>>, <<1, -1, 0>>>>
Shifts == -1 .. Z - 1

DualDiagonal ==
  {BuildH([br \in 0 .. 2 |-> [bc \in 0 .. 3 |->
      IF bc = 0 THEN i[br] ELSE Parity[br + 1][bc]]]) : i \in [0 .. 2 -> Shifts]}

AnyParity ==
  {BuildH([br \in 0 .. 2 |-> [bc \in 0 .. 3 |->
      CASE bc = 0 -> 0 [] bc = 1 -> Parity[br + 1][1] [] bc > 1 -> p[br][bc]]]) :
     p \in [0 .. 2 -> [2 .. 3 -> Shifts]]}

MCMatrices == DualDiagonal \cup AnyParity

(* As in the 802.11 tables, no column is without a check.                  *)
MCCodes == {mat \in DualDiagonal : UNION {mat[x] : x \in Rows} = Cols}

(* A clean word, words with a weak error in one or two columns, and words  *)
(* with an error as strong as the other columns, which may take more passes*)
(* or never be corrected.                                                  *)
MCNoises ==
  {[c \in Cols |-> IF c \in S THEN -1 ELSE 3] :
     S \in {T \in SUBSET Cols : Cardinality(T) <= 2}}
  \cup {[c \in Cols |-> IF c = e THEN -3 ELSE 3] : e \in Cols}
=============================================================================
