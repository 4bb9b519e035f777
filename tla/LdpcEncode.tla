----------------------------- MODULE LdpcEncode -----------------------------
(***************************************************************************)
(* ldpc.py's encoder: build_H expands a quasi-cyclic base matrix,          *)
(* gf2_systematic turns the parity-check matrix into a generator, a row at *)
(* a time, and encode uses it.  A row and a word over GF(2) are the sets   *)
(* of columns in which they are 1; adding two of them is the symmetric     *)
(* difference, and a check holds of a word if they share an even number of *)
(* columns.  Rows and columns start at 0, as in the code.                  *)
(***************************************************************************)
EXTENDS Integers, Sequences, FiniteSets

CONSTANTS
  M, N,        \* rows and columns
  Z,           \* the block size of quasi-cyclic matrices
  Matrices     \* the parity-check matrices given to gf2_systematic

Rows == 0 .. M - 1
Cols == 0 .. N - 1

ASSUME EncodeAssumption ==
  /\ M \in Nat \ {0} /\ N \in Nat /\ M <= N
  /\ Z \in Nat \ {0}
  /\ Matrices \subseteq [Rows -> SUBSET Cols]

(* build_H(): block (br, bc) is the identity rolled right by base[br][bc]  *)
(* columns, or zero for -1.                                                *)
BuildH(base) ==
  [x \in Rows |->
     {Z * bc + (((x % Z) + base[x \div Z][bc]) % Z) :
        bc \in {c \in 0 .. (N \div Z) - 1 : base[x \div Z][c] >= 0}}]

PlusOr(A, B) == A \cup B           \* faulty: |= for ^=
Plus(A, B) == (A \ B) \cup (B \ A)
EvenCommon(A, B) == Cardinality(A \cap B) % 2 = 0
InCode(mat, w) == \A x \in Rows : EvenCommon(mat[x], w)

VARIABLES
  H0,      \* the matrix given
  H,       \* the copy being reduced
  r,       \* next row
  used,    \* columns used as pivots
  piv      \* these columns, in order (piv_cols)

reduction == <<H0, H, r, used, piv>>

InitReduction ==
  /\ H0 \in Matrices
  /\ H = H0
  /\ r = 0
  /\ used = {}
  /\ piv = <<>>

(* The pivot is the rightmost unused column in which row r has a 1.        *)
Candidates == H[r] \ used
Pivot == CHOOSE c \in Candidates : \A d \in Candidates : d <= c

(* Adding row r to the others that have a 1 in column c.                   *)
Cleared(c) == [x \in Rows |-> IF x # r /\ c \in H[x] THEN Plus(H[x], H[r]) ELSE H[x]]

ReduceRowUnmarked ==      \* faulty: the pivot stays an information column
  /\ r < M
  /\ Candidates # {}
  /\ piv' = Append(piv, Pivot)
  /\ H' = Cleared(Pivot)
  /\ r' = r + 1
  /\ UNCHANGED <<H0, used>>

ReduceRow ==
  /\ r < M
  /\ Candidates # {}
  /\ used' = used \cup {Pivot}
  /\ piv' = Append(piv, Pivot)
  /\ H' = Cleared(Pivot)
  /\ r' = r + 1
  /\ UNCHANGED H0

SkipRow ==          \* no pivot: continue
  /\ r < M
  /\ Candidates = {}
  /\ r' = r + 1
  /\ UNCHANGED <<H0, H, used, piv>>

Done == r = M
Reduced == Done /\ UNCHANGED reduction

NextReduction == ReduceRow \/ SkipRow \/ Reduced

SpecReduction == InitReduction /\ [][NextReduction]_reduction

-----------------------------------------------------------------------------
(* The generator: P's column for the pi-th pivot is read from the reduced  *)
(* row rowof says, the pi-th; encode() puts the information bits in place  *)
(* and adds up the parity bits.                                            *)
InfoCols == Cols \ used
PColumn(pi) == H[pi - 1] \cap InfoCols
Encode(info) ==
  info \cup {piv[pi] : pi \in {q \in 1 .. Len(piv) : ~EvenCommon(PColumn(q), info)}}

(* No set of rows adds up to zero.                                         *)
Odd(T, c) == Cardinality({x \in T : c \in H0[x]}) % 2 = 1
FullRank == \A T \in (SUBSET Rows) \ {{}} : \E c \in Cols : Odd(T, c)

-----------------------------------------------------------------------------
(* Reducing never changes the code: a word satisfies the checks of the     *)
(* reduced matrix exactly if it satisfies those of the given one.          *)
SameCode == \A w \in SUBSET Cols : InCode(H, w) <=> InCode(H0, w)

(* What selftest() asserts ("encoder produced a non-codeword"): with a     *)
(* matrix of full rank every encoded word satisfies every check, and       *)
(* k = cols - rows (docstring of gf2_systematic).                          *)
EncodesCodewords ==
  Done /\ FullRank =>
    /\ Cardinality(InfoCols) = N - M
    /\ \A info \in SUBSET InfoCols : InCode(H0, Encode(info))
=============================================================================
