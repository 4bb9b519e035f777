------------------------------ MODULE LdpcDecode ------------------------------
(***************************************************************************)
(* ldpc.py from end to end, as its selftest() runs it: the matrix reduced  *)
(* (LdpcEncode), a word encoded, sent over a noisy channel and decoded by  *)
(* min_sum_decode().  LLRs and messages are integers: the decoder only     *)
(* adds, compares and negates them.                                        *)
(***************************************************************************)
EXTENDS LdpcEncode, Functions, FiniteSetsExt

CONSTANTS
  Codes,      \* the matrices of CODES, those that words are sent with
  Noises,     \* the strengths the columns may arrive with; negative: as the other bit
  Iters       \* iters

(* In the tables of CODES every column is in a check that joins it to      *)
(* another one: no block column is empty, and each block row has seven     *)
(* entries at least.                                                       *)
ASSUME DecodeAssumption ==
  /\ Codes \subseteq Matrices
  /\ \A mat \in Codes : \A c \in Cols : \E x \in Rows : c \in mat[x] /\ mat[x] # {c}
  /\ Noises \subseteq [Cols -> Int]
  /\ Iters \in Nat \ {0}

VARIABLES
  step,     \* encode, check, decide, over
  sent,     \* the codeword
  llr,      \* per column; positive favours 0
  msg,      \* msg_cv: from check to column, 0 where there is no edge
  q,        \* the check to be updated
  iter,     \* passes begun
  dec       \* the hard decision of the last pass

decoder == <<step, sent, llr, msg, q, iter, dec>>

NoMessages == [x \in Rows |-> [c \in Cols |-> 0]]

InitDecoder ==
  /\ step = "encode"
  /\ sent = {} /\ dec = {}
  /\ llr = [c \in Cols |-> 0]
  /\ msg = NoMessages
  /\ q = 0 /\ iter = 0

-----------------------------------------------------------------------------
(* A word that is not in the code ends the selftest by its assertion.      *)
SendWord ==
  /\ step = "encode" /\ Done /\ H0 \in Codes
  /\ \E info \in SUBSET InfoCols : \E noise \in Noises :
       /\ InCode(H0, Encode(info))
       /\ sent' = Encode(info)
       /\ llr' = [c \in Cols |-> IF c \in sent' THEN -noise[c] ELSE noise[c]]
  /\ step' = "check"
  /\ UNCHANGED <<msg, q, iter, dec>>

Belief(l, m, S, c) == l[c] + FoldFunctionOnSet(+, 0, [x \in Rows |-> m[x][c]], S)
Abs(i) == IF i < 0 THEN -i ELSE i

(* What column c tells check x: its LLR and the messages of all its other  *)
(* checks.                                                                 *)
ToCheck(l, m, x, c) == Belief(l, m, Rows \ {x}, c)

(* What check x tells column c of those it joins: the sign that makes the  *)
(* parity even and the least magnitude of the others.  The faulty variants *)
(* leave the column's own sign in, and take the greatest magnitude.        *)
SignersAll(x, c) == H0[x]
Signers(x, c) == H0[x] \ {c}
MagnitudeMost(values) == Max(values)
Magnitude(values) == Min(values)

FromCheck(l, m, x, c) ==
  LET others == H0[x] \ {c}
      size == Magnitude({Abs(ToCheck(l, m, x, d)) : d \in others})
      negative == {d \in Signers(x, c) : ToCheck(l, m, x, d) < 0}
  IN  IF others = {} THEN 0
      ELSE IF Cardinality(negative) % 2 = 0 THEN size ELSE -size

Updated(l, m, x) ==
  [m EXCEPT ![x] = [c \in Cols |-> IF c \in H0[x] THEN FromCheck(l, m, x, c) ELSE 0]]

(* One check after the other, each seeing what the earlier ones have sent  *)
(* in the same pass.                                                       *)
UpdateCheck ==
  /\ step = "check"
  /\ msg' = Updated(llr, msg, q)
  /\ q' = (q + 1) % M
  /\ iter' = IF q = 0 THEN iter + 1 ELSE iter
  /\ step' = IF q + 1 = M THEN "decide" ELSE "check"
  /\ UNCHANGED <<sent, llr, dec>>

Hard(l, m) == {c \in Cols : Belief(l, m, Rows, c) < 0}

Decide ==
  /\ step = "decide"
  /\ dec' = Hard(llr, msg)
  /\ step' = IF InCode(H0, dec') \/ iter = Iters THEN "over" ELSE "check"
  /\ UNCHANGED <<sent, llr, msg, q, iter>>

InitAll == InitReduction /\ InitDecoder
NextAll ==
  \/ (ReduceRow \/ SkipRow) /\ UNCHANGED decoder
  \/ (SendWord \/ UpdateCheck \/ Decide) /\ UNCHANGED reduction
  \/ Reduced /\ step \in {"encode", "over"} /\ UNCHANGED decoder

SpecAll == InitAll /\ [][NextAll]_<<reduction, decoder>>

-----------------------------------------------------------------------------
(* What selftest() looks at: the word is recovered if at most one column   *)
(* arrived as the other bit, and that weakly.                              *)
Misread(c) == IF c \in sent THEN llr[c] >= 0 ELSE llr[c] < 0
WeakErrorCorrected ==
  step = "over" /\ Cardinality({c \in Cols : Misread(c)}) <= 1
    /\ (\A c, d \in Cols : Misread(c) /\ ~Misread(d) => 2 * Abs(llr[c]) < Abs(llr[d]))
    => dec = sent

(* The decoder treats all codewords alike, so that the one random word the *)
(* selftest sends speaks for every word: were the LLRs those of another    *)
(* codeword, each message and each decision would change its sign exactly  *)
(* where that word has a one.  Only a tie is always decided for 0.         *)
Codewords == {w \in {Encode(info) : info \in SUBSET InfoCols} : InCode(H0, w)}
FlipLlr(w) == [c \in Cols |-> IF c \in w THEN -llr[c] ELSE llr[c]]
FlipMsg(m, w) == [x \in Rows |-> [c \in Cols |-> IF c \in w THEN -m[x][c] ELSE m[x][c]]]
CodewordsAlike ==
  step \in {"check", "decide"} =>
    \A w \in Codewords :
      /\ Updated(FlipLlr(w), FlipMsg(msg, w), q) = FlipMsg(Updated(llr, msg, q), w)
      /\ Plus(Hard(FlipLlr(w), FlipMsg(msg, w)), Plus(Hard(llr, msg), w))
           \subseteq {c \in Cols : Belief(llr, msg, Rows, c) = 0}
=============================================================================
