------------------------------ MODULE SpaceTime ------------------------------
(***************************************************************************)
(* The two-antenna frames of tools_gen_wifi.py on one data tone: the       *)
(* constellations, what the receiving antennas hear of the training and    *)
(* data symbols, and how mimo_selftest and stbc_selftest get the points    *)
(* back.  Points and channels are Gaussian integers <<re, im>>: the points *)
(* without their normalisation, the channels multiplied up, and a receiver *)
(* that divides has its quotient given as numerator and denominator.       *)
(***************************************************************************)
EXTENDS Integers

Complex == Int \X Int
Add(a, b) == <<a[1] + b[1], a[2] + b[2]>>
Minus(a) == <<-a[1], -a[2]>>
Times(a, b) == <<a[1] * b[1] - a[2] * b[2], a[1] * b[2] + a[2] * b[1]>>
Conj(a) == <<a[1], -a[2]>>
Norm(a) == a[1] * a[1] + a[2] * a[2]
Real(n) == <<n, 0>>

-----------------------------------------------------------------------------
(* _CONST: of the bits of a point, lowest first, the first half says the   *)
(* real and the second half the imaginary part.  The faulty variant counts *)
(* the levels of 16-QAM in order.                                          *)
Levels16Counting == <<-3, -1, 1, 3>>
Levels16 == <<-3, 3, -1, 1>>
Levels64 == <<-7, 7, -1, 1, -5, 5, -3, 3>>

Point(bpsc, v) ==
  CASE bpsc = 1 -> <<2 * v - 1, 0>>
    [] bpsc = 2 -> <<2 * (v % 2) - 1, 2 * (v \div 2) - 1>>
    [] bpsc = 4 -> <<Levels16[(v % 4) + 1], Levels16[(v \div 4) + 1]>>
    [] bpsc = 6 -> <<Levels64[(v % 8) + 1], Levels64[(v \div 8) + 1]>>
Values(bpsc) == 0 .. 2^bpsc - 1

(* demap_qam(): the nearest point to x / d.                                *)
Distance(bpsc, v, x, d) == Norm(Add(x, Minus(Times(d, Point(bpsc, v)))))
Demapped(bpsc, x, d) ==
  CHOOSE v \in Values(bpsc) : \A w \in Values(bpsc) :
    Distance(bpsc, v, x, d) <= Distance(bpsc, w, x, d)

-----------------------------------------------------------------------------
(* gen_ht_stbc(), stbc_selftest(): a pair of symbols s on two antennas,    *)
(* one receiving antenna, channels h.                                      *)
Slot0(h, s) == Add(Times(h[1], s[1]), Times(h[2], Minus(Conj(s[2]))))
Slot1(h, s) == Add(Times(h[1], s[2]), Times(h[2], Conj(s[1])))

(* Alamouti combining of the slots y; both points come out times Gain.     *)
Gain(h) == Norm(h[1]) + Norm(h[2])
Combined(h, y) ==
  <<Add(Times(Conj(h[1]), y[1]), Times(h[2], Conj(y[2]))),
    Minus(Conj(Add(Times(Conj(h[2]), y[1]), Minus(Times(h[1], Conj(y[2]))))))>>

(* P_STBC and the training symbols; the receiver (external, as the comment *)
(* in gen_ht_stbc has it) takes (a - b)/2 and (a + b)/2 for the channels,  *)
(* here twice as much.                                                     *)
P_STBC == <<<<1, 1>>, <<-1, 1>>>>
Training(P, h, t) == Add(Times(h[1], Real(P[t][1])), Times(h[2], Real(P[t][2])))
TwiceEstimated(a, b) == <<Add(a, Minus(b)), Add(a, b)>>

-----------------------------------------------------------------------------
(* gen_ht_mimo(), mimo_selftest(): one point x[s] on each antenna, two     *)
(* receiving antennas, H[r] the channels to antenna r, estimated by the    *)
(* inverse of P2.  In the faulty variant that is the inverse of P2's       *)
(* transpose.                                                              *)
P2 == <<<<1, -1>>, <<1, 1>>>>
TwiceInverseTransposed(a, b) == <<Add(a, Minus(b)), Add(a, b)>>
TwiceInverse(a, b) == <<Add(a, b), Add(Minus(a), b)>>
TwiceChannel(H) ==
  [r \in {1, 2} |-> TwiceInverse(Training(P2, H[r], 1), Training(P2, H[r], 2))]

Heard(H, x) == [r \in {1, 2} |-> Add(Times(H[r][1], x[1]), Times(H[r][2], x[2]))]
Det(G) == Add(Times(G[1][1], G[2][2]), Minus(Times(G[1][2], G[2][1])))

(* np.linalg.solve(G, y): the numerators over Det(G).                      *)
Solved(G, y) ==
  <<Add(Times(G[2][2], y[1]), Minus(Times(G[1][2], y[2]))),
    Add(Times(G[1][1], y[2]), Minus(Times(G[2][1], y[1])))>>
=============================================================================
