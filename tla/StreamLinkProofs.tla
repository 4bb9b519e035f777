--------------------------- MODULE StreamLinkProofs ---------------------------
(***************************************************************************)
(* The streams for frames of any number of symbols, and the two-antenna    *)
(* links for any channels: every stage from puncture() to the tones is a   *)
(* bijection, so each data tone gets its bits exactly once and the         *)
(* self-tests find every bit again; within a symbol neighbours are spread  *)
(* over tones and significances; the points are Gray mapped.               *)
(***************************************************************************)
EXTENDS StreamLink, FiniteSetTheorems, FunctionTheorems, TLAPS

(* Division with remainder, for divisors that are not numerals.            *)
LEMMA DivMod ==
  ASSUME NEW d \in Nat \ {0}, NEW p \in Nat
  PROVE  p = d * (p \div d) + (p % d) /\ p % d \in 0 .. d - 1 /\ p \div d \in Nat
OBVIOUS

(* A smaller quotient leaves room for the remainder.                       *)
LEMMA Ordered ==
  ASSUME NEW d \in Nat \ {0}, NEW q \in Nat, NEW s \in Nat, q < s
  PROVE  d * q + d <= d * s
<1>1. q + 1 <= s
  OBVIOUS
<1>2. d * (q + 1) <= d * s
  BY <1>1
<1>3. d * (q + 1) = d * q + d
  OBVIOUS
<1>4. QED
  BY <1>2, <1>3

(* Quotient and remainder are the only ones.                               *)
LEMMA Unique ==
  ASSUME NEW d \in Nat \ {0}, NEW q \in Nat, NEW t \in 0 .. d - 1
  PROVE  (d * q + t) \div d = q /\ (d * q + t) % d = t
<1> DEFINE p == d * q + t
           q2 == p \div d
           t2 == p % d
<1>1. p \in Nat
  OBVIOUS
<1>2. p = d * q2 + t2 /\ t2 \in 0 .. d - 1 /\ q2 \in Nat
  BY <1>1, DivMod
<1>3. p = d * q + t
  OBVIOUS
<1> HIDE DEF p, q2, t2
<1>4. ASSUME q < q2 PROVE FALSE
  <2>1. d * q + d <= d * q2
    BY <1>2, <1>4, Ordered
  <2> QED
    BY <1>1, <1>2, <1>3, <2>1
<1>5. ASSUME q2 < q PROVE FALSE
  <2>1. d * q2 + d <= d * q
    BY <1>2, <1>5, Ordered
  <2> QED
    BY <1>1, <1>2, <1>3, <2>1
<1>6. q = q2
  <2>1. q \in Nat /\ q2 \in Nat
    BY <1>2
  <2>2. QED
    BY <2>1, <1>4, <1>5
<1>7. t = t2
  <2>1. p = d * q + t2
    BY <1>2, <1>6
  <2>2. d * q \in Nat
    OBVIOUS
  <2>3. QED
    BY <1>2, <1>3, <2>1, <2>2
<1>8. QED
  BY <1>6, <1>7 DEF p, q2, t2

(* Quotients and remainders in range, and numbers put together from them.  *)
LEMMA Below ==
  ASSUME NEW d \in Nat \ {0}, NEW n \in Nat, NEW p \in 0 .. d * n - 1
  PROVE  p \div d \in 0 .. n - 1
<1> DEFINE q == p \div d
           t == p % d
<1>1. p \in Nat /\ d * n \in Nat /\ p < d * n
  OBVIOUS
<1>2. p = d * q + t /\ t \in 0 .. d - 1 /\ q \in Nat
  BY <1>1, DivMod
<1> HIDE DEF q, t
<1>3. ASSUME n <= q PROVE FALSE
  <2>1. CASE n = q
    BY <1>1, <1>2, <2>1
  <2>2. CASE n < q
    <3>1. d * n + d <= d * q
      BY <1>2, <2>2, Ordered
    <3>2. QED
      BY <1>1, <1>2, <3>1
  <2>3. QED
    BY <1>2, <1>3, <2>1, <2>2
<1>4. QED
  BY <1>2, <1>3 DEF q

LEMMA Above ==
  ASSUME NEW d \in Nat \ {0}, NEW n \in Nat, NEW q \in 0 .. n - 1, NEW t \in 0 .. d - 1
  PROVE  d * q + t \in 0 .. d * n - 1
<1>1. d * q + d <= d * n
  BY Ordered
<1>2. d * q \in Nat /\ d * n \in Nat
  OBVIOUS
<1>3. QED
  BY <1>1, <1>2

-----------------------------------------------------------------------------
(* Rates and symbols.                                                      *)
Bpscs == {1, 2, 4, 6}
Nums == {1, 2, 3, 5}

(* The rates of one width.                                                 *)
Periods(r) == r.dbps \div r.num
Sound(r, tones) ==
  /\ r.bpsc \in Bpscs /\ r.cbps = tones * r.bpsc
  /\ r.num \in Nums
  /\ Periods(r) \in Nat \ {0}
  /\ r.dbps = r.num * Periods(r) /\ r.cbps = (r.num + 1) * Periods(r)

(* The tables hold what the stages count on: n_cbps fills the data tones,  *)
(* and a symbol is a whole number of puncturing periods.                   *)
LEMMA RatesSound ==
  /\ Sound(Rate(1, 1, 2, 48, 24), 48)
  /\ \A r \in HT_MCS : Sound(r, 52)
  /\ \A r \in HT_MCS40 : Sound(r, 108)
<1>1. Sound(Rate(1, 1, 2, 48, 24), 48)
  BY DEF Sound, Periods, Rate, Bpscs, Nums
<1>2. ASSUME NEW r \in HT_MCS
      PROVE  Sound(r, 52)
  <2>1. /\ Sound(Rate(1, 1, 2,  52,  26), 52) /\ Sound(Rate(2, 1, 2, 104,  52), 52)
        /\ Sound(Rate(2, 3, 4, 104,  78), 52) /\ Sound(Rate(4, 1, 2, 208, 104), 52)
        /\ Sound(Rate(4, 3, 4, 208, 156), 52) /\ Sound(Rate(6, 2, 3, 312, 208), 52)
        /\ Sound(Rate(6, 3, 4, 312, 234), 52) /\ Sound(Rate(6, 5, 6, 312, 260), 52)
    BY DEF Sound, Periods, Rate, Bpscs, Nums
  <2>2. QED
    BY <2>1 DEF HT_MCS
<1>3. ASSUME NEW r \in HT_MCS40
      PROVE  Sound(r, 108)
  <2>1. /\ Sound(Rate(1, 1, 2, 108,  54), 108) /\ Sound(Rate(2, 1, 2, 216, 108), 108)
        /\ Sound(Rate(2, 3, 4, 216, 162), 108) /\ Sound(Rate(4, 1, 2, 432, 216), 108)
        /\ Sound(Rate(4, 3, 4, 432, 324), 108) /\ Sound(Rate(6, 2, 3, 648, 432), 108)
        /\ Sound(Rate(6, 3, 4, 648, 486), 108) /\ Sound(Rate(6, 5, 6, 648, 540), 108)
    BY DEF Sound, Periods, Rate, Bpscs, Nums
  <2>2. QED
    BY <2>1 DEF HT_MCS40
<1>4. QED
  BY <1>1, <1>2, <1>3

(* What the configurations have in common.                                 *)
Tones(path) == CASE path = "legacy" -> 48 [] path = "ht40" -> 108 [] OTHER -> 52

LEMMA ConfigFacts ==
  ASSUME cfg \in Configs
  PROVE  /\ cfg.path \in {"legacy", "ht", "stbc", "ht40", "mimo"}
         /\ cfg.nss = IF cfg.path = "mimo" THEN 2 ELSE 1
         /\ Sound(cfg.rate, Tones(cfg.path))
         /\ cfg.path = "legacy" => Bpsc = 1
<1>1. CASE cfg = [path |-> "legacy", nss |-> 1, rate |-> Rate(1, 1, 2, 48, 24)]
  <2>1. cfg.path = "legacy" /\ cfg.nss = 1 /\ cfg.rate = Rate(1, 1, 2, 48, 24)
    BY <1>1
  <2>2. Bpsc = 1
    BY <2>1 DEF Bpsc, Rate
  <2>3. QED
    BY <2>1, <2>2, RatesSound DEF Tones
<1>2. CASE cfg \in [path : {"ht", "stbc"}, nss : {1}, rate : HT_MCS]
  BY <1>2, RatesSound DEF Tones
<1>3. CASE cfg \in [path : {"ht40"}, nss : {1}, rate : HT_MCS40]
  BY <1>3, RatesSound DEF Tones
<1>4. CASE cfg \in [path : {"mimo"}, nss : {2}, rate : HT_MCS]
  BY <1>4, RatesSound DEF Tones
<1>5. QED
  BY <1>1, <1>2, <1>3, <1>4 DEF Configs

LEMMA SizeFacts ==
  ASSUME cfg \in Configs
  PROVE  /\ Bpsc \in Bpscs /\ S \in {1, 2, 3}
         /\ S = IF Bpsc = 4 THEN 2 ELSE IF Bpsc = 6 THEN 3 ELSE 1
         /\ Cbps = Tones(cfg.path) * Bpsc /\ Tones(cfg.path) \in {48, 52, 108}
         /\ Cbps \in Nat \ {0} /\ Bpsc \in Nat \ {0}
         /\ cfg.nss \in {1, 2}
<1>1. Bpsc \in Bpscs /\ Cbps = Tones(cfg.path) * Bpsc
  BY ConfigFacts DEF Sound, Bpsc, Cbps
<1>2. Tones(cfg.path) \in {48, 52, 108}
  BY DEF Tones
<1>3. S = IF Bpsc = 4 THEN 2 ELSE IF Bpsc = 6 THEN 3 ELSE 1
  BY <1>1 DEF S, Bpscs
<1>4. cfg.nss \in {1, 2}
  BY ConfigFacts
<1>5. Cbps \in Nat \ {0} /\ Bpsc \in Nat \ {0}
  BY <1>1, <1>2 DEF Bpscs
<1>6. QED
  BY <1>1, <1>2, <1>3, <1>4, <1>5

-----------------------------------------------------------------------------
(* Interleaving permutes the positions of a symbol.                        *)
(* The second permutation turns each column of S rows by a constant.       *)
LEMMA TurnInjective ==
  ASSUME NEW s \in {1, 2, 3}, NEW m \in Nat, NEW z \in Nat,
         NEW t \in 0 .. s - 1, NEW u \in 0 .. s - 1,
         ((s * m + t) + z) % s = ((s * m + u) + z) % s
  PROVE  t = u
<1>1. CASE s = 1
  BY <1>1
<1>2. CASE s = 2
  BY <1>2
<1>3. CASE s = 3
  BY <1>3
<1>4. QED
  BY <1>1, <1>2, <1>3

(* A symbol is NCol columns of NRow rows, and S divides the rows.          *)
LEMMA HtRows ==
  ASSUME cfg \in Configs, cfg.path # "legacy"
  PROVE  /\ NCol \in Nat \ {0} /\ NRow \in Nat \ {0} /\ NRow \div S \in Nat \ {0}
         /\ Cbps = NCol * NRow /\ NRow = S * (NRow \div S)
         /\ S \in Nat \ {0}
<1>1. /\ Bpsc \in Bpscs
      /\ S = IF Bpsc = 4 THEN 2 ELSE IF Bpsc = 6 THEN 3 ELSE 1
      /\ Cbps = Tones(cfg.path) * Bpsc
  BY SizeFacts
<1>2. CASE cfg.path = "ht40"
  <2>1. NCol = 18 /\ NRow = 6 * Bpsc /\ Cbps = 108 * Bpsc
    BY <1>1, <1>2 DEF NCol, NRow, Tones
  <2>2. QED
    BY <1>1, <2>1 DEF Bpscs
<1>3. CASE cfg.path # "ht40"
  <2>1. NCol = 13 /\ NRow = 4 * Bpsc /\ Cbps = 52 * Bpsc
    BY <1>1, <1>3 DEF NCol, NRow, Tones
  <2>2. QED
    BY <1>1, <2>1 DEF Bpscs
<1>4. QED
  BY <1>2, <1>3

(* Position k of a symbol goes to row k \div NCol of column k % NCol, and  *)
(* stays in its block of S rows.                                           *)
LEMMA HtShape ==
  ASSUME cfg \in Configs, cfg.path # "legacy", NEW k \in 0 .. Cbps - 1
  PROVE  LET c == k % NCol
             w == k \div NCol
             m == (NRow \div S) * c + (w \div S)
         IN  /\ c \in 0 .. NCol - 1 /\ w \in Nat /\ k = NCol * w + c
             /\ w \div S \in 0 .. (NRow \div S) - 1 /\ m \in Nat
             /\ m \div (NRow \div S) = c
             /\ m % (NRow \div S) = w \div S
             /\ w % S \in 0 .. S - 1 /\ w = S * (w \div S) + (w % S)
             /\ Cbps - c \in Nat
             /\ HtPosition(k) = S * m + (((S * m + (w % S)) + (Cbps - c)) % S)
             /\ HtPosition(k) \in 0 .. Cbps - 1
             /\ HtPosition(k) \div S = m
<1> DEFINE c == k % NCol
           w == k \div NCol
           X == NRow \div S
           v == w \div S
           m == X * c + v
           i == NRow * c + w
           C == NCol
           R == NRow
           s == S
           t == w % S
<1>1. /\ C \in Nat \ {0} /\ R \in Nat \ {0} /\ X \in Nat \ {0} /\ s \in Nat \ {0}
      /\ Cbps = C * R /\ R = s * X /\ Cbps \in Nat \ {0}
  BY HtRows, SizeFacts
<1>2. k \in Nat /\ k \in 0 .. C * R - 1
  BY <1>1
<1>3. k = C * w + c /\ c \in 0 .. C - 1 /\ w \in Nat
  BY <1>1, <1>2, DivMod
<1>4. w \in 0 .. R - 1
  BY <1>1, <1>2, Below
<1>5. i \in 0 .. R * C - 1 /\ i \in Nat
  <2>1. i \in 0 .. R * C - 1
    BY <1>1, <1>3, <1>4, Above
  <2>2. QED
    BY <2>1
<1>6. (C * i) \div Cbps = c
  <2> HIDE DEF c, w, X, i, C, R, s
  <2>1. C * w \in 0 .. C * R - 1
    <3>1. C * w + C <= C * R
      BY <1>1, <1>4, Ordered
    <3>2. C * w \in Nat /\ C * R \in Nat
      BY <1>1, <1>3
    <3>3. QED
      BY <1>1, <3>1, <3>2
  <2>2. C * i = (C * R) * c + C * w
    <3>1. i = R * c + w
      BY DEF i, R
    <3>2. QED
      BY <1>1, <1>3, <3>1
  <2>3. C * R \in Nat \ {0} /\ c \in Nat
    BY <1>1, <1>3
  <2>4. QED
    BY <1>1, <2>1, <2>2, <2>3, Unique
<1>7. w = s * v + t /\ t \in 0 .. s - 1 /\ v \in Nat
  BY <1>1, <1>3, DivMod
<1>8. v \in 0 .. X - 1
  <2>1. w \in 0 .. s * X - 1
    BY <1>1, <1>4
  <2>2. QED
    BY <1>1, <2>1, Below
<1>9. i = s * m + t
  <2> HIDE DEF c, w, X, v, C, s, t
  <2>1. i = (s * X) * c + (s * v + t)
    BY <1>1, <1>7 DEF R
  <2>2. QED
    BY <1>1, <1>3, <1>7, <2>1
<1>10. m \in Nat /\ m \div X = c /\ m % X = v
  <2>1. c \in Nat
    BY <1>1, <1>3
  <2> HIDE DEF c, w, X, v, C, s, t
  <2>2. m \in Nat
    BY <1>1, <1>8, <2>1
  <2>3. QED
    BY <1>1, <1>8, <2>1, <2>2, Unique
<1>11. i \div s = m
  <2> HIDE DEF c, w, X, v, C, s, t, m, i
  <2>1. QED
    BY <1>1, <1>7, <1>9, <1>10, Unique
<1> DEFINE e == (i + (Cbps - c)) % s
<1>12. Cbps - c \in Nat
  <2> HIDE DEF c, C, R
  <2>1. C * R >= C
    <3>1. R >= 1
      BY <1>1
    <3>2. C * R >= C * 1
      BY <1>1, <3>1
    <3>3. QED
      BY <1>1, <3>2
  <2>2. QED
    BY <1>1, <1>3, <2>1
<1>13. e \in 0 .. s - 1
  <2> HIDE DEF c, w, X, v, C, s, t, m, i
  <2>1. i + (Cbps - c) \in Nat
    BY <1>5, <1>12
  <2>2. QED
    BY <1>1, <2>1, DivMod
<1>14. HtPosition(k) = s * m + e
  <2>1. HtPosition(k) = S * (i \div S) + ((i + Cbps - (NCol * i) \div Cbps) % S)
    BY DEF HtPosition
  <2> HIDE DEF c, i, C, s, m
  <2>2. i + Cbps - (C * i) \div Cbps = i + (Cbps - c)
    BY <1>1, <1>3, <1>5, <1>6
  <2>3. QED
    BY <1>11, <2>1, <2>2 DEF C, s
<1>15. HtPosition(k) \in 0 .. Cbps - 1 /\ HtPosition(k) \div s = m
  <2> HIDE DEF c, w, X, v, C, R, s, t, m, i, e
  <2>1. m \in 0 .. X * C - 1
    BY <1>1, <1>3, <1>8, Above DEF m
  <2>2. X * C \in Nat /\ s * (X * C) = Cbps
    BY <1>1
  <2>3. s * m + e \in 0 .. s * (X * C) - 1
    BY <1>1, <1>13, <2>1, <2>2, Above
  <2>4. (s * m + e) \div s = m
    BY <1>1, <1>10, <1>13, Unique
  <2>5. QED
    BY <1>14, <2>2, <2>3, <2>4
<1>16. QED
  BY <1>3, <1>7, <1>8, <1>9, <1>10, <1>12, <1>14, <1>15

(* interleave_ht() puts no two bits in one place.                          *)
LEMMA HtInjective ==
  ASSUME cfg \in Configs, cfg.path # "legacy",
         NEW k \in 0 .. Cbps - 1, NEW l \in 0 .. Cbps - 1,
         HtPosition(k) = HtPosition(l)
  PROVE  k = l
<1> DEFINE P(x) == (NRow \div S) * (x % NCol) + ((x \div NCol) \div S)
           T(x) == (x \div NCol) % S
<1>1. P(k) = P(l)
  BY HtShape
<1>2. k % NCol = l % NCol /\ (k \div NCol) \div S = (l \div NCol) \div S
  BY <1>1, HtShape
<1>3. T(k) = T(l)
  <2> DEFINE z == Cbps - (k % NCol)
             p == P(k)
             t == T(k)
             u == T(l)
             s == S
  <2>1. z \in Nat /\ p \in Nat /\ t \in 0 .. s - 1 /\ u \in 0 .. s - 1 /\ s \in {1, 2, 3}
    BY HtShape, SizeFacts
  <2>2. HtPosition(k) = s * p + (((s * p + t) + z) % s)
    BY HtShape
  <2>3. HtPosition(l) = s * p + (((s * p + u) + z) % s)
    BY <1>1, <1>2, HtShape
  <2> HIDE DEF z, p, t, u, s, P, T
  <2>4. /\ ((s * p + t) + z) % s \in Int /\ ((s * p + u) + z) % s \in Int
        /\ s * p \in Int
    BY <2>1
  <2>5. ((s * p + t) + z) % s = ((s * p + u) + z) % s
    <3> DEFINE x == ((s * p + t) + z) % s
               y == ((s * p + u) + z) % s
               w == s * p
    <3>1. w + x = w + y /\ w \in Int /\ x \in Int /\ y \in Int
      BY <2>2, <2>3, <2>4, Zenon
    <3> HIDE DEF x, y, w
    <3>2. x = y
      BY <3>1
    <3>3. QED
      BY <3>2 DEF x, y
  <2>6. t = u
    BY <2>1, <2>5, TurnInjective
  <2>7. QED
    BY <2>6 DEF t, u
<1>4. k \div NCol = l \div NCol
  BY <1>2, <1>3, HtShape
<1>5. QED
  BY <1>2, <1>4, HtShape

(* An injection between finite sets of one size is onto.                   *)
LEMMA Permutes ==
  ASSUME NEW A, NEW B, IsFiniteSet(A), IsFiniteSet(B), Cardinality(A) = Cardinality(B),
         NEW f \in [A -> B], \A x, y \in A : f[x] = f[y] => x = y
  PROVE  \A b \in B : \E a \in A : f[a] = b
<1>1. f \in Injection(A, B)
  BY DEF Injection, IsInjective
<1>2. f \in Surjection(A, B)
  BY <1>1, FS_Injection
<1>3. QED
  BY <1>2 DEF Surjection

(* interleave() reads every position, so LegacyPosition is always defined. *)
LEMMA LegacyRows ==
  ASSUME cfg \in Configs, cfg.path = "legacy"
  PROVE  /\ Cbps = 48
         /\ \A q \in 0 .. Cbps - 1 :
              LegacyPosition(q) \in 0 .. Cbps - 1 /\ LegacySource(LegacyPosition(q)) = q
<1>1. Bpsc = 1 /\ S = 1 /\ Cbps = 48
  <2>1. Bpsc = 1 /\ Cbps = Tones(cfg.path) * Bpsc
    BY ConfigFacts, SizeFacts
  <2>2. S = IF Bpsc = 4 THEN 2 ELSE IF Bpsc = 6 THEN 3 ELSE 1
    BY SizeFacts
  <2>3. QED
    BY <2>1, <2>2 DEF Tones
<1>2. ASSUME NEW q \in 0 .. Cbps - 1
      PROVE  \E k \in 0 .. Cbps - 1 : LegacySource(k) = q
  <2> DEFINE a == q % 16
             b == q \div 16
             k == 3 * a + b
  <2>1. q \in 0 .. 47
    BY <1>1
  <2>2. a \in 0 .. 15 /\ b \in 0 .. 2 /\ q = a + 16 * b
    BY <2>1
  <2> HIDE DEF a, b
  <2>3. k \in 0 .. 47 /\ (16 * k) \div 48 = a
    BY <2>2
  <2>4. LegacySource(k) = 16 * k - 47 * ((16 * k) \div 48)
    <3> HIDE DEF k
    <3>1. k \div 1 = k /\ (k + ((16 * k) \div 48)) % 1 = 0
      BY <2>3
    <3>2. LegacySource(k) = LET f == 1 * (k \div 1) + ((k + (16 * k) \div 48) % 1)
                            IN  16 * f - (48 - 1) * ((16 * f) \div 48)
      BY <1>1 DEF LegacySource
    <3>3. QED
      BY <2>3, <3>1, <3>2
  <2>5. LegacySource(k) = q
    BY <2>2, <2>3, <2>4
  <2>6. QED
    BY <1>1, <2>3, <2>5
<1>3. QED
  BY <1>1, <1>2 DEF LegacyPosition

(* What the interleavers do to the positions of one symbol. *)
Permuted(iss, k) ==
  CASE cfg.path = "legacy" -> LegacyPosition(k)
    [] cfg.path \in {"ht", "ht40", "stbc"} -> HtPosition(k)
    [] cfg.path = "mimo" -> (HtPosition(k) - Jrot(iss)) % Cbps

(* Rotation within 0 .. n - 1, case by case.                               *)
LEMMA Turned ==
  ASSUME NEW n \in Nat \ {0}, NEW r \in 0 .. n - 1, NEW j \in 0 .. n - 1
  PROVE  (j - r) % n = IF r <= j THEN j - r ELSE n + (j - r)
<1>1. CASE r <= j
  <2>1. (n * 0 + (j - r)) % n = j - r
    BY <1>1, Unique
  <2>2. n * 0 + (j - r) = j - r
    OBVIOUS
  <2>3. QED
    BY <1>1, <2>1, <2>2
<1>2. CASE j < r
  <2> DEFINE x == (j - r) % n
             y == (j - r) \div n
  <2>1. j - r = n * y + x /\ x \in 0 .. n - 1 /\ y \in Int
    OBVIOUS
  <2> HIDE DEF x, y
  <2>2. y = -1
    <3>1. ASSUME y >= 0 PROVE FALSE
      <4>1. n * y >= 0
        BY <2>1, <3>1
      <4>2. QED
        BY <1>2, <2>1, <4>1
    <3>2. ASSUME y <= -2 PROVE FALSE
      <4>1. n * y <= n * (-2)
        BY <2>1, <3>2
      <4>2. QED
        BY <1>2, <2>1, <4>1
    <3>3. QED
      BY <2>1, <3>1, <3>2
  <2>3. x = n + (j - r)
    BY <2>1, <2>2
  <2>4. QED
    BY <1>2, <2>3 DEF x
<1>3. QED
  BY <1>1, <1>2

(* The rotation of interleave_ht_ss() within a symbol.                     *)
LEMMA RotationInjective ==
  ASSUME cfg \in Configs, cfg.path = "mimo", NEW iss \in {0, 1},
         NEW j \in 0 .. Cbps - 1, NEW l \in 0 .. Cbps - 1
  PROVE  /\ (j - Jrot(iss)) % Cbps \in 0 .. Cbps - 1
         /\ (j - Jrot(iss)) % Cbps = (l - Jrot(iss)) % Cbps => j = l
<1>1. Cbps = 52 * Bpsc /\ Bpsc \in {1, 2, 4, 6}
  <2>1. Tones(cfg.path) = 52
    BY DEF Tones
  <2>2. QED
    BY <2>1, SizeFacts DEF Bpscs
<1>2. Jrot(iss) = IF iss = 0 THEN 0 ELSE 22 * Bpsc
  <2>1. CASE iss = 0
    <3>1. (((0 * 2) % 3) + 3 * (0 \div 3)) * 11 = 0
      OBVIOUS
    <3>2. QED
      BY <1>1, <2>1, <3>1 DEF Jrot
  <2>2. CASE iss = 1
    <3>1. (((1 * 2) % 3) + 3 * (1 \div 3)) * 11 = 22
      OBVIOUS
    <3>2. QED
      BY <1>1, <2>2, <3>1 DEF Jrot
  <2>3. QED
    BY <2>1, <2>2
<1> DEFINE n == Cbps
           r == Jrot(iss)
<1>3. n \in Nat \ {0} /\ r \in 0 .. n - 1 /\ j \in 0 .. n - 1 /\ l \in 0 .. n - 1
  BY <1>1, <1>2
<1> HIDE DEF n, r
<1>4. /\ (j - r) % n = IF r <= j THEN j - r ELSE n + (j - r)
      /\ (l - r) % n = IF r <= l THEN l - r ELSE n + (l - r)
  BY <1>3, Turned
<1>5. (j - r) % n \in 0 .. n - 1 /\ ((j - r) % n = (l - r) % n => j = l)
  BY <1>3, <1>4
<1>6. QED
  BY <1>5 DEF n, r

(* No interleaver puts two bits of a symbol in one place, nor leaves a     *)
(* place empty.                                                            *)
LEMMA PermutedInjective ==
  ASSUME cfg \in Configs, NEW iss \in 0 .. cfg.nss - 1
  PROVE  /\ \A k \in 0 .. Cbps - 1 : Permuted(iss, k) \in 0 .. Cbps - 1
         /\ \A k, l \in 0 .. Cbps - 1 : Permuted(iss, k) = Permuted(iss, l) => k = l
<1>1. CASE cfg.path = "legacy"
  <2>1. \A k : Permuted(iss, k) = LegacyPosition(k)
    BY <1>1 DEF Permuted
  <2>2. QED
    BY <1>1, <2>1, LegacyRows
<1>2. CASE cfg.path \in {"ht", "ht40", "stbc"}
  <2>1. \A k : Permuted(iss, k) = HtPosition(k)
    BY <1>2 DEF Permuted
  <2>2. QED
    BY <1>2, <2>1, HtShape, HtInjective
<1>3. CASE cfg.path = "mimo"
  <2>1. \A k : Permuted(iss, k) = (HtPosition(k) - Jrot(iss)) % Cbps
    BY <1>3 DEF Permuted
  <2>2. iss \in {0, 1}
    BY <1>3, ConfigFacts
  <2>3. QED
    BY <1>3, <2>1, <2>2, HtShape, HtInjective, RotationInjective
<1>4. QED
  BY <1>1, <1>2, <1>3, ConfigFacts

LEMMA PermutedOnto ==
  ASSUME cfg \in Configs, NEW iss \in 0 .. cfg.nss - 1, NEW q \in 0 .. Cbps - 1
  PROVE  \E k \in 0 .. Cbps - 1 : Permuted(iss, k) = q
<1> DEFINE A == 0 .. Cbps - 1
           f == [k \in A |-> Permuted(iss, k)]
<1>1. IsFiniteSet(A)
  BY SizeFacts, FS_Interval
<1>2. f \in [A -> A] /\ \A x, y \in A : f[x] = f[y] => x = y
  BY PermutedInjective
<1> HIDE DEF f, A
<1>3. \A b \in A : \E a \in A : f[a] = b
  BY <1>1, <1>2, Permutes
<1>4. QED
  BY <1>3 DEF A, f

-----------------------------------------------------------------------------
(* The data tones in rising order.                                         *)
Before(T, t) == {u \in T : u < t}

LEMMA Smaller ==
  ASSUME NEW B, IsFiniteSet(B), NEW A \in SUBSET B, NEW x \in B, x \notin A
  PROVE  /\ Cardinality(A) \in Nat /\ Cardinality(B) \in Nat
         /\ Cardinality(A) < Cardinality(B)
<1>1. IsFiniteSet(A) /\ Cardinality(A) <= Cardinality(B)
       /\ (Cardinality(B) = Cardinality(A) => B = A)
  BY FS_Subset
<1>2. Cardinality(A) # Cardinality(B)
  BY <1>1
<1>3. Cardinality(A) \in Nat /\ Cardinality(B) \in Nat
  BY <1>1, FS_CardinalityType
<1>4. QED
  BY <1>1, <1>2, <1>3

(* How many elements come before one orders the set.                       *)
LEMMA RanksGrow ==
  ASSUME NEW T \in SUBSET Int, IsFiniteSet(T), NEW t \in T
  PROVE  /\ Cardinality(Before(T, t)) \in 0 .. Cardinality(T) - 1
         /\ \A u \in T : u < t => Cardinality(Before(T, u)) < Cardinality(Before(T, t))
<1>2. Cardinality(Before(T, t)) < Cardinality(T) /\ Cardinality(Before(T, t)) \in Nat
      /\ Cardinality(T) \in Nat
  <2>1. Before(T, t) \in SUBSET T /\ t \notin Before(T, t)
    BY DEF Before
  <2>2. QED
    BY <2>1, Smaller
<1>3. ASSUME NEW u \in T, u < t
      PROVE  Cardinality(Before(T, u)) < Cardinality(Before(T, t))
  <2>1. /\ Before(T, u) \in SUBSET Before(T, t) /\ Before(T, t) \in SUBSET T
        /\ u \in Before(T, t) /\ u \notin Before(T, u)
    <3>1. \A v \in T : v < u => v < t
      <4>1. t \in Int /\ u \in Int /\ \A v \in T : v \in Int
        OBVIOUS
      <4>2. QED
        BY <1>3, <4>1
    <3>2. u < t /\ ~(u < u)
      <4>1. u \in Int
        OBVIOUS
      <4>2. QED
        BY <1>3, <4>1
    <3>3. QED
      BY <3>1, <3>2, Zenon DEF Before
  <2>2. IsFiniteSet(Before(T, t))
    BY <2>1, FS_Subset
  <2>3. QED
    BY <2>1, <2>2, Smaller
<1>4. QED
  BY <1>2, <1>3

(* Ascending is a numbering of its set.                                    *)
LEMMA AscendingIs ==
  ASSUME NEW T \in SUBSET Int, IsFiniteSet(T)
  PROVE  /\ Ascending(T) \in [0 .. Cardinality(T) - 1 -> T]
         /\ \A c, d \in 0 .. Cardinality(T) - 1 : Ascending(T)[c] = Ascending(T)[d] => c = d
         /\ \A t \in T : \E c \in 0 .. Cardinality(T) - 1 : Ascending(T)[c] = t
         /\ \A c \in 0 .. Cardinality(T) - 1 : Cardinality(Before(T, Ascending(T)[c])) = c
<1> DEFINE n == Cardinality(T)
           I == 0 .. n - 1
           rank == [t \in T |-> Cardinality(Before(T, t))]
<1>1. n \in Nat /\ IsFiniteSet(I) /\ Cardinality(I) = n
  <2>1. n \in Nat
    BY FS_CardinalityType
  <2> HIDE DEF n
  <2>2. QED
    BY <2>1, FS_Interval
<1>2. rank \in [T -> I]
  BY RanksGrow
<1>3. \A t, u \in T : rank[t] = rank[u] => t = u
  <2>1. SUFFICES ASSUME NEW t \in T, NEW u \in T, rank[t] = rank[u], t # u
                 PROVE  FALSE
    OBVIOUS
  <2>2. t < u \/ u < t
    BY <2>1
  <2>3. Cardinality(Before(T, t)) \in Int /\ Cardinality(Before(T, u)) \in Int
    BY RanksGrow
  <2>4. Cardinality(Before(T, t)) = Cardinality(Before(T, u))
    BY <2>1
  <2>5. QED
    BY <2>2, <2>3, <2>4, RanksGrow
<1>4. \A c \in I : \E t \in T : rank[t] = c
  <2> HIDE DEF rank, I, n
  <2>1. Cardinality(T) = Cardinality(I)
    BY <1>1 DEF n
  <2>2. rank \in Injection(T, I)
    BY <1>2, <1>3 DEF Injection, IsInjective
  <2>3. rank \in Surjection(T, I)
    BY <1>1, <2>1, <2>2, FS_Injection
  <2>4. QED
    BY <2>3 DEF Surjection
<1>5. \A c \in I : Ascending(T)[c] \in T /\ rank[Ascending(T)[c]] = c
  <2>1. SUFFICES ASSUME NEW c \in I
                 PROVE  Ascending(T)[c] \in T /\ rank[Ascending(T)[c]] = c
    OBVIOUS
  <2>2. Ascending(T)[c] = CHOOSE t \in T : Cardinality({u \in T : u < t}) = c
    BY DEF Ascending
  <2>3. \A t \in T : rank[t] = Cardinality({u \in T : u < t})
    BY DEF Before
  <2> HIDE DEF rank, I
  <2>4. QED
    BY <1>4, <2>2, <2>3
<1>6. Ascending(T) \in [I -> T]
  BY <1>5 DEF Ascending
<1>7. \A t \in T : Ascending(T)[rank[t]] = t
  <2> HIDE DEF rank, I
  <2>1. QED
    BY <1>2, <1>3, <1>5
<1>8. \A c \in I : Cardinality(Before(T, Ascending(T)[c])) = c
  BY <1>5
<1>9. QED
  <2> HIDE DEF rank
  <2>1. QED
    BY <1>2, <1>5, <1>6, <1>7, <1>8

Paths == {"legacy", "ht", "stbc", "ht40", "mimo"}

LEMMA Counted ==
  ASSUME NEW a \in Nat, NEW b \in Nat, a <= b
  PROVE  IsFiniteSet(a .. b) /\ Cardinality(a .. b) = (b - a) + 1
BY FS_Interval

LEMMA Removed ==
  ASSUME NEW T, IsFiniteSet(T), NEW x \in T
  PROVE  IsFiniteSet(T \ {x}) /\ Cardinality(T \ {x}) = Cardinality(T) - 1
BY FS_RemoveElement

LEMMA PilotsRemoved ==
  ASSUME NEW T \in SUBSET Int, IsFiniteSet(T), {11, 25, 39, 53, 32} \subseteq T
  PROVE  LET R == T \ (Pilots \cup {32})
         IN  R \in SUBSET Int /\ IsFiniteSet(R) /\ Cardinality(R) = Cardinality(T) - 5
<1> DEFINE A == T \ {11}
           B == A \ {25}
           C == B \ {39}
           D == C \ {53}
           E == D \ {32}
<1>1. 11 \in T /\ 25 \in A /\ 39 \in B /\ 53 \in C /\ 32 \in D
  OBVIOUS
<1>2. T \ (Pilots \cup {32}) = E /\ E \in SUBSET Int
  BY DEF Pilots
<1>3. Cardinality(T) \in Nat
  BY FS_CardinalityType
<1>4. IsFiniteSet(A) /\ Cardinality(A) = Cardinality(T) - 1
  BY <1>1, Removed
<1> HIDE DEF A
<1>5. IsFiniteSet(B) /\ Cardinality(B) = Cardinality(A) - 1
  BY <1>1, <1>4, Removed
<1> HIDE DEF B
<1>6. IsFiniteSet(C) /\ Cardinality(C) = Cardinality(B) - 1
  BY <1>1, <1>5, Removed
<1> HIDE DEF C
<1>7. IsFiniteSet(D) /\ Cardinality(D) = Cardinality(C) - 1
  BY <1>1, <1>6, Removed
<1> HIDE DEF D
<1>8. IsFiniteSet(E) /\ Cardinality(E) = Cardinality(D) - 1
  BY <1>1, <1>7, Removed
<1> HIDE DEF E
<1>9. Cardinality(E) = Cardinality(T) - 5
  BY <1>3, <1>4, <1>5, <1>6, <1>7, <1>8
<1>10. QED
  BY <1>2, <1>8, <1>9, Zenon

(* DATA_SC, DATA_SC_HT and DATA_SC_HT40 have 48, 52 and 108 tones.         *)
LEMMA TonesCounted ==
  ASSUME NEW path \in Paths
  PROVE  /\ DataTones(path) \in SUBSET Int /\ IsFiniteSet(DataTones(path))
         /\ Cardinality(DataTones(path)) = Tones(path)
<1>1. CASE path = "legacy"
  <2> DEFINE I == 6 .. 58
  <2>1. IsFiniteSet(I) /\ Cardinality(I) = 53
    <3>1. 6 \in Nat /\ 58 \in Nat /\ 6 <= 58 /\ (58 - 6) + 1 = 53
      OBVIOUS
    <3>2. Cardinality(I) = (58 - 6) + 1 /\ IsFiniteSet(I)
      BY <3>1, Counted, Zenon
    <3>3. QED
      BY <3>1, <3>2, Zenon
  <2>2. DataTones(path) = I \ (Pilots \cup {32}) /\ Tones(path) = 48
    BY <1>1 DEF DataTones, Tones
  <2>3. {11, 25, 39, 53, 32} \subseteq I /\ I \in SUBSET Int
    OBVIOUS
  <2> HIDE DEF I
  <2>4. QED
    BY <2>1, <2>2, <2>3, PilotsRemoved
<1>2. CASE path \in {"ht", "stbc", "mimo"}
  <2> DEFINE I == 4 .. 60
  <2>1. IsFiniteSet(I) /\ Cardinality(I) = 57
    <3>1. 4 \in Nat /\ 60 \in Nat /\ 4 <= 60 /\ (60 - 4) + 1 = 57
      OBVIOUS
    <3>2. Cardinality(I) = (60 - 4) + 1 /\ IsFiniteSet(I)
      BY <3>1, Counted, Zenon
    <3>3. QED
      BY <3>1, <3>2, Zenon
  <2>2. DataTones(path) = I \ (Pilots \cup {32}) /\ Tones(path) = 52
    BY <1>2 DEF DataTones, Tones
  <2>3. {11, 25, 39, 53, 32} \subseteq I /\ I \in SUBSET Int
    OBVIOUS
  <2> HIDE DEF I
  <2>4. QED
    BY <2>1, <2>2, <2>3, PilotsRemoved
<1>3. CASE path = "ht40"
  <2> DEFINE L == 6 .. 62
             H == 66 .. 122
             U == L \cup H
             A == U \ {11}
             B == A \ {39}
             C == B \ {53}
             D == C \ {75}
             E == D \ {89}
             F == E \ {117}
  <2>1. 11 \in U /\ 39 \in A /\ 53 \in B /\ 75 \in C /\ 89 \in D /\ 117 \in E
    OBVIOUS
  <2>2. F \in SUBSET Int /\ L \cap H = {}
    OBVIOUS
  <2>3. DataTones(path) = F /\ Tones(path) = 108
    <3>1. DataTones(path) = U \ Pilots40 /\ Tones(path) = 108
      BY <1>3 DEF DataTones, Tones
    <3>2. U \ Pilots40 = F
      <4> HIDE DEF U
      <4>1. QED
        BY DEF Pilots40
    <3>3. QED
      BY <3>1, <3>2, Zenon
  <2>4. IsFiniteSet(L) /\ Cardinality(L) = 57
    <3>1. 6 \in Nat /\ 62 \in Nat /\ 6 <= 62 /\ (62 - 6) + 1 = 57
      OBVIOUS
    <3>2. Cardinality(L) = (62 - 6) + 1 /\ IsFiniteSet(L)
      BY <3>1, Counted, Zenon
    <3>3. QED
      BY <3>1, <3>2, Zenon
  <2>5. IsFiniteSet(H) /\ Cardinality(H) = 57
    <3>1. 66 \in Nat /\ 122 \in Nat /\ 66 <= 122 /\ (122 - 66) + 1 = 57
      OBVIOUS
    <3>2. ASSUME NEW a, NEW b, a = 66, b = 122
          PROVE  Cardinality(a .. b) = (b - a) + 1 /\ IsFiniteSet(a .. b)
      <4>1. a \in Nat /\ b \in Nat /\ a <= b
        BY <3>1, <3>2, Zenon
      <4>2. QED
        BY <4>1, Counted, Zenon
    <3>3. Cardinality(H) = (122 - 66) + 1 /\ IsFiniteSet(H)
      BY <3>2, Zenon
    <3>4. QED
      BY <3>1, <3>3, Zenon
  <2> HIDE DEF L, H
  <2>6. IsFiniteSet(U) /\ Cardinality(U) = 114
    <3>1. Cardinality({}) = 0
      BY FS_EmptySet
    <3>2. /\ IsFiniteSet(U)
          /\ Cardinality(U) = Cardinality(L) + Cardinality(H) - Cardinality(L \cap H)
      BY <2>4, <2>5, FS_Union, Zenon
    <3>3. Cardinality(L \cap H) = 0
      BY <2>2, <3>1, Zenon
    <3> DEFINE l == Cardinality(L)
               h == Cardinality(H)
               m == Cardinality(L \cap H)
               u == Cardinality(U)
    <3>4. u = l + h - m /\ l = 57 /\ h = 57 /\ m = 0
      BY <2>4, <2>5, <3>2, <3>3, Zenon
    <3> HIDE DEF l, h, m, u
    <3>5. u = 114
      BY <3>4
    <3>6. QED
      BY <3>2, <3>5 DEF u
  <2> HIDE DEF U
  <2>7. IsFiniteSet(A) /\ Cardinality(A) = 113
    BY <2>1, <2>6, Removed
  <2> HIDE DEF A
  <2>8. IsFiniteSet(B) /\ Cardinality(B) = 112
    BY <2>1, <2>7, Removed
  <2> HIDE DEF B
  <2>9. IsFiniteSet(C) /\ Cardinality(C) = 111
    BY <2>1, <2>8, Removed
  <2> HIDE DEF C
  <2>10. IsFiniteSet(D) /\ Cardinality(D) = 110
    BY <2>1, <2>9, Removed
  <2> HIDE DEF D
  <2>11. IsFiniteSet(E) /\ Cardinality(E) = 109
    BY <2>1, <2>10, Removed
  <2> HIDE DEF E
  <2>12. IsFiniteSet(F) /\ Cardinality(F) = 108
    BY <2>1, <2>11, Removed
  <2>13. QED
    BY <2>2, <2>3, <2>12
<1>4. QED
  BY <1>1, <1>2, <1>3 DEF Paths

LEMMA DataScIs ==
  ASSUME NEW path \in Paths
  PROVE  LET sc == DataSc[path]
             I == 0 .. Tones(path) - 1
         IN  /\ sc \in [I -> DataTones(path)] /\ DOMAIN sc = I
             /\ \A c, d \in I : sc[c] = sc[d] => c = d
             /\ \A t \in DataTones(path) : \E c \in I : sc[c] = t
<1>1. DataSc[path] = Ascending(DataTones(path))
  BY DEF DataSc, Paths
<1>2. QED
  BY <1>1, TonesCounted, AscendingIs

-----------------------------------------------------------------------------
(* Puncturing.                                                             *)
(* The transmitted places among the first r of a period. *)
RankOf(num, r) == Cardinality((0 .. r - 1) \ Dropped(num))

(* The count of transmitted places, one place at a time.                   *)
LEMMA RankStep ==
  ASSUME NEW num, NEW r \in Nat
  PROVE  /\ RankOf(num, 0) = 0 /\ RankOf(num, r) \in Nat
         /\ r \in Dropped(num) => RankOf(num, r + 1) = RankOf(num, r)
         /\ r \notin Dropped(num) => RankOf(num, r + 1) = RankOf(num, r) + 1
<1> DEFINE A == (0 .. r - 1) \ Dropped(num)
           B == (0 .. (r + 1) - 1) \ Dropped(num)
<1>1. IsFiniteSet(A)
  <2>1. IsFiniteSet(0 .. r - 1)
    BY FS_Interval
  <2>2. QED
    BY <2>1, FS_Difference
<1>2. Cardinality(A) \in Nat
  BY <1>1, FS_CardinalityType
<1>3. RankOf(num, 0) = 0
  <2>1. (0 .. 0 - 1) \ Dropped(num) = {}
    OBVIOUS
  <2>2. QED
    BY <2>1, FS_EmptySet, Zenon DEF RankOf
<1>4. ASSUME r \in Dropped(num)
      PROVE  RankOf(num, r + 1) = RankOf(num, r)
  <2>1. A = B
    BY <1>4
  <2>2. QED
    BY <2>1, Zenon DEF RankOf
<1>5. ASSUME r \notin Dropped(num)
      PROVE  RankOf(num, r + 1) = RankOf(num, r) + 1
  <2>1. B = A \cup {r} /\ r \notin A
    BY <1>5
  <2>2. RankOf(num, r + 1) = Cardinality(B) /\ RankOf(num, r) = Cardinality(A)
    BY Zenon DEF RankOf
  <2> HIDE DEF A, B
  <2>3. Cardinality(B) = Cardinality(A) + 1
    BY <1>1, <2>1, FS_AddElement
  <2>4. QED
    BY <2>2, <2>3
<1>6. QED
  BY <1>2, <1>3, <1>4, <1>5, Zenon DEF RankOf

(* Of each period of 2 num bits num + 1 are sent, in order.                *)
LEMMA Ranks ==
  ASSUME NEW num \in Nums
  PROVE  LET Kept == (0 .. 2 * num - 1) \ Dropped(num)
         IN  /\ RankOf(num, 2 * num) = num + 1
             /\ \A t \in Kept : RankOf(num, t) \in 0 .. num
             /\ \A t, u \in Kept : RankOf(num, t) = RankOf(num, u) => t = u
             /\ \A v \in 0 .. num : \E t \in Kept : RankOf(num, t) = v
<1>0. RankOf(num, 0) = 0
  BY RankStep
<1>1. CASE num = 1
  <2>1. Dropped(num) = {}
    BY <1>1 DEF Dropped
  <2>2. RankOf(num, 1) = 1 /\ RankOf(num, 2) = 2
    <3>1. RankOf(num, 0 + 1) = 1
      BY <1>0, <2>1, RankStep
    <3>2. RankOf(num, 1 + 1) = 2
      BY <2>1, <3>1, RankStep
    <3>3. QED
      BY <3>1, <3>2
  <2>3. QED
    BY <1>0, <1>1, <2>1, <2>2
<1>2. CASE num = 2
  <2>1. Dropped(num) = {3}
    BY <1>2 DEF Dropped
  <2>2. /\ RankOf(num, 1) = 1 /\ RankOf(num, 2) = 2 /\ RankOf(num, 3) = 3
        /\ RankOf(num, 4) = 3
    <3>1. RankOf(num, 0 + 1) = 1
      BY <1>0, <2>1, RankStep
    <3>2. RankOf(num, 1 + 1) = 2
      BY <2>1, <3>1, RankStep
    <3>3. RankOf(num, 2 + 1) = 3
      BY <2>1, <3>2, RankStep
    <3>4. RankOf(num, 3 + 1) = 3
      BY <2>1, <3>3, RankStep
    <3>5. QED
      BY <3>1, <3>2, <3>3, <3>4
  <2>3. QED
    BY <1>0, <1>2, <2>1, <2>2
<1>3. CASE num = 3
  <2>1. Dropped(num) = {3, 4}
    BY <1>3 DEF Dropped
  <2>2. /\ RankOf(num, 1) = 1 /\ RankOf(num, 2) = 2 /\ RankOf(num, 3) = 3
        /\ RankOf(num, 4) = 3 /\ RankOf(num, 5) = 3 /\ RankOf(num, 6) = 4
    <3>1. RankOf(num, 0 + 1) = 1
      BY <1>0, <2>1, RankStep
    <3>2. RankOf(num, 1 + 1) = 2
      BY <2>1, <3>1, RankStep
    <3>3. RankOf(num, 2 + 1) = 3
      BY <2>1, <3>2, RankStep
    <3>4. RankOf(num, 3 + 1) = 3
      BY <2>1, <3>3, RankStep
    <3>5. RankOf(num, 4 + 1) = 3
      BY <2>1, <3>4, RankStep
    <3>6. RankOf(num, 5 + 1) = 4
      BY <2>1, <3>5, RankStep
    <3>7. QED
      BY <3>1, <3>2, <3>3, <3>4, <3>5, <3>6
  <2>3. QED
    BY <1>0, <1>3, <2>1, <2>2
<1>4. CASE num = 5
  <2>1. Dropped(num) = {3, 4, 7, 8}
    BY <1>4 DEF Dropped
  <2>2. /\ RankOf(num, 1) = 1 /\ RankOf(num, 2) = 2 /\ RankOf(num, 3) = 3
        /\ RankOf(num, 4) = 3 /\ RankOf(num, 5) = 3 /\ RankOf(num, 6) = 4
        /\ RankOf(num, 7) = 5 /\ RankOf(num, 8) = 5 /\ RankOf(num, 9) = 5
        /\ RankOf(num, 10) = 6
    <3>1. RankOf(num, 0 + 1) = 1
      BY <1>0, <2>1, RankStep
    <3>2. RankOf(num, 1 + 1) = 2
      BY <2>1, <3>1, RankStep
    <3>3. RankOf(num, 2 + 1) = 3
      BY <2>1, <3>2, RankStep
    <3>4. RankOf(num, 3 + 1) = 3
      BY <2>1, <3>3, RankStep
    <3>5. RankOf(num, 4 + 1) = 3
      BY <2>1, <3>4, RankStep
    <3>6. RankOf(num, 5 + 1) = 4
      BY <2>1, <3>5, RankStep
    <3>7. RankOf(num, 6 + 1) = 5
      BY <2>1, <3>6, RankStep
    <3>8. RankOf(num, 7 + 1) = 5
      BY <2>1, <3>7, RankStep
    <3>9. RankOf(num, 8 + 1) = 5
      BY <2>1, <3>8, RankStep
    <3>10. RankOf(num, 9 + 1) = 6
      BY <2>1, <3>9, RankStep
    <3>11. QED
      BY <3>1, <3>2, <3>3, <3>4, <3>5, <3>6, <3>7, <3>8, <3>9, <3>10
  <2>3. QED
    BY <1>0, <1>4, <2>1, <2>2
<1>5. QED
  BY <1>1, <1>2, <1>3, <1>4 DEF Nums

Sent == {k \in CodedBits : Transmitted(k)}
Flat == 0 .. nsym * (cfg.nss * Cbps) - 1

(* The periods of puncturing in a frame. *)
AllPeriods == nsym * (cfg.nss * Periods(cfg.rate))

(* The coded bits and the bits sent, counted in periods.                   *)
LEMMA FrameSizes ==
  ASSUME cfg \in Configs, nsym \in Nat \ {0}
  PROVE  LET num == cfg.rate.num
         IN  /\ num \in Nums /\ num \in Nat \ {0} /\ AllPeriods \in Nat \ {0}
             /\ CodedBits = 0 .. (2 * num) * AllPeriods - 1
             /\ Flat = 0 .. (num + 1) * AllPeriods - 1
<1> DEFINE num == cfg.rate.num
           P == Periods(cfg.rate)
           d == cfg.rate.dbps
           c == cfg.rate.cbps
           n == cfg.nss
<1>1. /\ num \in Nums /\ P \in Nat \ {0} /\ d = num * P /\ c = (num + 1) * P
      /\ n \in Nat \ {0}
  BY ConfigFacts, SizeFacts DEF Sound
<1>3. /\ AllPeriods = nsym * (n * P)
      /\ CodedBits = 0 .. 2 * nsym * n * d - 1
      /\ Flat = 0 .. nsym * (n * c) - 1
  BY DEF AllPeriods, CodedBits, Flat, Cbps
<1> HIDE DEF num, P, d, c, n
<1>2. num \in Nat \ {0}
  BY <1>1 DEF Nums
<1>4. nsym * (n * P) \in Nat \ {0}
  BY <1>1
<1>5. 2 * nsym * n * d = (2 * num) * (nsym * (n * P))
  BY <1>1, <1>2
<1>6. nsym * (n * c) = (num + 1) * (nsym * (n * P))
  BY <1>1, <1>2
<1>7. QED
  BY <1>1, <1>2, <1>3, <1>4, <1>5, <1>6 DEF num

(* A bit keeps its period and moves up within it.                          *)
LEMMA KeptParts ==
  ASSUME cfg \in Configs, nsym \in Nat \ {0}, NEW k \in Sent
  PROVE  LET num == cfg.rate.num
             q == k \div (2 * num)
             t == k % (2 * num)
         IN  /\ q \in 0 .. AllPeriods - 1 /\ t \in (0 .. 2 * num - 1) \ Dropped(num)
             /\ k = (2 * num) * q + t
             /\ KeptBefore(k) = (num + 1) * q + RankOf(num, t)
             /\ KeptBefore(k) \in Flat
             /\ KeptBefore(k) \div (num + 1) = q
             /\ KeptBefore(k) % (num + 1) = RankOf(num, t)
<1> DEFINE num == cfg.rate.num
           d == 2 * num
           e == num + 1
           q == k \div d
           t == k % d
           r == RankOf(num, t)
           A == AllPeriods
<1>1. /\ num \in Nums /\ num \in Nat \ {0} /\ A \in Nat \ {0}
      /\ CodedBits = 0 .. d * A - 1 /\ Flat = 0 .. e * A - 1
      /\ d \in Nat \ {0} /\ e \in Nat \ {0}
  <2>1. /\ num \in Nums /\ num \in Nat \ {0} /\ A \in Nat \ {0}
        /\ CodedBits = 0 .. d * A - 1 /\ Flat = 0 .. e * A - 1
    BY FrameSizes, Zenon
  <2>2. d \in Nat \ {0} /\ e \in Nat \ {0}
    <3> HIDE DEF num
    <3>1. QED
      BY <2>1
  <2>3. QED
    BY <2>1, <2>2, Zenon
<1>2. k \in 0 .. d * A - 1 /\ t \notin Dropped(num)
  BY <1>1 DEF Sent, Transmitted
<1>3. k \in Nat
  BY <1>1, <1>2
<1>4. k = d * q + t /\ t \in 0 .. d - 1 /\ q \in Nat
  BY <1>1, <1>3, DivMod
<1>5. q \in 0 .. A - 1
  BY <1>1, <1>2, Below
<1>6. r \in 0 .. e - 1
  <2>1. r \in 0 .. num
    BY <1>1, <1>2, <1>4, Ranks
  <2> HIDE DEF r, num
  <2>2. QED
    BY <1>1, <2>1
<1>7. KeptBefore(k) = q * RankOf(num, d) + r
  BY DEF KeptBefore, RankOf
<1>8. RankOf(num, d) = e
  BY <1>1, Ranks
<1>9. KeptBefore(k) = e * q + r
  <2>1. r \in Int
    BY <1>6
  <2> HIDE DEF d, e, q, t, r
  <2>2. QED
    BY <1>1, <1>4, <1>7, <1>8, <2>1
<1>10. KeptBefore(k) \in 0 .. e * A - 1
  <2> HIDE DEF d, e, q, t, r, A
  <2>1. QED
    BY <1>1, <1>5, <1>6, <1>9, Above
<1>11. KeptBefore(k) \div e = q /\ KeptBefore(k) % e = r
  <2> HIDE DEF d, e, q, t, r, A
  <2>1. (e * q + r) \div e = q /\ (e * q + r) % e = r
    BY <1>1, <1>4, <1>6, Unique
  <2>2. QED
    BY <1>9, <2>1, Zenon
<1>12. QED
  BY <1>1, <1>2, <1>4, <1>5, <1>9, <1>10, <1>11

(* puncture(): the bits sent fill the frame's symbols without a gap.       *)
LEMMA KeptBijective ==
  ASSUME cfg \in Configs, nsym \in Nat \ {0}
  PROVE  /\ \A k \in Sent : KeptBefore(k) \in Flat
         /\ \A k, l \in Sent : KeptBefore(k) = KeptBefore(l) => k = l
         /\ \A p \in Flat : \E k \in Sent : KeptBefore(k) = p
<1> DEFINE num == cfg.rate.num
           d == 2 * num
           e == num + 1
           A == AllPeriods
           Kept == (0 .. d - 1) \ Dropped(num)
<1>1. /\ num \in Nums /\ num \in Nat \ {0} /\ A \in Nat \ {0}
      /\ CodedBits = 0 .. d * A - 1 /\ Flat = 0 .. e * A - 1
      /\ d \in Nat \ {0} /\ e \in Nat \ {0}
  <2>1. /\ num \in Nums /\ num \in Nat \ {0} /\ A \in Nat \ {0}
        /\ CodedBits = 0 .. d * A - 1 /\ Flat = 0 .. e * A - 1
    BY FrameSizes, Zenon
  <2>2. d \in Nat \ {0} /\ e \in Nat \ {0}
    <3> HIDE DEF num
    <3>1. QED
      BY <2>1
  <2>3. QED
    BY <2>1, <2>2, Zenon
<1>2. ASSUME NEW k \in Sent, NEW l \in Sent, KeptBefore(k) = KeptBefore(l)
      PROVE  k = l
  <2>1. k \div d = l \div d
    BY <1>2, KeptParts
  <2>2. RankOf(num, k % d) = RankOf(num, l % d)
    BY <1>2, KeptParts
  <2>3. k % d \in Kept /\ l % d \in Kept
    BY KeptParts
  <2>4. k % d = l % d
    BY <1>1, <2>2, <2>3, Ranks
  <2>5. k = d * (k \div d) + (k % d) /\ l = d * (l \div d) + (l % d)
    BY KeptParts
  <2>6. QED
    BY <2>1, <2>4, <2>5
<1>3. ASSUME NEW p \in Flat
      PROVE  \E k \in Sent : KeptBefore(k) = p
  <2> DEFINE q == p \div e
             v == p % e
  <2>1. p \in 0 .. e * A - 1 /\ p \in Nat
    BY <1>1
  <2>2. p = e * q + v /\ v \in 0 .. e - 1 /\ q \in 0 .. A - 1 /\ q \in Nat
    BY <1>1, <2>1, DivMod, Below
  <2>3. v \in 0 .. num
    BY <1>1, <2>2
  <2>4. PICK t \in Kept : RankOf(num, t) = v
    BY <1>1, <2>3, Ranks
  <2> DEFINE k == d * q + t
  <2>5. k \in 0 .. d * A - 1
    <3> HIDE DEF d, q, A
    <3>1. QED
      BY <1>1, <2>2, <2>4, Above
  <2>6. k \div d = q /\ k % d = t
    <3> HIDE DEF d, q, A
    <3>1. QED
      BY <1>1, <2>2, <2>4, Unique
  <2>7. k \in Sent
    <3>1. k % (2 * cfg.rate.num) \notin Dropped(cfg.rate.num)
      BY <2>4, <2>6
    <3> HIDE DEF k, d, q, A, num, Kept
    <3>2. QED
      BY <1>1, <2>5, <3>1 DEF Sent, Transmitted
  <2>8. KeptBefore(k) = e * (k \div d) + RankOf(num, k % d)
    <3> HIDE DEF k
    <3>1. QED
      BY <2>7, KeptParts
  <2>9. KeptBefore(k) = p
    BY <2>2, <2>4, <2>6, <2>8
  <2>10. QED
    BY <2>7, <2>9
<1>4. \A k \in Sent : KeptBefore(k) \in Flat
  BY KeptParts
<1>5. QED
  BY <1>2, <1>3, <1>4

-----------------------------------------------------------------------------
(* The stream parser.                                                      *)
InSlots == (0 .. cfg.nss - 1) \X (0 .. nsym * Cbps - 1)

LEMMA SymbolSizes ==
  ASSUME cfg \in Configs
  PROVE  /\ Cbps = Bpsc * Tones(cfg.path) /\ Tones(cfg.path) \in Nat \ {0}
         /\ Cbps = S * (Cbps \div S) /\ Cbps \div S \in Nat \ {0}
         /\ Cbps \in Nat \ {0} /\ S \in Nat \ {0} /\ Bpsc \in Nat \ {0}
         /\ cfg.nss \in Nat \ {0}
<1> DEFINE T == Tones(cfg.path)
<1>1. /\ Bpsc \in Bpscs /\ Cbps = T * Bpsc /\ T \in {48, 52, 108}
      /\ S = IF Bpsc = 4 THEN 2 ELSE IF Bpsc = 6 THEN 3 ELSE 1
      /\ cfg.nss \in {1, 2}
  BY SizeFacts
<1> HIDE DEF T
<1>2. Cbps = Bpsc * T /\ T \in Nat \ {0} /\ Cbps \in Nat \ {0}
  BY <1>1 DEF Bpscs
<1>3. Cbps = S * (Cbps \div S) /\ Cbps \div S \in Nat \ {0}
  <2>1. Cbps \in {48, 52, 108, 96, 104, 216, 192, 208, 432, 288, 312, 648}
        /\ (Bpsc = 6 => Cbps \in {288, 312, 648}) /\ (Bpsc = 4 => Cbps \in {192, 208, 432})
    BY <1>1 DEF Bpscs
  <2>2. CASE Bpsc = 6
    <3>1. S = 3
      BY <1>1, <2>2
    <3>2. Cbps \in {288, 312, 648}
      BY <2>1, <2>2
    <3>3. QED
      BY <3>1, <3>2
  <2>3. CASE Bpsc = 4
    <3>1. S = 2
      BY <1>1, <2>3
    <3>2. Cbps \in {192, 208, 432}
      BY <2>1, <2>3
    <3>3. QED
      BY <3>1, <3>2
  <2>4. CASE Bpsc \in {1, 2}
    <3>1. S = 1
      BY <1>1, <2>4
    <3>2. QED
      BY <1>2, <3>1
  <2>5. QED
    BY <1>1, <2>2, <2>3, <2>4 DEF Bpscs
<1>4. QED
  BY <1>1, <1>2, <1>3 DEF T, Bpscs

Deparsed(iss, p) ==
  LET blk == ((p % Cbps) \div S) * cfg.nss + iss
  IN  (p \div Cbps) * cfg.nss * Cbps + blk * S + (p % S)

(* stream_parse() for two streams, and deparsing.                          *)
LEMMA SlotParts ==
  ASSUME cfg \in Configs, nsym \in Nat \ {0}, NEW idx \in Flat
  PROVE  /\ Slot(idx) \in InSlots
         /\ Deparsed(Slot(idx)[1], Slot(idx)[2]) = idx
<1> DEFINE n == cfg.nss
           s == S
           X == Cbps \div s
           C == Cbps
           per == n * C
           sym == idx \div per
           r == idx % per
           blk == r \div s
           w == r % s
           b == blk \div n
           i == blk % n
           z == s * b + w
           p == C * sym + z
<1>1. /\ C = s * X /\ X \in Nat \ {0} /\ s \in Nat \ {0} /\ n \in Nat \ {0}
      /\ C \in Nat \ {0}
  BY SymbolSizes
<1>2. per \in Nat \ {0} /\ per = s * (X * n) /\ X * n \in Nat \ {0} /\ X * n = n * X
      /\ idx \in 0 .. per * nsym - 1 /\ idx \in Nat
  <2>1. idx \in 0 .. nsym * (n * C) - 1
    BY DEF Flat
  <2> HIDE DEF n, s, X, C
  <2>2. nsym * (n * C) = (n * C) * nsym /\ n * C = s * (X * n)
        /\ n * C \in Nat \ {0} /\ (n * C) * nsym \in Nat
    BY <1>1
  <2>3. X * n \in Nat \ {0} /\ X * n = n * X
    BY <1>1
  <2>4. QED
    BY <2>1, <2>2, <2>3
<1>3. idx = per * sym + r /\ r \in 0 .. per - 1 /\ r \in Nat /\ sym \in 0 .. nsym - 1 /\ sym \in Nat
  <2> HIDE DEF n, s, X, C, per
  <2>1. idx = per * sym + r /\ r \in 0 .. per - 1 /\ sym \in Nat
    BY <1>2, DivMod
  <2>2. sym \in 0 .. nsym - 1
    <3>1. per \in Nat \ {0} /\ nsym \in Nat /\ idx \in 0 .. per * nsym - 1
      BY <1>2
    <3>2. QED
      BY <3>1, Below
  <2> HIDE DEF r
  <2>3. QED
    BY <1>2, <2>1, <2>2
<1>4. r = s * blk + w /\ w \in 0 .. s - 1 /\ blk \in 0 .. n * X - 1 /\ blk \in Nat
  <2> HIDE DEF n, X, C, per, r
  <2>1. r \in 0 .. s * (X * n) - 1
    BY <1>2, <1>3
  <2>2. r \div s \in 0 .. X * n - 1
    BY <1>1, <1>2, <2>1, Below
  <2>3. r = s * (r \div s) + (r % s) /\ r % s \in 0 .. s - 1 /\ r \div s \in Nat
    BY <1>1, <1>3, DivMod
  <2>4. QED
    BY <1>2, <2>2, <2>3
<1>5. blk = n * b + i /\ i \in 0 .. n - 1 /\ b \in 0 .. X - 1 /\ b \in Nat
  <2> HIDE DEF n, s, X, C, per, r, blk
  <2>1. QED
    BY <1>1, <1>4, DivMod, Below
<1>6. z \in 0 .. C - 1 /\ z \div s = b
  <2> HIDE DEF n, s, X, C, per, sym, r, blk, w, b, i
  <2>1. z \in 0 .. s * X - 1
    BY <1>1, <1>4, <1>5, Above
  <2>2. z \div s = b
    BY <1>1, <1>4, <1>5, Unique
  <2>3. QED
    BY <1>1, <2>1, <2>2
<1>7. p \in 0 .. nsym * C - 1 /\ p \div C = sym /\ p % C = z
  <2> HIDE DEF n, s, X, C, per, sym, r, blk, w, b, i, z
  <2>1. p \in 0 .. C * nsym - 1
    BY <1>1, <1>3, <1>6, Above
  <2>2. C * nsym = nsym * C
    BY <1>1
  <2>3. QED
    BY <1>1, <1>3, <1>6, <2>1, <2>2, Unique
<1>8. idx % s = w /\ p % s = w
  <2> HIDE DEF n, s, X, C, per, sym, r, blk, w, b, i
  <2>1. idx = s * ((X * n) * sym + blk) + w /\ (X * n) * sym + blk \in Nat
    <3>1. idx = (s * (X * n)) * sym + (s * blk + w)
      BY <1>2, <1>3, <1>4
    <3> DEFINE Y == X * n
    <3>2. Y \in Nat /\ idx = (s * Y) * sym + (s * blk + w)
      BY <1>2, <3>1
    <3> HIDE DEF Y
    <3>3. idx = s * (Y * sym + blk) + w /\ Y * sym + blk \in Nat
      BY <1>1, <1>3, <1>4, <3>2
    <3>4. QED
      BY <3>3 DEF Y
  <2>2. p = s * (X * sym + b) + w /\ X * sym + b \in Nat
    <3>1. p = (s * X) * sym + (s * b + w)
      BY <1>1
    <3>2. QED
      BY <1>1, <1>3, <1>4, <1>5, <3>1
  <2> HIDE DEF p
  <2>3. (s * ((X * n) * sym + blk) + w) % s = w
    BY <1>1, <1>4, <2>1, Unique
  <2>4. (s * (X * sym + b) + w) % s = w
    BY <1>1, <1>4, <2>2, Unique
  <2>5. QED
    BY <2>1, <2>2, <2>3, <2>4, Zenon
<1>9. Slot(idx) = <<i, p>>
  <2>1. Slot(idx) = <<i, sym * C + b * s + (idx % s)>>
    BY Zenon DEF Slot
  <2> HIDE DEF n, s, X, C, per, sym, r, blk, w, b, i
  <2>2. sym * C + b * s + w = p
    BY <1>1, <1>3, <1>4, <1>5
  <2>3. QED
    BY <1>8, <2>1, <2>2
<1>10. Deparsed(i, p) = idx
  <2>1. Deparsed(i, p) = (p \div C) * n * C + (((p % C) \div s) * n + i) * s + (p % s)
    BY Zenon DEF Deparsed
  <2> HIDE DEF n, s, X, C, per, sym, r, blk, w, b, i, z, p
  <2>2. Deparsed(i, p) = sym * n * C + (b * n + i) * s + w
    BY <1>6, <1>7, <1>8, <2>1, Zenon
  <2>3. idx = (n * C) * sym + (s * (n * b + i) + w)
    BY <1>3, <1>4, <1>5 DEF per
  <2>4. QED
    BY <1>1, <1>3, <1>4, <1>5, <2>2, <2>3
<1>11. QED
  <2>1. <<i, p>> \in InSlots
    BY <1>5, <1>7, Zenon DEF InSlots
  <2>2. QED
    BY <1>9, <1>10, <2>1

(* The stream parser, for one stream and for two. *)
Streamed(idx) == IF cfg.nss = 1 THEN <<0, idx>> ELSE Slot(idx)

(* Deparsing undoes parsing.                                               *)
LEMMA DeparseInverts ==
  ASSUME cfg \in Configs, nsym \in Nat \ {0}, NEW idx \in Flat
  PROVE  /\ Streamed(idx) \in InSlots
         /\ Deparsed(Streamed(idx)[1], Streamed(idx)[2]) = idx
<1>1. CASE cfg.nss # 1
  BY <1>1, SlotParts DEF Streamed
<1>2. CASE cfg.nss = 1
  <2> DEFINE C == Cbps
             s == S
             X == C \div s
             sym == idx \div C
             z == idx % C
             b == z \div s
             w == z % s
  <2>1. C = s * X /\ X \in Nat \ {0} /\ s \in Nat \ {0} /\ C \in Nat \ {0}
    BY SymbolSizes
  <2>2. idx \in 0 .. nsym * C - 1 /\ idx \in Nat
    <3>1. idx \in 0 .. nsym * (1 * C) - 1
      BY <1>2 DEF Flat
    <3> HIDE DEF C
    <3>2. QED
      BY <2>1, <3>1
  <2>3. idx = C * sym + z /\ z \in 0 .. C - 1 /\ z \in Nat /\ sym \in Nat
    <3> HIDE DEF C, X, s
    <3>1. idx = C * sym + z /\ z \in 0 .. C - 1 /\ sym \in Nat
      BY <2>1, <2>2, DivMod
    <3> HIDE DEF z
    <3>2. QED
      BY <2>1, <3>1
  <2>4. z = s * b + w /\ w \in 0 .. s - 1 /\ b \in Nat
    <3> HIDE DEF C, X, s, z
    <3>1. QED
      BY <2>1, <2>3, DivMod
  <2>5. idx % s = w
    <3> HIDE DEF C, X, s, sym, z, b, w
    <3>1. idx = s * (X * sym + b) + w /\ X * sym + b \in Nat
      <4>1. idx = (s * X) * sym + (s * b + w)
        BY <2>1, <2>3, <2>4
      <4>2. QED
        BY <2>1, <2>3, <2>4, <4>1
    <3>2. (s * (X * sym + b) + w) % s = w
      BY <2>1, <2>4, <3>1, Unique
    <3>3. QED
      BY <3>1, <3>2, Zenon
  <2>6. Deparsed(0, idx) = idx
    <3>1. Deparsed(0, idx) = sym * 1 * C + (b * 1 + 0) * s + (idx % s)
      BY <1>2, Zenon DEF Deparsed
    <3> HIDE DEF C, X, s, sym, z, b, w
    <3>2. QED
      BY <2>1, <2>3, <2>4, <2>5, <3>1
  <2>7. Streamed(idx) = <<0, idx>>
    BY <1>2 DEF Streamed
  <2>8. <<0, idx>> \in InSlots
    <3>1. 0 \in 0 .. 1 - 1
      OBVIOUS
    <3>2. QED
      BY <1>2, <2>2, <3>1, Zenon DEF InSlots
  <2>9. QED
    BY <2>6, <2>7, <2>8
<1>3. QED
  BY <1>1, <1>2

LEMMA SlotsCounted ==
  ASSUME cfg \in Configs, nsym \in Nat \ {0}
  PROVE  /\ IsFiniteSet(Flat) /\ IsFiniteSet(InSlots)
         /\ Cardinality(Flat) = Cardinality(InSlots)
<1> DEFINE n == cfg.nss
           C == Cbps
           I == 0 .. n - 1
           J == 0 .. nsym * C - 1
<1>1. n \in Nat \ {0} /\ C \in Nat \ {0}
  BY SymbolSizes
<1>2. Flat = 0 .. nsym * (n * C) - 1 /\ InSlots = I \X J
  BY Zenon DEF Flat, InSlots
<1> HIDE DEF n, C
<1>3. nsym * (n * C) \in Nat \ {0} /\ nsym * C \in Nat \ {0}
  BY <1>1
<1>4. IsFiniteSet(Flat) /\ Cardinality(Flat) = nsym * (n * C)
  <2> DEFINE m == nsym * (n * C)
  <2>1. m \in Nat \ {0} /\ Flat = 0 .. m - 1
    BY <1>2, <1>3
  <2> HIDE DEF m
  <2>2. IsFiniteSet(Flat) /\ Cardinality(Flat) = m
    BY <2>1, FS_Interval
  <2>3. QED
    BY <2>2 DEF m
<1>5. IsFiniteSet(J) /\ Cardinality(J) = nsym * C
  <2> DEFINE m == nsym * C
  <2>1. m \in Nat \ {0} /\ J = 0 .. m - 1
    BY <1>3
  <2> HIDE DEF m, J
  <2>2. IsFiniteSet(J) /\ Cardinality(J) = m
    BY <2>1, FS_Interval
  <2>3. QED
    BY <2>2 DEF m
<1>6. IsFiniteSet(I) /\ Cardinality(I) = n
  BY <1>1, FS_Interval
<1> HIDE DEF I, J
<1>7. IsFiniteSet(I \X J) /\ Cardinality(I \X J) = n * (nsym * C)
  BY <1>5, <1>6, FS_Product
<1>8. n * (nsym * C) = nsym * (n * C)
  BY <1>1
<1>9. QED
  BY <1>2, <1>4, <1>7, <1>8

(* Parsing leaves no place of a stream empty.                              *)
LEMMA StreamedOnto ==
  ASSUME cfg \in Configs, nsym \in Nat \ {0}, NEW slot \in InSlots
  PROVE  \E idx \in Flat : Streamed(idx) = slot
<1> DEFINE f == [idx \in Flat |-> Streamed(idx)]
<1>1. f \in [Flat -> InSlots]
  BY DeparseInverts
<1>2. \A x, y \in Flat : f[x] = f[y] => x = y
  <2>1. \A x \in Flat : Deparsed(f[x][1], f[x][2]) = x
    BY DeparseInverts
  <2> HIDE DEF f
  <2>2. QED
    BY <2>1
<1> HIDE DEF f
<1>3. f \in Injection(Flat, InSlots)
  BY <1>1, <1>2 DEF Injection, IsInjective
<1>4. f \in Surjection(Flat, InSlots)
  BY <1>3, SlotsCounted, FS_Injection
<1>5. PICK idx \in Flat : f[idx] = slot
  BY <1>4 DEF Surjection
<1>6. QED
  BY <1>5 DEF f

(* The interleavers. *)
Woven(slot) == <<slot[1], Interleaved(slot[1], slot[2])>>

(* Interleaving stays in its symbol and stream.                            *)
LEMMA WovenParts ==
  ASSUME cfg \in Configs, nsym \in Nat \ {0}, NEW slot \in InSlots
  PROVE  LET i == slot[1]
             p == slot[2]
             y == Woven(slot)[2]
         IN  /\ Woven(slot) \in InSlots /\ Woven(slot)[1] = i
             /\ i \in 0 .. cfg.nss - 1 /\ p % Cbps \in 0 .. Cbps - 1
             /\ p = Cbps * (p \div Cbps) + (p % Cbps)
             /\ y - (y % Cbps) = Cbps * (p \div Cbps)
             /\ y \div Cbps = p \div Cbps
             /\ y % Cbps = Permuted(i, p % Cbps)
<1> DEFINE C == Cbps
           i == slot[1]
           p == slot[2]
           q == p \div C
           k == p % C
           w == Permuted(i, k)
           y == Woven(slot)[2]
<1>1. i \in 0 .. cfg.nss - 1 /\ p \in 0 .. nsym * C - 1 /\ slot = <<i, p>>
  BY DEF InSlots
<1>2. C \in Nat \ {0}
  BY SymbolSizes
<1>3. p \in Nat /\ p \in 0 .. C * nsym - 1
  <2> HIDE DEF C, i, p
  <2>1. C * nsym = nsym * C /\ C * nsym \in Nat
    BY <1>2
  <2>2. QED
    BY <1>1, <2>1
<1>4. p = C * q + k /\ k \in 0 .. C - 1 /\ q \in Nat /\ q \in 0 .. nsym - 1
  <2> HIDE DEF C, i, p
  <2>1. p = C * q + k /\ k \in 0 .. C - 1 /\ q \in Nat
    BY <1>2, <1>3, DivMod
  <2>2. q \in 0 .. nsym - 1
    <3>1. nsym \in Nat
      OBVIOUS
    <3>2. QED
      BY <1>2, <1>3, <3>1, Below
  <2>3. QED
    BY <2>1, <2>2, Zenon
<1>5. w \in 0 .. C - 1
  BY <1>1, <1>4, PermutedInjective
<1>6. y = (p - k) + w
  <2>1. y = Interleaved(i, p)
    BY DEF Woven
  <2>2. cfg.path \in {"legacy", "ht", "stbc", "ht40", "mimo"}
    BY ConfigFacts
  <2>3. CASE cfg.path = "legacy"
    BY <2>1, <2>3 DEF Interleaved, Permuted
  <2>4. CASE cfg.path \in {"ht", "ht40", "stbc"}
    BY <2>1, <2>4 DEF Interleaved, Permuted
  <2>5. CASE cfg.path = "mimo"
    BY <2>1, <2>5 DEF Interleaved, Permuted, Rotated
  <2>6. QED
    BY <2>2, <2>3, <2>4, <2>5
<1>7. y = C * q + w
  <2> HIDE DEF C, i, p, q, k, w, y
  <2>1. QED
    BY <1>2, <1>3, <1>4, <1>5, <1>6
<1>8. y \in 0 .. nsym * C - 1 /\ y \div C = q /\ y % C = w /\ y - (y % C) = C * q
  <2> HIDE DEF C, i, p, q, k, w, y
  <2>1. (C * q + w) \in 0 .. C * nsym - 1
    BY <1>2, <1>4, <1>5, Above
  <2>2. (C * q + w) \div C = q /\ (C * q + w) % C = w
    BY <1>2, <1>4, <1>5, Unique
  <2>3. C * nsym = nsym * C /\ C * q \in Nat
    BY <1>2, <1>4
  <2>4. QED
    BY <1>5, <1>7, <2>1, <2>2, <2>3
<1>9. Woven(slot) = <<i, y>>
  BY DEF Woven
<1>10. <<i, y>> \in InSlots
  <2> HIDE DEF i, y
  <2>1. QED
    BY <1>1, <1>8, Zenon DEF InSlots
<1>11. QED
  BY <1>1, <1>4, <1>8, <1>9, <1>10

LEMMA WovenInjective ==
  ASSUME cfg \in Configs, nsym \in Nat \ {0}, NEW a \in InSlots, NEW b \in InSlots,
         Woven(a) = Woven(b)
  PROVE  a = b
<1>1. a[1] = b[1]
  BY WovenParts
<1>2. a[2] \div Cbps = b[2] \div Cbps
  BY WovenParts
<1>3. Permuted(a[1], a[2] % Cbps) = Permuted(a[1], b[2] % Cbps)
  BY <1>1, WovenParts
<1>4. a[2] % Cbps = b[2] % Cbps
  <2>1. /\ a[1] \in 0 .. cfg.nss - 1 /\ a[2] % Cbps \in 0 .. Cbps - 1
        /\ b[2] % Cbps \in 0 .. Cbps - 1
    BY WovenParts
  <2>2. QED
    BY <1>3, <2>1, PermutedInjective
<1>5. a[2] = b[2]
  BY <1>2, <1>4, WovenParts
<1>6. QED
  BY <1>1, <1>5 DEF InSlots

LEMMA WovenOnto ==
  ASSUME cfg \in Configs, nsym \in Nat \ {0}, NEW slot \in InSlots
  PROVE  \E a \in InSlots : Woven(a) = slot
<1> DEFINE f == [a \in InSlots |-> Woven(a)]
<1>1. f \in [InSlots -> InSlots]
  BY WovenParts
<1>2. \A x, y \in InSlots : f[x] = f[y] => x = y
  BY WovenInjective
<1> HIDE DEF f
<1>3. f \in Injection(InSlots, InSlots)
  BY <1>1, <1>2 DEF Injection, IsInjective
<1>4. f \in Surjection(InSlots, InSlots)
  BY <1>3, SlotsCounted, FS_Injection
<1>5. PICK a \in InSlots : f[a] = slot
  BY <1>4 DEF Surjection
<1>6. QED
  BY <1>5 DEF f

-----------------------------------------------------------------------------
(* Tone mapping and the way back.                                          *)
(* Tone mapping and its inverse. *)
Toned(slot) ==
  [iss |-> slot[1], sym |-> slot[2] \div Cbps,
   tone |-> DataSc[cfg.path][(slot[2] % Cbps) \div Bpsc], bit |-> slot[2] % Bpsc]

PointOf(t) == CHOOSE c \in DOMAIN DataSc[cfg.path] : DataSc[cfg.path][c] = t
Untoned(r) == <<r.iss, r.sym * Cbps + PointOf(r.tone) * Bpsc + r.bit>>

OnTones ==
  [iss : 0 .. cfg.nss - 1, sym : 0 .. nsym - 1,
   tone : DataTones(cfg.path), bit : 0 .. Bpsc - 1]

(* A tone is the tone of one constellation point of the symbol.            *)
LEMMA PointIs ==
  ASSUME cfg \in Configs, NEW c \in 0 .. Tones(cfg.path) - 1
  PROVE  DataSc[cfg.path][c] \in DataTones(cfg.path) /\ PointOf(DataSc[cfg.path][c]) = c
<1> DEFINE sc == DataSc[cfg.path]
           I == 0 .. Tones(cfg.path) - 1
<1>1. cfg.path \in Paths
  BY ConfigFacts DEF Paths
<1>2. /\ sc \in [I -> DataTones(cfg.path)] /\ DOMAIN sc = I
      /\ \A b, d \in I : sc[b] = sc[d] => b = d
  BY <1>1, DataScIs, Zenon
<1>3. PointOf(sc[c]) = CHOOSE b \in DOMAIN sc : sc[b] = sc[c]
  BY DEF PointOf
<1>4. c \in I
  OBVIOUS
<1> HIDE DEF sc, I
<1>5. (CHOOSE b \in DOMAIN sc : sc[b] = sc[c]) = c
  BY <1>2, <1>4
<1>6. QED
  BY <1>2, <1>3, <1>4, <1>5 DEF sc

(* Demapping undoes the tone mapping.                                      *)
LEMMA TonedParts ==
  ASSUME cfg \in Configs, nsym \in Nat \ {0}, NEW slot \in InSlots
  PROVE  Toned(slot) \in OnTones /\ Untoned(Toned(slot)) = slot
<1> DEFINE C == Cbps
           B == Bpsc
           T == Tones(cfg.path)
           i == slot[1]
           p == slot[2]
           q == p \div C
           k == p % C
           c == k \div B
           b == k % B
<1>1. i \in 0 .. cfg.nss - 1 /\ p \in 0 .. nsym * C - 1 /\ slot = <<i, p>>
  BY DEF InSlots
<1>2. C = B * T /\ C \in Nat \ {0} /\ B \in Nat \ {0} /\ T \in Nat \ {0}
  BY SymbolSizes
<1>3. p \in Nat /\ p \in 0 .. C * nsym - 1 /\ nsym \in Nat
  <2> HIDE DEF C, i, p
  <2>1. C * nsym = nsym * C /\ C * nsym \in Nat
    BY <1>2
  <2>2. QED
    BY <1>1, <2>1
<1>4. p = C * q + k /\ k \in 0 .. C - 1 /\ q \in Nat
  <2> HIDE DEF C, i, p
  <2>1. QED
    BY <1>2, <1>3, DivMod
<1>5. q \in 0 .. nsym - 1
  <2> HIDE DEF C, p
  <2>1. QED
    BY <1>2, <1>3, Below
<1>6. k = B * c + b /\ b \in 0 .. B - 1 /\ c \in Nat
  <2> HIDE DEF C, B, p, k
  <2>1. k \in Nat
    BY <1>2, <1>4
  <2>2. QED
    BY <1>2, <2>1, DivMod
<1>7. c \in 0 .. T - 1
  <2> HIDE DEF C, B, T, p, k
  <2>1. k \in 0 .. B * T - 1 /\ T \in Nat
    BY <1>2, <1>4
  <2>2. QED
    BY <1>2, <2>1, Below
<1>8. p % B = b
  <2> HIDE DEF C, B, T, p, q, k, c, b
  <2>1. p = B * (T * q + c) + b /\ T * q + c \in Nat
    <3>1. p = (B * T) * q + (B * c + b)
      BY <1>2, <1>4, <1>6
    <3>2. QED
      BY <1>2, <1>4, <1>6, <3>1
  <2>2. (B * (T * q + c) + b) % B = b
    BY <1>2, <1>6, <2>1, Unique
  <2>3. QED
    BY <2>1, <2>2, Zenon
<1> DEFINE t == DataSc[cfg.path][c]
<1>9. Toned(slot) = [iss |-> i, sym |-> q, tone |-> t, bit |-> b]
  BY <1>8, Zenon DEF Toned
<1>10. t \in DataTones(cfg.path) /\ PointOf(t) = c
  BY <1>7, PointIs
<1>11. Toned(slot) \in OnTones
  <2> HIDE DEF i, q, t, b, c, k, p, C, T
  <2>1. QED
    BY <1>1, <1>5, <1>6, <1>9, <1>10 DEF OnTones
<1>12. Untoned(Toned(slot)) = <<i, q * C + PointOf(t) * B + b>>
  <2> HIDE DEF i, q, t, b, c, k, p
  <2>1. QED
    BY <1>9 DEF Untoned
<1>13. q * C + c * B + b = p
  <2> HIDE DEF C, B, T, i, p, q, k, c, b
  <2>1. QED
    BY <1>2, <1>3, <1>4, <1>6
<1>14. QED
  <2> HIDE DEF C, B, T, i, p, q, k, c, b, t
  <2>1. QED
    BY <1>1, <1>10, <1>11, <1>12, <1>13

(* Every bit of every data tone is mapped from some place.                 *)
LEMMA TonedOnto ==
  ASSUME cfg \in Configs, nsym \in Nat \ {0}, NEW r \in OnTones
  PROVE  \E slot \in InSlots : Toned(slot) = r
<1> DEFINE C == Cbps
           B == Bpsc
           T == Tones(cfg.path)
           i == r.iss
           q == r.sym
           b == r.bit
<1>1. /\ i \in 0 .. cfg.nss - 1 /\ q \in 0 .. nsym - 1 /\ b \in 0 .. B - 1
      /\ r.tone \in DataTones(cfg.path)
      /\ r = [iss |-> i, sym |-> q, tone |-> r.tone, bit |-> b]
  BY DEF OnTones
<1>2. C = B * T /\ C \in Nat \ {0} /\ B \in Nat \ {0} /\ T \in Nat \ {0}
  BY SymbolSizes
<1>3. cfg.path \in Paths
  BY ConfigFacts DEF Paths
<1>4. PICK c \in 0 .. T - 1 : DataSc[cfg.path][c] = r.tone
  BY <1>1, <1>3, DataScIs, Zenon
<1> DEFINE k == B * c + b
           p == C * q + k
           slot == <<i, p>>
<1>5. k \in 0 .. C - 1 /\ k \div B = c
  <2> HIDE DEF C, B, T, b
  <2>1. B * c + b \in 0 .. B * T - 1
    BY <1>1, <1>2, <1>4, Above
  <2>2. c \in Nat
    BY <1>2, <1>4
  <2>3. (B * c + b) \div B = c
    BY <1>1, <1>2, <2>2, Unique
  <2>4. QED
    BY <1>2, <2>1, <2>3
<1>6. p \in 0 .. nsym * C - 1 /\ p \div C = q /\ p % C = k
  <2> HIDE DEF C, B, T, b, q, k
  <2>1. C * q + k \in 0 .. C * nsym - 1
    BY <1>1, <1>2, <1>5, Above
  <2>2. q \in Nat
    BY <1>1
  <2>3. (C * q + k) \div C = q /\ (C * q + k) % C = k
    BY <1>2, <1>5, <2>2, Unique
  <2>4. C * nsym = nsym * C
    BY <1>2
  <2>5. QED
    BY <2>1, <2>3, <2>4
<1>7. p % B = b
  <2> HIDE DEF C, B, T, b, q
  <2>1. p = B * (T * q + c) + b /\ T * q + c \in Nat
    <3>1. p = (B * T) * q + (B * c + b)
      BY <1>2
    <3>2. QED
      BY <1>1, <1>2, <1>4, <3>1
  <2> HIDE DEF p
  <2>2. (B * (T * q + c) + b) % B = b
    BY <1>1, <1>2, <2>1, Unique
  <2>3. QED
    BY <2>1, <2>2, Zenon
<1>8. slot \in InSlots
  <2> HIDE DEF C, B, T, b, q, k, p, i
  <2>1. QED
    BY <1>1, <1>6, Zenon DEF InSlots, C
<1>9. Toned(slot) = r
  <2> HIDE DEF b, q, k, p, i
  <2>1. slot[1] = i /\ slot[2] = p
    OBVIOUS
  <2> HIDE DEF slot
  <2>2. QED
    BY <1>1, <1>4, <1>5, <1>6, <1>7, <2>1, Zenon DEF Toned
<1>10. QED
  BY <1>8, <1>9

(* The deinterleaver of one symbol. *)
BackOf(iss, q) == CHOOSE k \in 0 .. Cbps - 1 : Forward(iss)[k] = q

(* The receiver that recomputes the forward map inverts it.                *)
LEMMA BackIs ==
  ASSUME cfg \in Configs, HasSelftest, NEW iss \in 0 .. cfg.nss - 1, NEW k \in 0 .. Cbps - 1
  PROVE  BackOf(iss, Permuted(iss, k)) = k
<1>1. \A l \in 0 .. Cbps - 1 : Forward(iss)[l] = Permuted(iss, l)
  <2>1. CASE cfg.path = "mimo"
    BY <2>1 DEF Forward, Permuted
  <2>2. CASE cfg.path = "stbc"
    BY <2>2 DEF Forward, Permuted
  <2>3. QED
    BY <2>1, <2>2 DEF HasSelftest
<1>2. \A l \in 0 .. Cbps - 1 : Permuted(iss, l) = Permuted(iss, k) => l = k
  BY PermutedInjective
<1>3. QED
  BY <1>1, <1>2 DEF BackOf

(* Deinterleaving undoes interleaving.                                     *)
LEMMA UnwovenIs ==
  ASSUME cfg \in Configs, nsym \in Nat \ {0}, HasSelftest, NEW slot \in InSlots
  PROVE  LET y == Woven(slot)
         IN  /\ y[1] \in 0 .. cfg.nss - 1 /\ y[2] % Cbps \in 0 .. Cbps - 1
             /\ <<y[1], (y[2] - (y[2] % Cbps)) + BackOf(y[1], y[2] % Cbps)>> = slot
<1> DEFINE i == slot[1]
           p == slot[2]
           C == Cbps
           y == Woven(slot)
<1>1. /\ y[1] = i /\ i \in 0 .. cfg.nss - 1 /\ p % C \in 0 .. C - 1
      /\ p = C * (p \div C) + (p % C)
      /\ y[2] - (y[2] % C) = C * (p \div C)
      /\ y[2] % C = Permuted(i, p % C)
  BY WovenParts
<1>2. BackOf(i, Permuted(i, p % C)) = p % C
  BY <1>1, BackIs
<1>3. Permuted(i, p % C) \in 0 .. C - 1
  BY <1>1, PermutedInjective
<1>4. slot = <<i, p>>
  BY DEF InSlots
<1> HIDE DEF i, p, C, y
<1>5. QED
  BY <1>1, <1>2, <1>3, <1>4, Zenon DEF C, y

-----------------------------------------------------------------------------
(* The invariant.                                                          *)
Stages == {"coded", "punctured", "parsed", "interleaved", "mapped", "demapped",
           "deinterleaved", "recovered"}

Kept == [k \in Sent |-> KeptBefore(k)]
Dealt == [k \in Sent |-> Streamed(KeptBefore(k))]
Spread == [k \in Sent |-> Woven(Streamed(KeptBefore(k)))]
OnAir == [k \in Sent |-> Toned(Woven(Streamed(KeptBefore(k))))]

(* Where every bit is at each stage, as a function of its index: the way   *)
(* back passes through the places of the way there.                        *)
Placed ==
  /\ cfg \in Configs /\ nsym \in Nat \ {0} /\ stage \in Stages
  /\ stage \in {"demapped", "deinterleaved", "recovered"} => HasSelftest
  /\ stage = "coded" => place = [k \in CodedBits |-> k]
  /\ stage \in {"punctured", "recovered"} => place = Kept
  /\ stage \in {"parsed", "deinterleaved"} => place = Dealt
  /\ stage \in {"interleaved", "demapped"} => place = Spread
  /\ stage = "mapped" => place = OnAir

(* No action changes the caller, the rate or the length of the frame.      *)
LEMMA SameFrame ==
  ASSUME cfg' = cfg, nsym' = nsym
  PROVE  /\ HasSelftest' = HasSelftest /\ CodedBits' = CodedBits
         /\ Kept' = Kept /\ Dealt' = Dealt /\ Spread' = Spread /\ OnAir' = OnAir
<1>1. /\ Sent' = Sent /\ CodedBits' = CodedBits /\ HasSelftest' = HasSelftest
      /\ Cbps' = Cbps /\ Bpsc' = Bpsc /\ S' = S /\ NCol' = NCol /\ NRow' = NRow
  BY DEF Sent, CodedBits, Transmitted, HasSelftest, Cbps, Bpsc, S, NCol, NRow
<1>2. \A k : KeptBefore(k)' = KeptBefore(k)
  BY Zenon DEF KeptBefore
<1>3. \A p : Streamed(p)' = Streamed(p)
  BY <1>1, Zenon DEF Streamed, Slot
<1>4. \A k : LegacySource(k)' = LegacySource(k)
  BY <1>1, Zenon DEF LegacySource
<1>5. \A k : LegacyPosition(k)' = LegacyPosition(k)
  BY <1>1, <1>4, Zenon DEF LegacyPosition
<1>6. \A k : HtPosition(k)' = HtPosition(k)
  BY <1>1, Zenon DEF HtPosition
<1>7. \A iss, base, j : Rotated(iss, base, j)' = Rotated(iss, base, j)
  BY <1>1, Zenon DEF Rotated, Jrot
<1>8. \A iss, p : Interleaved(iss, p)' = Interleaved(iss, p)
  BY <1>1, <1>5, <1>6, <1>7, Zenon DEF Interleaved
<1>9. \A a : Woven(a)' = Woven(a)
  BY <1>8, Zenon DEF Woven
<1>10. \A a : Toned(a)' = Toned(a)
  BY <1>1, Zenon DEF Toned
<1>11. Kept' = Kept
  BY <1>1, <1>2, Zenon DEF Kept
<1>12. Dealt' = Dealt
  BY <1>1, <1>2, <1>3, Zenon DEF Dealt
<1>13. Spread' = Spread
  BY <1>1, <1>2, <1>3, <1>9, Zenon DEF Spread
<1>14. OnAir' = OnAir
  BY <1>1, <1>2, <1>3, <1>9, <1>10, Zenon DEF OnAir
<1>15. QED
  BY <1>1, <1>11, <1>12, <1>13, <1>14, Zenon

LEMMA PlacedInit == Init => Placed
<1>1. SUFFICES ASSUME Init PROVE Placed
  OBVIOUS
<1>2. nsym \in Nat \ {0}
  BY <1>1, StreamAssumption DEF Init
<1>3. QED
  BY <1>1, <1>2 DEF Init, Placed, Stages

(* Where a bit that was sent is after each stage. *)
LEMMA Inside ==
  ASSUME cfg \in Configs, nsym \in Nat \ {0}, NEW k \in Sent
  PROVE  /\ KeptBefore(k) \in Flat
         /\ Streamed(KeptBefore(k)) \in InSlots
         /\ Woven(Streamed(KeptBefore(k))) \in InSlots
         /\ Toned(Woven(Streamed(KeptBefore(k)))) \in OnTones
<1>1. KeptBefore(k) \in Flat
  BY KeptBijective
<1>2. Streamed(KeptBefore(k)) \in InSlots
  BY <1>1, DeparseInverts
<1>3. Woven(Streamed(KeptBefore(k))) \in InSlots
  BY <1>2, WovenParts
<1>4. QED
  BY <1>1, <1>2, <1>3, TonedParts

LEMMA PlacedNext == Placed /\ [Next]_vars => Placed'
<1> SUFFICES ASSUME Placed, [Next]_vars
             PROVE  Placed'
  OBVIOUS
<1>0. /\ cfg \in Configs /\ nsym \in Nat \ {0} /\ stage \in Stages
      /\ stage \in {"demapped", "deinterleaved", "recovered"} => HasSelftest
      /\ stage \in {"punctured", "recovered"} => place = Kept
      /\ stage \in {"parsed", "deinterleaved"} => place = Dealt
      /\ stage \in {"interleaved", "demapped"} => place = Spread
      /\ stage = "mapped" => place = OnAir
  BY Zenon DEF Placed
<1>1. CASE Puncture
  <2>1. cfg' = cfg /\ nsym' = nsym /\ stage' = "punctured"
    BY <1>1 DEF Puncture
  <2>2. place' = Kept
    BY <1>1, Zenon DEF Puncture, Kept, Sent
  <2>3. QED
    BY <1>0, <2>1, <2>2, SameFrame DEF Placed, Stages
<1>2. CASE Parse
  <2>1. cfg' = cfg /\ nsym' = nsym /\ stage' = "parsed" /\ stage = "punctured"
    BY <1>2 DEF Parse
  <2>2. place = Kept
    BY <1>0, <2>1
  <2>3. DOMAIN place = Sent /\ \A k \in Sent : place[k] = KeptBefore(k)
    BY <2>2 DEF Kept
  <2>4. place' = Dealt
    BY <1>2, <2>3 DEF Parse, Dealt, Streamed
  <2>5. QED
    BY <1>0, <2>1, <2>4, SameFrame DEF Placed, Stages
<1>3. CASE Interleave
  <2>1. cfg' = cfg /\ nsym' = nsym /\ stage' = "interleaved" /\ stage = "parsed"
    BY <1>3 DEF Interleave
  <2>2. place = Dealt
    BY <1>0, <2>1
  <2>3. DOMAIN place = Sent /\ \A k \in Sent : place[k] = Streamed(KeptBefore(k))
    BY <2>2 DEF Dealt
  <2>4. place' = Spread
    BY <1>3, <2>3 DEF Interleave, Spread, Woven
  <2>5. QED
    BY <1>0, <2>1, <2>4, SameFrame DEF Placed, Stages
<1>4. CASE MapTones
  <2>1. cfg' = cfg /\ nsym' = nsym /\ stage' = "mapped" /\ stage = "interleaved"
    BY <1>4 DEF MapTones
  <2>2. place = Spread
    BY <1>0, <2>1
  <2>3. DOMAIN place = Sent /\ \A k \in Sent : place[k] = Woven(Streamed(KeptBefore(k)))
    BY <2>2 DEF Spread
  <2>4. place' = OnAir
    BY <1>4, <2>3 DEF MapTones, OnAir, Toned
  <2>5. QED
    BY <1>0, <2>1, <2>4, SameFrame DEF Placed, Stages
<1>5. CASE Demap
  <2>1. cfg' = cfg /\ nsym' = nsym /\ stage' = "demapped" /\ stage = "mapped" /\ HasSelftest
    BY <1>5 DEF Demap
  <2>2. place = OnAir
    BY <1>0, <2>1
  <2>3. DOMAIN place = Sent
        /\ \A k \in Sent : place[k] = Toned(Woven(Streamed(KeptBefore(k))))
    BY <2>2 DEF OnAir
  <2>4. place' = [k \in Sent |-> Untoned(place[k])]
    BY <1>5, <2>3, Zenon DEF Demap, Untoned, PointOf
  <2>5. \A k \in Sent : Untoned(place[k]) = Woven(Streamed(KeptBefore(k)))
    BY <1>0, <2>3, Inside, TonedParts
  <2>6. place' = Spread
    BY <2>4, <2>5 DEF Spread
  <2>7. QED
    BY <1>0, <2>1, <2>6, SameFrame DEF Placed, Stages
<1>6. CASE Deinterleave
  <2>1. /\ cfg' = cfg /\ nsym' = nsym /\ stage' = "deinterleaved" /\ stage = "demapped"
        /\ HasSelftest
    BY <1>0, <1>6 DEF Deinterleave
  <2>2. place = Spread
    BY <1>0, <2>1
  <2>3. DOMAIN place = Sent /\ \A k \in Sent : place[k] = Woven(Streamed(KeptBefore(k)))
    BY <2>2 DEF Spread
  <2> DEFINE back == [iss \in 0 .. cfg.nss - 1 |->
                        [q \in 0 .. Cbps - 1 |-> BackOf(iss, q)]]
  <2>4. place' = [k \in Sent |->
                    <<place[k][1], (place[k][2] - (place[k][2] % Cbps))
                                     + back[place[k][1]][place[k][2] % Cbps]>>]
    BY <1>6, <2>3, Zenon DEF Deinterleave, BackOf
  <2>5. ASSUME NEW k \in Sent
        PROVE  <<place[k][1], (place[k][2] - (place[k][2] % Cbps))
                                + back[place[k][1]][place[k][2] % Cbps]>>
                 = Streamed(KeptBefore(k))
    <3> DEFINE slot == Streamed(KeptBefore(k))
               y == Woven(slot)
    <3>1. slot \in InSlots
      BY <1>0, Inside
    <3>2. /\ y[1] \in 0 .. cfg.nss - 1 /\ y[2] % Cbps \in 0 .. Cbps - 1
          /\ <<y[1], (y[2] - (y[2] % Cbps)) + BackOf(y[1], y[2] % Cbps)>> = slot
      <4> HIDE DEF slot
      <4>1. QED
        BY <1>0, <2>1, <3>1, UnwovenIs
    <3>3. place[k] = y
      BY <2>3
    <3> HIDE DEF slot, y
    <3>4. back[y[1]][y[2] % Cbps] = BackOf(y[1], y[2] % Cbps)
      BY <3>2, Zenon
    <3>5. QED
      BY <3>2, <3>3, <3>4, Zenon DEF slot
  <2> HIDE DEF back
  <2>6. place' = Dealt
    BY <2>4, <2>5, Zenon DEF Dealt
  <2>7. QED
    BY <1>0, <2>1, <2>6, SameFrame DEF Placed, Stages
<1>7. CASE Deparse
  <2>1. /\ cfg' = cfg /\ nsym' = nsym /\ stage' = "recovered" /\ stage = "deinterleaved"
        /\ HasSelftest
    BY <1>0, <1>7 DEF Deparse
  <2>2. place = Dealt
    BY <1>0, <2>1
  <2>3. DOMAIN place = Sent /\ \A k \in Sent : place[k] = Streamed(KeptBefore(k))
    BY <2>2 DEF Dealt
  <2>4. place' = [k \in Sent |-> Deparsed(place[k][1], place[k][2])]
    BY <1>7, <2>3, Zenon DEF Deparse, Deparsed
  <2>5. \A k \in Sent : Deparsed(place[k][1], place[k][2]) = KeptBefore(k)
    BY <1>0, <2>3, Inside, DeparseInverts
  <2>6. place' = Kept
    BY <2>4, <2>5 DEF Kept
  <2>7. QED
    BY <1>0, <2>1, <2>6, SameFrame DEF Placed, Stages
<1>8. CASE Finished \/ UNCHANGED vars
  <2>1. cfg' = cfg /\ nsym' = nsym /\ stage' = stage /\ place' = place
    BY <1>8 DEF Finished, vars
  <2>2. QED
    BY <2>1, SameFrame DEF Placed
<1>9. QED
  BY <1>1, <1>2, <1>3, <1>4, <1>5, <1>6, <1>7, <1>8 DEF Next

(* Placed, the inductive invariant: it holds in every reachable state.     *)
THEOREM PlacesInvariant == Spec => []Placed
BY PlacedInit, PlacedNext, PTL DEF Spec

(* Whatever the number of symbols, the self-tests of the two-antenna       *)
(* frames find every bit at its index (mimo_selftest, stbc_selftest).      *)
THEOREM SelftestsRecover == Spec => []RecoversCoded
<1>1. Placed => RecoversCoded
  BY DEF Placed, RecoversCoded, Kept
<1>2. QED
  BY <1>1, PlacesInvariant, PTL

LEMMA SentFinite ==
  ASSUME cfg \in Configs, nsym \in Nat \ {0}
  PROVE  IsFiniteSet(Sent)
<1> DEFINE m == (2 * cfg.rate.num) * AllPeriods
<1>1. CodedBits = 0 .. m - 1 /\ m \in Int
  <2>1. cfg.rate.num \in Nat \ {0} /\ AllPeriods \in Nat \ {0} /\ CodedBits = 0 .. m - 1
    BY FrameSizes
  <2>2. QED
    BY <2>1
<1> HIDE DEF m
<1>2. IsFiniteSet(CodedBits)
  BY <1>1, FS_Interval
<1>3. Sent \in SUBSET CodedBits
  BY DEF Sent
<1>4. QED
  BY <1>2, <1>3, FS_Subset

(* The way from the coder to the tones, composed of its stages.            *)
LEMMA OnAirBijective ==
  ASSUME cfg \in Configs, nsym \in Nat \ {0}
  PROVE  OnAir \in Bijection(Sent, OnTones)
<1>1. OnAir \in [Sent -> OnTones]
  BY Inside DEF OnAir
<1>2. ASSUME NEW k \in Sent, NEW l \in Sent, OnAir[k] = OnAir[l]
      PROVE  k = l
  <2> DEFINE a == Streamed(KeptBefore(k))
             b == Streamed(KeptBefore(l))
  <2>1. Toned(Woven(a)) = Toned(Woven(b))
    BY <1>2 DEF OnAir
  <2>2. /\ KeptBefore(k) \in Flat /\ KeptBefore(l) \in Flat
        /\ a \in InSlots /\ b \in InSlots /\ Woven(a) \in InSlots /\ Woven(b) \in InSlots
    BY Inside
  <2> HIDE DEF a, b
  <2>3. Woven(a) = Woven(b)
    BY <2>1, <2>2, TonedParts
  <2>4. a = b
    BY <2>2, <2>3, WovenInjective
  <2>5. KeptBefore(k) = KeptBefore(l)
    BY <2>2, <2>4, DeparseInverts DEF a, b
  <2>6. QED
    BY <2>5, KeptBijective
<1>3. ASSUME NEW r \in OnTones
      PROVE  \E k \in Sent : OnAir[k] = r
  <2>1. PICK w \in InSlots : Toned(w) = r
    BY TonedOnto
  <2>2. PICK a \in InSlots : Woven(a) = w
    BY WovenOnto
  <2>3. PICK p \in Flat : Streamed(p) = a
    BY StreamedOnto
  <2>4. PICK k \in Sent : KeptBefore(k) = p
    BY KeptBijective
  <2>5. QED
    BY <2>1, <2>2, <2>3, <2>4 DEF OnAir
<1>4. OnAir \in Injection(Sent, OnTones)
  BY <1>1, <1>2 DEF Injection, IsInjective
<1>5. OnAir \in Surjection(Sent, OnTones)
  BY <1>1, <1>3 DEF Surjection
<1>6. QED
  BY <1>4, <1>5 DEF Bijection

(* Whatever the number of symbols, the transmitted bits fill every bit of  *)
(* every data tone exactly once.                                           *)
THEOREM TonesFilledOnce == Spec => []EveryBitOnce
<1>1. Placed => EveryBitOnce
  <2>1. SUFFICES ASSUME Placed, stage = "mapped"
                 PROVE  /\ {place[k] : k \in DOMAIN place} = OnTones
                        /\ Cardinality(DOMAIN place) = Cardinality(OnTones)
    BY Zenon DEF EveryBitOnce, OnTones
  <2>2. cfg \in Configs /\ nsym \in Nat \ {0} /\ place = OnAir
    BY <2>1 DEF Placed
  <2>3. OnAir \in Bijection(Sent, OnTones)
    BY <2>2, OnAirBijective
  <2>4. DOMAIN place = Sent /\ place \in [Sent -> OnTones]
        /\ \A r \in OnTones : \E k \in Sent : place[k] = r
    BY <2>2, <2>3 DEF Bijection, Injection, Surjection
  <2>5. Cardinality(Sent) = Cardinality(OnTones)
    BY <2>2, <2>3, SentFinite, FS_Bijection DEF ExistsBijection
  <2>6. {place[k] : k \in DOMAIN place} = OnTones
    BY <2>4
  <2>7. QED
    BY <2>4, <2>5, <2>6
<1>2. QED
  BY <1>1, PlacesInvariant, PTL

-----------------------------------------------------------------------------
(* The algebra of the links on one tone.                                   *)
LEMMA CombinedParts ==
  ASSUME NEW a \in Int, NEW b \in Int, NEW c \in Int, NEW d \in Int,
         NEW p \in Int, NEW q \in Int, NEW r \in Int, NEW t \in Int
  PROVE  Combined(<<<<a, b>>, <<c, d>>>>, <<<<p, q>>, <<r, t>>>>)
           = <<<<a * p + b * q + c * r + d * t, a * q - b * p + d * r - c * t>>,
               <<a * r + b * t - c * p - d * q, a * t - b * r + c * q - d * p>>>>
<1>1. Times(Conj(<<a, b>>), <<p, q>>) = <<a * p + b * q, a * q - b * p>>
  BY DEF Times, Conj
<1>2. Times(<<c, d>>, Conj(<<r, t>>)) = <<c * r + d * t, d * r - c * t>>
  BY DEF Times, Conj
<1>3. Times(Conj(<<c, d>>), <<p, q>>) = <<c * p + d * q, c * q - d * p>>
  BY DEF Times, Conj
<1>4. Times(<<a, b>>, Conj(<<r, t>>)) = <<a * r + b * t, b * r - a * t>>
  BY DEF Times, Conj
<1> QED
  BY <1>1, <1>2, <1>3, <1>4 DEF Combined, Add, Minus, Conj

(* Combining the two slots of a pair gives back both points, multiplied by *)
(* the gain of the channels (stbc_selftest, "cross-terms cancel"), whatever*)
(* these are.                                                              *)
THEOREM AlamoutiCombines ==
  ASSUME NEW h1 \in Complex, NEW h2 \in Complex,
         NEW s1 \in Complex, NEW s2 \in Complex
  PROVE  LET h == <<h1, h2>>
             s == <<s1, s2>>
         IN  Combined(h, <<Slot0(h, s), Slot1(h, s)>>)
               = <<Times(Real(Gain(h)), s1), Times(Real(Gain(h)), s2)>>
<1> DEFINE h == <<h1, h2>>
           s == <<s1, s2>>
<1>1. PICK a \in Int, b \in Int : h1 = <<a, b>>
  BY DEF Complex
<1>2. PICK c \in Int, d \in Int : h2 = <<c, d>>
  BY DEF Complex
<1>3. PICK e \in Int, f \in Int : s1 = <<e, f>>
  BY DEF Complex
<1>4. PICK u \in Int, v \in Int : s2 = <<u, v>>
  BY DEF Complex
<1> DEFINE p == a * e - b * f - c * u - d * v
           q == a * f + b * e + c * v - d * u
           r == a * u - b * v + c * e + d * f
           t == a * v + b * u + d * e - c * f
           g == a * a + b * b + (c * c + d * d)
<1>5. Slot0(h, s) = <<p, q>>
  BY <1>1, <1>2, <1>3, <1>4 DEF Slot0, Add, Times, Minus, Conj
<1>6. Slot1(h, s) = <<r, t>>
  BY <1>1, <1>2, <1>3, <1>4 DEF Slot1, Add, Times, Minus, Conj
<1>7. Gain(h) = g
  BY <1>1, <1>2 DEF Gain, Norm
<1>8. /\ a * p + b * q + c * r + d * t = g * e
      /\ a * q - b * p + d * r - c * t = g * f
      /\ a * r + b * t - c * p - d * q = g * u
      /\ a * t - b * r + c * q - d * p = g * v
  OBVIOUS
<1>9. /\ Times(Real(g), s1) = <<g * e, g * f>>
      /\ Times(Real(g), s2) = <<g * u, g * v>>
  BY <1>3, <1>4 DEF Times, Real
<1>10. Combined(h, <<<<p, q>>, <<r, t>>>>) = <<<<g * e, g * f>>, <<g * u, g * v>>>>
  <2>1. p \in Int /\ q \in Int /\ r \in Int /\ t \in Int
    OBVIOUS
  <2> HIDE DEF p, q, r, t, g
  <2>2. Combined(<<<<a, b>>, <<c, d>>>>, <<<<p, q>>, <<r, t>>>>)
          = <<<<a * p + b * q + c * r + d * t, a * q - b * p + d * r - c * t>>,
              <<a * r + b * t - c * p - d * q, a * t - b * r + c * q - d * p>>>>
    BY <2>1, CombinedParts, SMTT(30)
  <2> QED
    BY <1>1, <1>2, <1>8, <2>2, Zenon
<1> HIDE DEF p, q, r, t, g
<1> QED
  BY <1>5, <1>6, <1>7, <1>9, <1>10

-----------------------------------------------------------------------------
(* The training symbols give the channels away: what the receivers compute *)
(* from the two of them is twice each channel, for the sign matrix of the  *)
(* STBC frame (comment in gen_ht_stbc, "so the RX recovers") and of the    *)
(* MIMO frame.                                                             *)
THEOREM ChannelsEstimated ==
  ASSUME NEW h1 \in Complex, NEW h2 \in Complex
  PROVE  LET h == <<h1, h2>>
             twice == <<Times(Real(2), h1), Times(Real(2), h2)>>
         IN  /\ TwiceEstimated(Training(P_STBC, h, 1), Training(P_STBC, h, 2)) = twice
             /\ TwiceInverse(Training(P2, h, 1), Training(P2, h, 2)) = twice
<1> DEFINE h == <<h1, h2>>
<1>1. PICK a \in Int, b \in Int : h1 = <<a, b>>
  BY DEF Complex
<1>2. PICK c \in Int, d \in Int : h2 = <<c, d>>
  BY DEF Complex
<1>3. /\ Training(P_STBC, h, 1) = <<a + c, b + d>>
      /\ Training(P_STBC, h, 2) = <<c - a, d - b>>
  BY <1>1, <1>2 DEF Training, P_STBC, Add, Times, Real
<1>4. /\ Training(P2, h, 1) = <<a - c, b - d>>
      /\ Training(P2, h, 2) = <<a + c, b + d>>
  BY <1>1, <1>2 DEF Training, P2, Add, Times, Real
<1>5. /\ Times(Real(2), h1) = <<2 * a, 2 * b>>
      /\ Times(Real(2), h2) = <<2 * c, 2 * d>>
  BY <1>1, <1>2 DEF Times, Real
<1>6. TwiceEstimated(<<a + c, b + d>>, <<c - a, d - b>>) = <<<<2 * a, 2 * b>>, <<2 * c, 2 * d>>>>
  BY DEF TwiceEstimated, Add, Minus
<1>7. TwiceInverse(<<a - c, b - d>>, <<a + c, b + d>>) = <<<<2 * a, 2 * b>>, <<2 * c, 2 * d>>>>
  BY DEF TwiceInverse, Add, Minus
<1> QED
  BY <1>3, <1>4, <1>5, <1>6, <1>7

(* Zero forcing separates the streams for every channel matrix: each point *)
(* comes back multiplied by the determinant (mimo_selftest).               *)
THEOREM ZeroForcingSeparates ==
  ASSUME NEW a \in Complex, NEW b \in Complex, NEW c \in Complex, NEW d \in Complex,
         NEW e \in Complex, NEW f \in Complex
  PROVE  LET H == <<<<a, b>>, <<c, d>>>>
         IN  Solved(H, Heard(H, <<e, f>>)) = <<Times(Det(H), e), Times(Det(H), f)>>
<1>a. PICK a1 \in Int, a2 \in Int : a = <<a1, a2>>
  BY DEF Complex
<1>b. PICK b1 \in Int, b2 \in Int : b = <<b1, b2>>
  BY DEF Complex
<1>c. PICK c1 \in Int, c2 \in Int : c = <<c1, c2>>
  BY DEF Complex
<1>d. PICK d1 \in Int, d2 \in Int : d = <<d1, d2>>
  BY DEF Complex
<1>e. PICK e1 \in Int, e2 \in Int : e = <<e1, e2>>
  BY DEF Complex
<1>f. PICK f1 \in Int, f2 \in Int : f = <<f1, f2>>
  BY DEF Complex
<1> DEFINE H == <<<<<<a1, a2>>, <<b1, b2>>>>, <<<<c1, c2>>, <<d1, d2>>>>>>
           x == <<<<e1, e2>>, <<f1, f2>>>>
           p == a1 * e1 - a2 * e2 + b1 * f1 - b2 * f2
           q == a1 * e2 + a2 * e1 + b1 * f2 + b2 * f1
           r == c1 * e1 - c2 * e2 + d1 * f1 - d2 * f2
           t == c1 * e2 + c2 * e1 + d1 * f2 + d2 * f1
           m == a1 * d1 - a2 * d2 - b1 * c1 + b2 * c2
           n == a1 * d2 + a2 * d1 - b1 * c2 - b2 * c1
<1>1. Heard(H, x)[1] = <<p, q>> /\ Heard(H, x)[2] = <<r, t>>
  BY DEF Heard, Add, Times
<1>2. Det(H) = <<m, n>>
  BY DEF Det, Add, Times, Minus
<1>3. /\ d1 * p - d2 * q - b1 * r + b2 * t = m * e1 - n * e2
      /\ d1 * q + d2 * p - b1 * t - b2 * r = m * e2 + n * e1
      /\ a1 * r - a2 * t - c1 * p + c2 * q = m * f1 - n * f2
      /\ a1 * t + a2 * r - c1 * q - c2 * p = m * f2 + n * f1
  OBVIOUS
<1>4. p \in Int /\ q \in Int /\ r \in Int /\ t \in Int /\ m \in Int /\ n \in Int
  OBVIOUS
<1> HIDE DEF p, q, r, t, m, n
<1>5. Solved(H, Heard(H, x))
        = <<<<d1 * p - d2 * q - b1 * r + b2 * t, d1 * q + d2 * p - b1 * t - b2 * r>>,
            <<a1 * r - a2 * t - c1 * p + c2 * q, a1 * t + a2 * r - c1 * q - c2 * p>>>>
  <2>1. /\ Times(<<d1, d2>>, <<p, q>>) = <<d1 * p - d2 * q, d1 * q + d2 * p>>
        /\ Times(<<b1, b2>>, <<r, t>>) = <<b1 * r - b2 * t, b1 * t + b2 * r>>
        /\ Times(<<a1, a2>>, <<r, t>>) = <<a1 * r - a2 * t, a1 * t + a2 * r>>
        /\ Times(<<c1, c2>>, <<p, q>>) = <<c1 * p - c2 * q, c1 * q + c2 * p>>
    BY <1>4 DEF Times
  <2> QED
    <3>1. Solved(H, Heard(H, x))
            = <<Add(Times(<<d1, d2>>, <<p, q>>), Minus(Times(<<b1, b2>>, <<r, t>>))),
                Add(Times(<<a1, a2>>, <<r, t>>), Minus(Times(<<c1, c2>>, <<p, q>>)))>>
      BY <1>1 DEF Solved
    <3> QED
      BY <1>4, <2>1, <3>1 DEF Add, Minus
<1>6. /\ Times(<<m, n>>, <<e1, e2>>) = <<m * e1 - n * e2, m * e2 + n * e1>>
      /\ Times(<<m, n>>, <<f1, f2>>) = <<m * f1 - n * f2, m * f2 + n * f1>>
  BY <1>4 DEF Times
<1>7. Solved(H, Heard(H, x)) = <<<<m * e1 - n * e2, m * e2 + n * e1>>,
                                <<m * f1 - n * f2, m * f2 + n * f1>>>>
  BY <1>3, <1>5, Zenon
<1> QED
  BY <1>a, <1>b, <1>c, <1>d, <1>e, <1>f, <1>2, <1>6, <1>7, Zenon

(* The bits of a point. *)
LEMMA ValuesAre ==
  /\ Values(1) = 0 .. 1 /\ Values(2) = 0 .. 3
  /\ Values(4) = 0 .. 15 /\ Values(6) = 0 .. 63
<1>1. 2^1 = 2 /\ 2^2 = 4 /\ 2^4 = 16 /\ 2^6 = 64
  OBVIOUS
<1>2. QED
  BY <1>1 DEF Values

LEMMA LevelsDistinct ==
  /\ \A i \in 0 .. 3 : Levels16[i + 1] \in Int
  /\ \A i, j \in 0 .. 3 : Levels16[i + 1] = Levels16[j + 1] => i = j
  /\ \A i \in 0 .. 7 : Levels64[i + 1] \in Int
  /\ \A i, j \in 0 .. 7 : Levels64[i + 1] = Levels64[j + 1] => i = j
BY DEF Levels16, Levels64

LEMMA PointsDistinct ==
  ASSUME NEW b \in Bpscs
  PROVE  /\ \A v \in Values(b) : Point(b, v) \in Complex
         /\ \A v, w \in Values(b) : Point(b, v) = Point(b, w) => v = w
<1>1. CASE b = 1
  BY <1>1, ValuesAre DEF Point, Complex
<1>2. CASE b = 2
  BY <1>2, ValuesAre DEF Point, Complex
<1>3. CASE b = 4
  <2>1. ASSUME NEW v \in 0 .. 15
        PROVE  v % 4 \in 0 .. 3 /\ v \div 4 \in 0 .. 3 /\ v = 4 * (v \div 4) + (v % 4)
    OBVIOUS
  <2>2. \A v : Point(b, v) = <<Levels16[(v % 4) + 1], Levels16[(v \div 4) + 1]>>
    BY <1>3 DEF Point
  <2>3. QED
    BY <1>3, <2>1, <2>2, ValuesAre, LevelsDistinct DEF Complex
<1>4. CASE b = 6
  <2>1. ASSUME NEW v \in 0 .. 63
        PROVE  v % 8 \in 0 .. 7 /\ v \div 8 \in 0 .. 7 /\ v = 8 * (v \div 8) + (v % 8)
    OBVIOUS
  <2>2. \A v : Point(b, v) = <<Levels64[(v % 8) + 1], Levels64[(v \div 8) + 1]>>
    BY <1>4 DEF Point
  <2>3. QED
    BY <1>4, <2>1, <2>2, ValuesAre, LevelsDistinct DEF Complex
<1>5. QED
  BY <1>1, <1>2, <1>3, <1>4 DEF Bpscs

(* The difference of two points times d is d times their difference. *)
LEMMA DifferenceScaled ==
  ASSUME NEW a \in Int, NEW b \in Int, NEW p \in Int, NEW q \in Int,
         NEW r1 \in Int, NEW t \in Int
  PROVE  Norm(Add(Times(<<a, b>>, <<p, q>>), Minus(Times(<<a, b>>, <<r1, t>>))))
           = (a * a + b * b) * ((p - r1) * (p - r1) + (q - t) * (q - t))
<1> DEFINE u == p - r1
           v == q - t
<1>1. Add(Times(<<a, b>>, <<p, q>>), Minus(Times(<<a, b>>, <<r1, t>>)))
        = <<a * u - b * v, a * v + b * u>>
  BY DEF Add, Times, Minus
<1>2. u \in Int /\ v \in Int
  OBVIOUS
<1> HIDE DEF u, v
<1>3. Norm(<<a * u - b * v, a * v + b * u>>) = (a * a + b * b) * (u * u + v * v)
  BY <1>2 DEF Norm
<1>4. QED
  BY <1>1, <1>3 DEF u, v

LEMMA Squares ==
  ASSUME NEW u \in Int, NEW v \in Int
  PROVE  u * u + v * v >= 0 /\ (u * u + v * v = 0 => u = 0 /\ v = 0)
<1>1. u * u >= 0 /\ (u * u = 0 => u = 0)
  OBVIOUS
<1>2. v * v >= 0 /\ (v * v = 0 => v = 0)
  OBVIOUS
<1>3. u * u \in Int /\ v * v \in Int
  OBVIOUS
<1>4. QED
  BY <1>1, <1>2, <1>3

(* The nearest point to a scaled point is the point.                       *)
LEMMA DemapExact ==
  ASSUME NEW b \in Bpscs, NEW v \in Values(b), NEW d \in Complex, d # <<0, 0>>
  PROVE  Demapped(b, Times(d, Point(b, v)), d) = v
<1> DEFINE dist(w) == Distance(b, w, Times(d, Point(b, v)), d)
<1>1. PICK x \in Int, y \in Int : d = <<x, y>>
  BY DEF Complex
<1>2. PICK p \in Int, q \in Int : Point(b, v) = <<p, q>>
  BY PointsDistinct DEF Complex
<1>3. x * x + y * y > 0
  <2>1. x # 0 \/ y # 0
    BY <1>1
  <2>2. x * x + y * y \in Int
    OBVIOUS
  <2>3. QED
    BY <2>1, <2>2, Squares
<1>4. ASSUME NEW w \in Values(b)
      PROVE  dist(w) \in Int /\ dist(w) >= 0 /\ (dist(w) = 0 <=> w = v)
  <2>1. PICK e \in Int, f \in Int : Point(b, w) = <<e, f>>
    BY PointsDistinct DEF Complex
  <2> DEFINE m == x * x + y * y
             k == (p - e) * (p - e) + (q - f) * (q - f)
  <2>2. dist(w) = m * k
    BY <1>1, <1>2, <2>1, DifferenceScaled DEF Distance
  <2>3. m \in Int /\ k \in Int /\ m > 0
    BY <1>3
  <2>4. k >= 0 /\ (k = 0 => p = e /\ q = f)
    <3>1. p - e \in Int /\ q - f \in Int
      OBVIOUS
    <3>2. k >= 0 /\ (k = 0 => p - e = 0 /\ q - f = 0)
      BY <3>1, Squares
    <3>3. QED
      BY <3>2
  <2>5. p = e /\ q = f => k = 0
    OBVIOUS
  <2>6. k = 0 <=> w = v
    BY <1>2, <2>1, <2>4, <2>5, PointsDistinct
  <2> HIDE DEF m, k
  <2>7. m * k \in Int /\ m * k >= 0 /\ (m * k = 0 <=> k = 0)
    BY <2>3, <2>4
  <2>8. QED
    BY <2>2, <2>6, <2>7
<1> HIDE DEF dist
<1>5. \A w \in Values(b) : dist(v) <= dist(w)
  BY <1>4
<1>6. ASSUME NEW u \in Values(b), \A w \in Values(b) : dist(u) <= dist(w)
      PROVE  u = v
  BY <1>4, <1>6
<1>7. Demapped(b, Times(d, Point(b, v)), d) =
        CHOOSE u \in Values(b) : \A w \in Values(b) : dist(u) <= dist(w)
  BY DEF Demapped, dist
<1>8. QED
  BY <1>5, <1>6, <1>7

-----------------------------------------------------------------------------
(* Doubling a factor doubles a product, and a sum.                         *)
LEMMA TwiceTimes ==
  ASSUME NEW x \in Complex, NEW y \in Complex
  PROVE  /\ Times(x, y) \in Complex /\ Add(x, y) \in Complex /\ Conj(x) \in Complex
         /\ Minus(x) \in Complex /\ Times(Real(2), x) \in Complex
         /\ Times(Times(Real(2), x), y) = Times(Real(2), Times(x, y))
         /\ Times(Conj(Times(Real(2), x)), y) = Times(Real(2), Times(Conj(x), y))
         /\ Add(Times(Real(2), x), Times(Real(2), y)) = Times(Real(2), Add(x, y))
         /\ Minus(Times(Real(2), x)) = Times(Real(2), Minus(x))
         /\ Conj(Times(Real(2), x)) = Times(Real(2), Conj(x))
<1>1. PICK a \in Int, b \in Int : x = <<a, b>>
  BY DEF Complex
<1>2. PICK c \in Int, d \in Int : y = <<c, d>>
  BY DEF Complex
<1>3. Times(Real(2), x) = <<2 * a, 2 * b>> /\ Times(Real(2), y) = <<2 * c, 2 * d>>
  BY <1>1, <1>2 DEF Times, Real
<1>4. Times(x, y) = <<a * c - b * d, a * d + b * c>> /\ Add(x, y) = <<a + c, b + d>>
      /\ Conj(x) = <<a, -b>> /\ Minus(x) = <<-a, -b>>
  BY <1>1, <1>2 DEF Times, Add, Conj, Minus
<1>5. Times(<<2 * a, 2 * b>>, y) = Times(Real(2), <<a * c - b * d, a * d + b * c>>)
  BY <1>2 DEF Times, Real
<1>6. Times(Conj(<<2 * a, 2 * b>>), y) = Times(Real(2), Times(<<a, -b>>, y))
  BY <1>2 DEF Times, Real, Conj
<1>7. Add(<<2 * a, 2 * b>>, <<2 * c, 2 * d>>) = Times(Real(2), <<a + c, b + d>>)
  BY DEF Add, Times, Real
<1>8. Minus(<<2 * a, 2 * b>>) = Times(Real(2), <<-a, -b>>)
      /\ Conj(<<2 * a, 2 * b>>) = Times(Real(2), <<a, -b>>)
  BY DEF Minus, Conj, Times, Real
<1>9. /\ Times(x, y) \in Complex /\ Add(x, y) \in Complex /\ Conj(x) \in Complex
      /\ Minus(x) \in Complex /\ Times(Real(2), x) \in Complex
  BY <1>3, <1>4 DEF Complex
<1>10. QED
  BY <1>3, <1>4, <1>5, <1>6, <1>7, <1>8, <1>9, Zenon

(* So does doubling the channels of a receiver.                            *)
LEMMA CombinedTwice ==
  ASSUME NEW h1 \in Complex, NEW h2 \in Complex, NEW y1 \in Complex, NEW y2 \in Complex
  PROVE  LET z == Combined(<<h1, h2>>, <<y1, y2>>)
         IN  Combined(<<Times(Real(2), h1), Times(Real(2), h2)>>, <<y1, y2>>)
               = <<Times(Real(2), z[1]), Times(Real(2), z[2])>>
<1> DEFINE u1 == Times(Conj(h1), y1)
           u2 == Times(h2, Conj(y2))
           u3 == Times(Conj(h2), y1)
           u4 == Times(h1, Conj(y2))
<1>1. Conj(y2) \in Complex /\ u1 \in Complex /\ u2 \in Complex /\ u3 \in Complex
      /\ u4 \in Complex
  BY TwiceTimes
<1>2. /\ Times(Conj(Times(Real(2), h1)), y1) = Times(Real(2), u1)
      /\ Times(Times(Real(2), h2), Conj(y2)) = Times(Real(2), u2)
      /\ Times(Conj(Times(Real(2), h2)), y1) = Times(Real(2), u3)
      /\ Times(Times(Real(2), h1), Conj(y2)) = Times(Real(2), u4)
  BY <1>1, TwiceTimes
<1>3. Combined(<<h1, h2>>, <<y1, y2>>) = <<Add(u1, u2), Minus(Conj(Add(u3, Minus(u4))))>>
  BY DEF Combined
<1>4. Combined(<<Times(Real(2), h1), Times(Real(2), h2)>>, <<y1, y2>>)
        = <<Add(Times(Real(2), u1), Times(Real(2), u2)),
            Minus(Conj(Add(Times(Real(2), u3), Minus(Times(Real(2), u4)))))>>
  BY <1>2 DEF Combined
<1> HIDE DEF u1, u2, u3, u4
<1>5. Add(Times(Real(2), u1), Times(Real(2), u2)) = Times(Real(2), Add(u1, u2))
  BY <1>1, TwiceTimes
<1>6. /\ Minus(u4) \in Complex /\ Add(u3, Minus(u4)) \in Complex
      /\ Conj(Add(u3, Minus(u4))) \in Complex
  BY <1>1, TwiceTimes
<1>7. Minus(Conj(Add(Times(Real(2), u3), Minus(Times(Real(2), u4)))))
        = Times(Real(2), Minus(Conj(Add(u3, Minus(u4)))))
  <2>1. Minus(Times(Real(2), u4)) = Times(Real(2), Minus(u4))
    BY <1>1, TwiceTimes
  <2>2. Add(Times(Real(2), u3), Times(Real(2), Minus(u4)))
          = Times(Real(2), Add(u3, Minus(u4)))
    BY <1>1, <1>6, TwiceTimes
  <2>3. Conj(Times(Real(2), Add(u3, Minus(u4)))) = Times(Real(2), Conj(Add(u3, Minus(u4))))
    BY <1>6, TwiceTimes
  <2>4. Minus(Times(Real(2), Conj(Add(u3, Minus(u4)))))
          = Times(Real(2), Minus(Conj(Add(u3, Minus(u4)))))
    BY <1>6, TwiceTimes
  <2>5. QED
    BY <2>1, <2>2, <2>3, <2>4, Zenon
<1>8. QED
  BY <1>3, <1>4, <1>5, <1>7

LEMMA SolvedTwice ==
  ASSUME NEW a \in Complex, NEW b \in Complex, NEW c \in Complex, NEW d \in Complex,
         NEW y1 \in Complex, NEW y2 \in Complex
  PROVE  LET two(x) == Times(Real(2), x)
             z == Solved(<<<<a, b>>, <<c, d>>>>, <<y1, y2>>)
         IN  /\ Solved(<<<<two(a), two(b)>>, <<two(c), two(d)>>>>, <<y1, y2>>)
                  = <<two(z[1]), two(z[2])>>
             /\ Det(<<<<two(a), two(b)>>, <<two(c), two(d)>>>>)
                  = two(two(Det(<<<<a, b>>, <<c, d>>>>)))
<1> DEFINE two(x) == Times(Real(2), x)
           u1 == Times(d, y1)
           u2 == Times(b, y2)
           u3 == Times(a, y2)
           u4 == Times(c, y1)
<1>1. u1 \in Complex /\ u2 \in Complex /\ u3 \in Complex /\ u4 \in Complex
  BY TwiceTimes
<1>2. /\ Times(two(d), y1) = two(u1) /\ Times(two(b), y2) = two(u2)
      /\ Times(two(a), y2) = two(u3) /\ Times(two(c), y1) = two(u4)
  BY TwiceTimes
<1>3. Solved(<<<<a, b>>, <<c, d>>>>, <<y1, y2>>) = <<Add(u1, Minus(u2)), Add(u3, Minus(u4))>>
  BY DEF Solved
<1>4. Solved(<<<<two(a), two(b)>>, <<two(c), two(d)>>>>, <<y1, y2>>)
        = <<Add(two(u1), Minus(two(u2))), Add(two(u3), Minus(two(u4)))>>
  BY <1>2 DEF Solved
<1> HIDE DEF u1, u2, u3, u4
<1>5. ASSUME NEW v \in Complex, NEW w \in Complex
      PROVE  Add(two(v), Minus(two(w))) = two(Add(v, Minus(w)))
  <2>1. Minus(w) \in Complex /\ Minus(two(w)) = two(Minus(w))
    BY TwiceTimes
  <2>2. QED
    BY <2>1, TwiceTimes
<1>6. Det(<<<<a, b>>, <<c, d>>>>) = Add(Times(a, d), Minus(Times(b, c)))
  BY DEF Det
<1>7. ASSUME NEW v \in Complex, NEW w \in Complex
      PROVE  Times(two(v), two(w)) = two(two(Times(v, w)))
  <2>1. PICK e \in Int, f \in Int : v = <<e, f>>
    BY DEF Complex
  <2>2. PICK g \in Int, h \in Int : w = <<g, h>>
    BY DEF Complex
  <2>3. two(v) = <<2 * e, 2 * f>> /\ two(w) = <<2 * g, 2 * h>>
    BY <2>1, <2>2 DEF Times, Real
  <2>4. Times(v, w) = <<e * g - f * h, e * h + f * g>>
    BY <2>1, <2>2 DEF Times
  <2>5. two(two(<<e * g - f * h, e * h + f * g>>))
          = <<4 * (e * g - f * h), 4 * (e * h + f * g)>>
    <3> DEFINE x == e * g - f * h
               y == e * h + f * g
    <3>1. x \in Int /\ y \in Int
      OBVIOUS
    <3> HIDE DEF x, y
    <3>2. two(two(<<x, y>>)) = <<4 * x, 4 * y>>
      BY <3>1 DEF Times, Real
    <3>3. QED
      BY <3>2 DEF x, y
  <2>6. Times(<<2 * e, 2 * f>>, <<2 * g, 2 * h>>)
          = <<4 * (e * g - f * h), 4 * (e * h + f * g)>>
    BY DEF Times
  <2>7. QED
    BY <2>3, <2>4, <2>5, <2>6, Zenon
<1>8. Det(<<<<two(a), two(b)>>, <<two(c), two(d)>>>>)
        = Add(two(two(Times(a, d))), Minus(two(two(Times(b, c)))))
  BY <1>7 DEF Det
<1>9. Times(a, d) \in Complex /\ Times(b, c) \in Complex
      /\ two(Times(a, d)) \in Complex /\ two(Times(b, c)) \in Complex
  BY TwiceTimes
<1>10. Add(two(two(Times(a, d))), Minus(two(two(Times(b, c)))))
         = two(two(Add(Times(a, d), Minus(Times(b, c)))))
  BY <1>5, <1>9
<1> HIDE DEF two
<1>11. QED
  BY <1>1, <1>3, <1>4, <1>5, <1>6, <1>8, <1>10 DEF two

-----------------------------------------------------------------------------
(* The STBC link gives back both values, whatever channels it has heard.   *)
LEMMA StbcInverts ==
  ASSUME NEW h \in [{1, 2} -> Complex], Gain(h) # 0, Bpsc \in Bpscs,
         NEW vs \in Values(Bpsc) \X Values(Bpsc)
  PROVE  StbcReceived(h, vs) = vs
<1> DEFINE h1 == h[1]
           h2 == h[2]
           hh == <<h1, h2>>
           e == <<Times(Real(2), h1), Times(Real(2), h2)>>
           s1 == Point(Bpsc, vs[1])
           s2 == Point(Bpsc, vs[2])
           s == <<s1, s2>>
           g == Gain(h)
           y1 == Slot0(hh, s)
           y2 == Slot1(hh, s)
<1>1. h1 \in Complex /\ h2 \in Complex
  OBVIOUS
<1>2. vs[1] \in Values(Bpsc) /\ vs[2] \in Values(Bpsc) /\ vs = <<vs[1], vs[2]>>
  OBVIOUS
<1>3. s1 \in Complex /\ s2 \in Complex
  BY <1>2, PointsDistinct
<1>4. /\ Training(P_STBC, h, 1) = Training(P_STBC, hh, 1)
      /\ Training(P_STBC, h, 2) = Training(P_STBC, hh, 2)
      /\ Slot0(h, s) = y1 /\ Slot1(h, s) = y2 /\ Gain(hh) = g
  BY DEF Training, Slot0, Slot1, Gain
<1>5. TwiceEstimated(Training(P_STBC, h, 1), Training(P_STBC, h, 2)) = e
  BY <1>1, <1>4, ChannelsEstimated
<1>6. Combined(hh, <<y1, y2>>) = <<Times(Real(g), s1), Times(Real(g), s2)>>
  BY <1>1, <1>3, <1>4, AlamoutiCombines
<1>7. y1 \in Complex /\ y2 \in Complex
  <2>1. Minus(Conj(s2)) \in Complex /\ Conj(s1) \in Complex
    BY <1>3, TwiceTimes
  <2>2. /\ Times(h1, s1) \in Complex /\ Times(h2, Minus(Conj(s2))) \in Complex
        /\ Times(h1, s2) \in Complex /\ Times(h2, Conj(s1)) \in Complex
    BY <1>1, <1>3, <2>1, TwiceTimes
  <2>3. QED
    BY <2>2, TwiceTimes DEF Slot0, Slot1
<1>8. Combined(e, <<y1, y2>>) = <<Times(Real(2), Times(Real(g), s1)),
                                  Times(Real(2), Times(Real(g), s2))>>
  BY <1>1, <1>6, <1>7, CombinedTwice
<1>9. g \in Int /\ g # 0 /\ Gain(e) \div 2 = 2 * g
  <2>1. PICK a \in Int, b \in Int : h1 = <<a, b>>
    BY <1>1 DEF Complex
  <2>2. PICK c \in Int, d \in Int : h2 = <<c, d>>
    BY <1>1 DEF Complex
  <2>3. g = a * a + b * b + (c * c + d * d)
    BY <2>1, <2>2 DEF Gain, Norm
  <2>4. e = <<<<2 * a, 2 * b>>, <<2 * c, 2 * d>>>>
    BY <2>1, <2>2 DEF Times, Real
  <2>5. Gain(<<<<2 * a, 2 * b>>, <<2 * c, 2 * d>>>>)
          = 4 * (a * a + b * b + (c * c + d * d))
    BY DEF Gain, Norm
  <2>6. g \in Int /\ Gain(e) = 4 * g
    BY <2>3, <2>4, <2>5
  <2> HIDE DEF g, e
  <2>7. Gain(e) \div 2 = 2 * g
    BY <2>6
  <2>8. QED
    BY <2>6, <2>7 DEF g
<1> DEFINE d == Real(2 * g)
<1>10. d \in Complex /\ d # <<0, 0>>
  <2> HIDE DEF g
  <2>1. 2 * g \in Int /\ 2 * g # 0
    BY <1>9
  <2>2. QED
    BY <2>1 DEF Real, Complex
<1>11. ASSUME NEW x \in Complex
       PROVE  Times(Real(2), Times(Real(g), x)) = Times(d, x)
  <2> HIDE DEF g
  <2>1. PICK a \in Int, b \in Int : x = <<a, b>>
    BY DEF Complex
  <2>2. Times(Real(g), x) = <<g * a, g * b>> /\ Times(d, x) = <<2 * g * a, 2 * g * b>>
    BY <1>9, <2>1 DEF Times, Real
  <2>3. Times(Real(2), <<g * a, g * b>>) = <<2 * g * a, 2 * g * b>>
    BY <1>9 DEF Times, Real
  <2>4. QED
    BY <2>2, <2>3
<1>12. Combined(e, <<y1, y2>>) = <<Times(d, s1), Times(d, s2)>>
  BY <1>3, <1>8, <1>11
<1>13. /\ Demapped(Bpsc, Times(d, s1), d) = vs[1]
       /\ Demapped(Bpsc, Times(d, s2), d) = vs[2]
  BY <1>2, <1>10, DemapExact
<1>14. Points(vs) = s
  BY DEF Points
<1>15. StbcReceived(h, vs) = <<Demapped(Bpsc, Times(d, s1), d), Demapped(Bpsc, Times(d, s2), d)>>
  <2> HIDE DEF y1, y2, s, e, g, d, s1, s2
  <2>1. Real(Gain(e) \div 2) = d
    BY <1>9 DEF d
  <2>2. Points(vs) = s /\ <<Slot0(h, Points(vs)), Slot1(h, Points(vs))>> = <<y1, y2>>
    BY <1>4, <1>14
  <2>3. QED
    BY <1>5, <1>12, <2>1, <2>2 DEF StbcReceived
<1>16. QED
  BY <1>2, <1>13, <1>15

(* So does the MIMO link, through every channel that can be inverted.      *)
LEMMA MimoInverts ==
  ASSUME NEW H \in [{1, 2} -> [{1, 2} -> Complex]], Det(H) # <<0, 0>>, Bpsc \in Bpscs,
         NEW vs \in Values(Bpsc) \X Values(Bpsc)
  PROVE  MimoReceived(H, vs) = vs
<1> DEFINE two(x) == Times(Real(2), x)
           a == H[1][1]
           b == H[1][2]
           c == H[2][1]
           d == H[2][2]
           HH == <<<<a, b>>, <<c, d>>>>
           GG == <<<<two(a), two(b)>>, <<two(c), two(d)>>>>
           G == TwiceChannel(H)
           s1 == Point(Bpsc, vs[1])
           s2 == Point(Bpsc, vs[2])
           s == <<s1, s2>>
           y == Heard(H, s)
           y1 == y[1]
           y2 == y[2]
<1>1. a \in Complex /\ b \in Complex /\ c \in Complex /\ d \in Complex
  OBVIOUS
<1>2. vs[1] \in Values(Bpsc) /\ vs[2] \in Values(Bpsc) /\ vs = <<vs[1], vs[2]>>
  OBVIOUS
<1>3. s1 \in Complex /\ s2 \in Complex
  BY <1>2, PointsDistinct
<1>4. G[1] = <<two(a), two(b)>> /\ G[2] = <<two(c), two(d)>>
  <2>1. /\ TwiceInverse(Training(P2, <<a, b>>, 1), Training(P2, <<a, b>>, 2))
              = <<two(a), two(b)>>
        /\ TwiceInverse(Training(P2, <<c, d>>, 1), Training(P2, <<c, d>>, 2))
              = <<two(c), two(d)>>
    BY <1>1, ChannelsEstimated
  <2>2. /\ Training(P2, H[1], 1) = Training(P2, <<a, b>>, 1)
        /\ Training(P2, H[1], 2) = Training(P2, <<a, b>>, 2)
        /\ Training(P2, H[2], 1) = Training(P2, <<c, d>>, 1)
        /\ Training(P2, H[2], 2) = Training(P2, <<c, d>>, 2)
    BY DEF Training
  <2>3. G[1] = TwiceInverse(Training(P2, H[1], 1), Training(P2, H[1], 2))
        /\ G[2] = TwiceInverse(Training(P2, H[2], 1), Training(P2, H[2], 2))
    BY DEF TwiceChannel
  <2>4. QED
    BY <2>1, <2>2, <2>3
<1>5. /\ \A u : Solved(G, u) = Solved(GG, u)
      /\ Det(G) = Det(GG) /\ Det(H) = Det(HH)
      /\ y1 = Heard(HH, s)[1] /\ y2 = Heard(HH, s)[2]
  BY <1>4 DEF Solved, Det, Heard
<1>a. \A u, v \in Complex : Add(u, v) \in Complex
  BY TwiceTimes
<1>6. y1 \in Complex /\ y2 \in Complex
  <2>1. /\ Times(a, s1) \in Complex /\ Times(b, s2) \in Complex
        /\ Times(c, s1) \in Complex /\ Times(d, s2) \in Complex
    BY <1>1, <1>3, TwiceTimes
  <2>2. y1 = Add(Times(a, s1), Times(b, s2)) /\ y2 = Add(Times(c, s1), Times(d, s2))
    BY DEF Heard
  <2>3. QED
    BY <1>a, <2>1, <2>2
<1>7. Solved(HH, <<y1, y2>>) = <<Times(Det(HH), s1), Times(Det(HH), s2)>>
  <2>8. Solved(HH, Heard(HH, s)) = <<Times(Det(HH), s1), Times(Det(HH), s2)>>
    BY <1>1, <1>3, ZeroForcingSeparates
  <2>9. Solved(HH, Heard(HH, s)) = Solved(HH, <<y1, y2>>)
    BY <1>5 DEF Solved
  <2>10. QED
    BY <2>8, <2>9
<1> DEFINE D == Det(HH)
           DD == Det(GG)
<1>8. D \in Complex
  <2>1. Times(a, d) \in Complex /\ Times(b, c) \in Complex
    BY <1>1, TwiceTimes
  <2>2. Minus(Times(b, c)) \in Complex
    BY <2>1, TwiceTimes
  <2>3. D = Add(Times(a, d), Minus(Times(b, c)))
    BY DEF Det
  <2>4. QED
    BY <1>a, <2>1, <2>2, <2>3
<1>9. Solved(GG, <<y1, y2>>) = <<two(Times(D, s1)), two(Times(D, s2))>> /\ DD = two(two(D))
  BY <1>1, <1>6, <1>7, SolvedTwice
<1>10. DD \in Complex /\ DD # <<0, 0>>
  <2>1. PICK m \in Int, n \in Int : D = <<m, n>>
    BY <1>8 DEF Complex
  <2>2. m # 0 \/ n # 0
    BY <1>5, <2>1
  <2>3. two(two(<<m, n>>)) = <<4 * m, 4 * n>>
    BY DEF Times, Real
  <2>4. QED
    BY <1>9, <2>1, <2>2, <2>3 DEF Complex
<1>11. ASSUME NEW x \in Complex
       PROVE  two(two(Times(D, x))) = Times(DD, x)
  <2>1. two(D) \in Complex /\ Times(D, x) \in Complex
    BY <1>8, TwiceTimes
  <2>2. Times(two(D), x) = two(Times(D, x))
    BY <1>8, TwiceTimes
  <2>3. Times(two(two(D)), x) = two(Times(two(D), x))
    BY <2>1, TwiceTimes
  <2>4. QED
    BY <1>9, <2>2, <2>3
<1>12. /\ Demapped(Bpsc, Times(DD, s1), DD) = vs[1]
       /\ Demapped(Bpsc, Times(DD, s2), DD) = vs[2]
  BY <1>2, <1>10, DemapExact
<1>13. Points(vs) = s
  BY DEF Points
<1>14. Solved(G, Heard(H, Points(vs))) = Solved(GG, <<y1, y2>>)
  <2>1. Solved(GG, y) = Solved(GG, <<y1, y2>>)
    BY DEF Solved
  <2>2. QED
    BY <1>5, <1>13, <2>1
<1>15. MimoReceived(H, vs)
         = <<Demapped(Bpsc, Times(DD, s1), DD), Demapped(Bpsc, Times(DD, s2), DD)>>
  <2> DEFINE z == Solved(G, Heard(H, Points(vs)))
  <2>1. z[1] = two(Times(D, s1)) /\ z[2] = two(Times(D, s2))
    BY <1>9, <1>14
  <2>2. Times(Real(2), z[1]) = Times(DD, s1) /\ Times(Real(2), z[2]) = Times(DD, s2)
    BY <1>3, <1>11, <2>1
  <2>3. Det(G) = DD
    BY <1>5
  <2>4. MimoReceived(H, vs) = <<Demapped(Bpsc, Times(Real(2), z[1]), Det(G)),
                                Demapped(Bpsc, Times(Real(2), z[2]), Det(G))>>
    BY DEF MimoReceived
  <2> HIDE DEF z, DD, s1, s2, G
  <2>5. QED
    BY <2>2, <2>3, <2>4
<1>16. QED
  BY <1>2, <1>12, <1>15

LEMMA EdgeValues ==
  ASSUME NEW b \in Bpscs
  PROVE  0 \in Values(b) /\ 2^b - 1 \in Values(b)
<1>1. 2^1 = 2 /\ 2^2 = 4 /\ 2^4 = 16 /\ 2^6 = 64
  OBVIOUS
<1>2. CASE b = 1
  BY <1>1, <1>2 DEF Values
<1>3. CASE b = 2
  BY <1>1, <1>3 DEF Values
<1>4. CASE b = 4
  BY <1>1, <1>4 DEF Values
<1>5. CASE b = 6
  BY <1>1, <1>5 DEF Values
<1>6. QED
  BY <1>2, <1>3, <1>4, <1>5 DEF Bpscs

LEMMA PairsAre ==
  ASSUME Bpsc \in Bpscs
  PROVE  Pairs \subseteq Values(Bpsc) \X Values(Bpsc)
<1> DEFINE V == Values(Bpsc)
           last == 2^Bpsc - 1
<1>1. 0 \in V /\ last \in V
  BY EdgeValues
<1>2. ASSUME NEW vs \in Pairs
      PROVE  vs \in V \X V
  <2>1. \/ \E v \in V, w \in {0, last} : vs = <<v, w>>
        \/ \E v \in V : vs = <<v, v>>
    BY DEF Pairs
  <2> HIDE DEF V, last
  <2>2. QED
    BY <1>1, <2>1
<1>3. QED
  BY <1>2

(* The values that MapTones put on a tone come back over every channel     *)
(* with a gain or a determinant other than zero, estimated from the        *)
(* training symbols (stbc_selftest, mimo_selftest).                        *)
THEOREM LinksInvert == Spec => []LinkInverts
<1>1. Placed => LinkInverts
  <2>1. SUFFICES ASSUME Placed, NEW vs \in Pairs
                 PROVE  /\ \A h \in StbcChannels : Gain(h) # 0 => StbcReceived(h, vs) = vs
                        /\ \A H \in MimoChannels :
                             Det(H) # <<0, 0>> => MimoReceived(H, vs) = vs
    BY Zenon DEF LinkInverts
  <2>2. Bpsc \in Bpscs
    BY <2>1, SizeFacts DEF Placed
  <2>3. vs \in Values(Bpsc) \X Values(Bpsc)
    BY <2>2, PairsAre
  <2>4. ASSUME NEW h \in StbcChannels, Gain(h) # 0
        PROVE  StbcReceived(h, vs) = vs
    <3>1. h \in [{1, 2} -> Complex]
      BY LinkAssumption
    <3>2. QED
      BY <2>2, <2>3, <2>4, <3>1, StbcInverts
  <2>5. ASSUME NEW H \in MimoChannels, Det(H) # <<0, 0>>
        PROVE  MimoReceived(H, vs) = vs
    <3>1. H \in [{1, 2} -> [{1, 2} -> Complex]]
      BY LinkAssumption
    <3>2. QED
      BY <2>2, <2>3, <2>5, <3>1, MimoInverts
  <2>6. QED
    BY <2>4, <2>5
<1>2. QED
  BY <1>1, PlacesInvariant, PTL
-----------------------------------------------------------------------------
(* Gray mapping.  But for BPSK a point is a level on each axis, chosen by  *)
(* half of the bits; neighbouring levels differ in one of them.            *)
Axis(h) == CASE h = 1 -> <<-1, 1>> [] h = 2 -> Levels16 [] h = 3 -> Levels64
Level(h, i) == Axis(h)[i + 1]

LEMMA Powers == 2^0 = 1 /\ 2^1 = 2 /\ 2^2 = 4 /\ 2^3 = 8 /\ 2^4 = 16 /\ 2^5 = 32 /\ 2^6 = 64
OBVIOUS

LEMMA BitsAre ==
  ASSUME NEW v \in Nat
  PROVE  /\ BitOf(v, 0) = v % 2 /\ BitOf(v, 1) = (v \div 2) % 2
         /\ BitOf(v, 2) = (v \div 4) % 2 /\ BitOf(v, 3) = (v \div 8) % 2
         /\ BitOf(v, 4) = (v \div 16) % 2 /\ BitOf(v, 5) = (v \div 32) % 2
BY Powers DEF BitOf

LevelsGray(h, i, k) ==
  /\ Level(h, i) \in Int /\ Level(h, k) \in Int
  /\ Level(h, i) = Level(h, k) => i = k
  /\ Level(h, i) - Level(h, k) \in {2, -2} =>
       \E t \in 0 .. h - 1 : \A b \in 0 .. h - 1 : BitOf(i, b) # BitOf(k, b) <=> b = t

LEMMA NeighbouringLevels ==
  ASSUME NEW h \in {1, 2, 3}, NEW i \in 0 .. 2^h - 1, NEW k \in 0 .. 2^h - 1
  PROVE  LevelsGray(h, i, k)
<1>1. CASE h = 1
  <2>1. i \in {0, 1} /\ k \in {0, 1} /\ i \in Nat /\ k \in Nat /\ 0 .. h - 1 = {0}
    BY <1>1, Powers
  <2>2. Level(h, 0) = -1 /\ Level(h, 1) = 1
    BY <1>1 DEF Axis, Level
  <2>3. BitOf(i, 0) = i % 2 /\ BitOf(k, 0) = k % 2
    BY <2>1, BitsAre, Zenon
  <2>4. QED
    BY <2>1, <2>2, <2>3 DEF LevelsGray
<1>2. CASE h = 2
  <2>1. i \in 0 .. 3 /\ k \in 0 .. 3 /\ i \in Nat /\ k \in Nat /\ 0 .. h - 1 = {0, 1}
    BY <1>2, Powers
  <2>2. Level(h, 0) = -3 /\ Level(h, 1) = 3 /\ Level(h, 2) = -1 /\ Level(h, 3) = 1
    BY <1>2 DEF Axis, Level, Levels16
  <2>3. /\ BitOf(i, 0) = i % 2 /\ BitOf(i, 1) = (i \div 2) % 2
        /\ BitOf(k, 0) = k % 2 /\ BitOf(k, 1) = (k \div 2) % 2
    BY <2>1, BitsAre, Zenon
  <2>4. ASSUME Level(h, i) - Level(h, k) \in {2, -2}
        PROVE  ~(BitOf(i, 0) # BitOf(k, 0) <=> BitOf(i, 1) # BitOf(k, 1))
    BY <2>1, <2>2, <2>3, <2>4
  <2>5. QED
    BY <2>1, <2>2, <2>4 DEF LevelsGray
<1>3. CASE h = 3
  <2>1. i \in 0 .. 7 /\ k \in 0 .. 7 /\ i \in Nat /\ k \in Nat /\ 0 .. h - 1 = {0, 1, 2}
    BY <1>3, Powers
  <2>2. /\ Level(h, 0) = -7 /\ Level(h, 1) = 7 /\ Level(h, 2) = -1 /\ Level(h, 3) = 1
        /\ Level(h, 4) = -5 /\ Level(h, 5) = 5 /\ Level(h, 6) = -3 /\ Level(h, 7) = 3
    BY <1>3 DEF Axis, Level, Levels64
  <2>3. /\ BitOf(i, 0) = i % 2 /\ BitOf(i, 1) = (i \div 2) % 2 /\ BitOf(i, 2) = (i \div 4) % 2
        /\ BitOf(k, 0) = k % 2 /\ BitOf(k, 1) = (k \div 2) % 2 /\ BitOf(k, 2) = (k \div 4) % 2
    BY <2>1, BitsAre, Zenon
  <2>4. ASSUME Level(h, i) - Level(h, k) \in {2, -2}
        PROVE  \E t \in {0, 1, 2} : \A b \in {0, 1, 2} : BitOf(i, b) # BitOf(k, b) <=> b = t
    BY <2>1, <2>2, <2>3, <2>4
  <2>5. Level(h, i) \in Int /\ Level(h, k) \in Int
    BY <2>1, <2>2
  <2>6. Level(h, i) = Level(h, k) => i = k
    BY <2>1, <2>2
  <2>7. QED
    BY <2>1, <2>4, <2>5, <2>6, Zenon DEF LevelsGray
<1>4. QED
  BY <1>1, <1>2, <1>3

LEMMA HalvesOfBits ==
  ASSUME NEW h \in {1, 2, 3}, NEW v \in Values(2 * h)
  PROVE  /\ v % 2^h \in 0 .. 2^h - 1 /\ v \div 2^h \in 0 .. 2^h - 1 /\ v \in Nat
         /\ v = 2^h * (v \div 2^h) + (v % 2^h)
         /\ Point(2 * h, v) = <<Level(h, v % 2^h), Level(h, v \div 2^h)>>
         /\ \A b \in 0 .. h - 1 : BitOf(v, b) = BitOf(v % 2^h, b)
         /\ \A b \in 0 .. h - 1 : BitOf(v, h + b) = BitOf(v \div 2^h, b)
<1>1. CASE h = 1
  <2>1. v \in 0 .. 3 /\ 0 .. h - 1 = {0} /\ 2^h = 2
    BY <1>1, ValuesAre
  <2>2. Point(2 * h, v) = <<2 * (v % 2) - 1, 2 * (v \div 2) - 1>>
    BY <1>1 DEF Point
  <2>3. Level(h, 0) = -1 /\ Level(h, 1) = 1
    BY <1>1 DEF Axis, Level
  <2>4. v % 2 \in Nat /\ v \div 2 \in Nat
    BY <2>1
  <2>5. BitOf(v, 0) = BitOf(v % 2, 0) /\ BitOf(v, 1) = BitOf(v \div 2, 0)
    <3>1. v \in Nat
      BY <2>1
    <3>2. BitOf(v, 0) = v % 2 /\ BitOf(v, 1) = (v \div 2) % 2
      BY <3>1, BitsAre, Zenon
    <3>3. BitOf(v % 2, 0) = (v % 2) % 2 /\ BitOf(v \div 2, 0) = (v \div 2) % 2
      BY <2>4, BitsAre, Zenon
    <3>4. QED
      BY <2>1, <3>2, <3>3
  <2>6. QED
    BY <1>1, <2>1, <2>2, <2>3, <2>5
<1>2. CASE h = 2
  <2>1. v \in 0 .. 15 /\ 0 .. h - 1 = {0, 1} /\ 2^h = 4
    BY <1>2, ValuesAre
  <2>2. Point(2 * h, v) = <<Level(h, v % 4), Level(h, v \div 4)>>
    BY <1>2 DEF Point, Axis, Level
  <2>3. v % 4 \in Nat /\ v \div 4 \in Nat
    BY <2>1
  <2>4. /\ BitOf(v, 0) = BitOf(v % 4, 0) /\ BitOf(v, 1) = BitOf(v % 4, 1)
        /\ BitOf(v, 2) = BitOf(v \div 4, 0) /\ BitOf(v, 3) = BitOf(v \div 4, 1)
    <3>1. v \in Nat
      BY <2>1
    <3>2. /\ BitOf(v, 0) = v % 2 /\ BitOf(v, 1) = (v \div 2) % 2
          /\ BitOf(v, 2) = (v \div 4) % 2 /\ BitOf(v, 3) = (v \div 8) % 2
      BY <3>1, BitsAre, Zenon
    <3>3. /\ BitOf(v % 4, 0) = (v % 4) % 2 /\ BitOf(v % 4, 1) = ((v % 4) \div 2) % 2
          /\ BitOf(v \div 4, 0) = (v \div 4) % 2
          /\ BitOf(v \div 4, 1) = ((v \div 4) \div 2) % 2
      BY <2>3, BitsAre, Zenon
    <3>4. QED
      BY <2>1, <3>2, <3>3
  <2>5. QED
    BY <1>2, <2>1, <2>2, <2>4
<1>3. CASE h = 3
  <2>1. v \in 0 .. 63 /\ 0 .. h - 1 = {0, 1, 2} /\ 2^h = 8
    BY <1>3, ValuesAre
  <2>2. Point(2 * h, v) = <<Level(h, v % 8), Level(h, v \div 8)>>
    BY <1>3 DEF Point, Axis, Level
  <2>3. v % 8 \in Nat /\ v \div 8 \in Nat
    BY <2>1
  <2>4. /\ BitOf(v, 0) = BitOf(v % 8, 0) /\ BitOf(v, 1) = BitOf(v % 8, 1)
        /\ BitOf(v, 2) = BitOf(v % 8, 2) /\ BitOf(v, 3) = BitOf(v \div 8, 0)
        /\ BitOf(v, 4) = BitOf(v \div 8, 1) /\ BitOf(v, 5) = BitOf(v \div 8, 2)
    <3>1. v \in Nat
      BY <2>1
    <3>2. /\ BitOf(v, 0) = v % 2 /\ BitOf(v, 1) = (v \div 2) % 2
          /\ BitOf(v, 2) = (v \div 4) % 2 /\ BitOf(v, 3) = (v \div 8) % 2
          /\ BitOf(v, 4) = (v \div 16) % 2 /\ BitOf(v, 5) = (v \div 32) % 2
      BY <3>1, BitsAre, Zenon
    <3>3. /\ BitOf(v % 8, 0) = (v % 8) % 2 /\ BitOf(v % 8, 1) = ((v % 8) \div 2) % 2
          /\ BitOf(v % 8, 2) = ((v % 8) \div 4) % 2
          /\ BitOf(v \div 8, 0) = (v \div 8) % 2
          /\ BitOf(v \div 8, 1) = ((v \div 8) \div 2) % 2
          /\ BitOf(v \div 8, 2) = ((v \div 8) \div 4) % 2
      BY <2>3, BitsAre, Zenon
    <3>4. QED
      BY <2>1, <3>2, <3>3
  <2>5. QED
    BY <1>3, <2>1, <2>2, <2>4
<1>4. QED
  BY <1>1, <1>2, <1>3

(* Two points at distance two share one coordinate.                        *)
LEMMA DistanceTwo ==
  ASSUME NEW a \in Int, NEW b \in Int, a * a + b * b = 4
  PROVE  (a \in {2, -2} /\ b = 0) \/ (a = 0 /\ b \in {2, -2})
<1>1. a * a >= 0 /\ b * b >= 0 /\ a * a \in Int /\ b * b \in Int
  OBVIOUS
<1>2. -2 <= a /\ a <= 2 /\ -2 <= b /\ b <= 2
  <2>1. \A c \in Int : c > 2 \/ c < -2 => c * c > 4
    OBVIOUS
  <2>2. QED
    BY <1>1, <2>1
<1>3. a \in {-2, -1, 0, 1, 2} /\ b \in {-2, -1, 0, 1, 2}
  BY <1>2
<1>4. QED
  BY <1>3

LEMMA PointsGray ==
  ASSUME NEW h \in {1, 2, 3}, NEW v \in Values(2 * h), NEW w \in Values(2 * h),
         Norm(Add(Point(2 * h, v), Minus(Point(2 * h, w)))) = 4
  PROVE  Cardinality({b \in 0 .. 2 * h - 1 : BitOf(v, b) # BitOf(w, b)}) = 1
<1> DEFINE i == v % 2^h
           j == v \div 2^h
           k == w % 2^h
           l == w \div 2^h
           D == {b \in 0 .. 2 * h - 1 : BitOf(v, b) # BitOf(w, b)}
<1>1. /\ i \in 0 .. 2^h - 1 /\ j \in 0 .. 2^h - 1 /\ k \in 0 .. 2^h - 1 /\ l \in 0 .. 2^h - 1
      /\ Point(2 * h, v) = <<Level(h, i), Level(h, j)>>
      /\ Point(2 * h, w) = <<Level(h, k), Level(h, l)>>
      /\ \A b \in 0 .. h - 1 : BitOf(v, b) = BitOf(i, b) /\ BitOf(v, h + b) = BitOf(j, b)
      /\ \A b \in 0 .. h - 1 : BitOf(w, b) = BitOf(k, b) /\ BitOf(w, h + b) = BitOf(l, b)
  BY HalvesOfBits
<1> HIDE DEF i, j, k, l
<1> DEFINE x == Level(h, i) - Level(h, k)
           y == Level(h, j) - Level(h, l)
<1>2. LevelsGray(h, i, k) /\ LevelsGray(h, j, l)
  BY <1>1, NeighbouringLevels
<1>3. /\ Level(h, i) \in Int /\ Level(h, k) \in Int
      /\ Level(h, j) \in Int /\ Level(h, l) \in Int
  BY <1>2 DEF LevelsGray
<1>4. x * x + y * y = 4
  <2>1. Add(Point(2 * h, v), Minus(Point(2 * h, w))) = <<x, y>>
    BY <1>1, <1>3 DEF Add, Minus
  <2>2. QED
    BY <2>1 DEF Norm
<1>5. (x \in {2, -2} /\ y = 0) \/ (x = 0 /\ y \in {2, -2})
  <2>1. x \in Int /\ y \in Int
    BY <1>3
  <2> HIDE DEF x, y
  <2>2. QED
    BY <1>4, <2>1, DistanceTwo
<1>6. \A b \in 0 .. 2 * h - 1 : b \in 0 .. h - 1 \/ \E c \in 0 .. h - 1 : b = h + c
  <2>1. ASSUME NEW b \in 0 .. 2 * h - 1, ~(b \in 0 .. h - 1)
        PROVE  b - h \in 0 .. h - 1 /\ b = h + (b - h)
    BY <2>1
  <2>2. QED
    BY <2>1
<1>7. h \in Nat /\ \A c \in 0 .. h - 1 : h + c \in 0 .. 2 * h - 1 /\ h + c \notin 0 .. h - 1
                                     /\ c \in 0 .. 2 * h - 1
  OBVIOUS
<1>8. \E t \in 0 .. 2 * h - 1 : D = {t}
  <2>1. CASE x \in {2, -2} /\ y = 0
    <3>1. j = l
      BY <1>2, <1>3, <2>1 DEF LevelsGray
    <3>2. PICK t \in 0 .. h - 1 : \A b \in 0 .. h - 1 : BitOf(i, b) # BitOf(k, b) <=> b = t
      BY <1>2, <2>1 DEF LevelsGray
    <3>3. \A b \in 0 .. h - 1 : BitOf(v, b) # BitOf(w, b) <=> b = t
      BY <1>1, <3>2
    <3>4. \A b \in 0 .. h - 1 : BitOf(v, h + b) = BitOf(w, h + b)
      BY <1>1, <3>1
    <3>5. \A b \in 0 .. 2 * h - 1 : BitOf(v, b) # BitOf(w, b) <=> b = t
      BY <1>6, <1>7, <3>3, <3>4
    <3>6. QED
      BY <1>7, <3>5
  <2>2. CASE x = 0 /\ y \in {2, -2}
    <3>1. i = k
      BY <1>2, <1>3, <2>2 DEF LevelsGray
    <3>2. PICK t \in 0 .. h - 1 : \A b \in 0 .. h - 1 : BitOf(j, b) # BitOf(l, b) <=> b = t
      BY <1>2, <2>2 DEF LevelsGray
    <3>3. \A b \in 0 .. h - 1 : BitOf(v, h + b) # BitOf(w, h + b) <=> b = t
      BY <1>1, <3>2
    <3>4. \A b \in 0 .. h - 1 : BitOf(v, b) = BitOf(w, b)
      BY <1>1, <3>1
    <3>5. \A b \in 0 .. 2 * h - 1 : BitOf(v, b) # BitOf(w, b) <=> b = h + t
      BY <1>6, <1>7, <3>3, <3>4
    <3>6. QED
      BY <1>7, <3>5
  <2>3. QED
    BY <1>5, <2>1, <2>2
<1>9. QED
  BY <1>8, FS_Singleton

(* A decision for a point next to the right one costs one coded bit, in    *)
(* every constellation of _CONST.                                          *)
THEOREM NeighboursDifferOnce == Spec => []GrayMapped
<1>1. Placed => GrayMapped
  <2>1. SUFFICES ASSUME Placed, NEW v \in Values(Bpsc), NEW w \in Values(Bpsc),
                        Norm(Add(Point(Bpsc, v), Minus(Point(Bpsc, w)))) = 4
                 PROVE  Cardinality({b \in 0 .. Bpsc - 1 : BitOf(v, b) # BitOf(w, b)}) = 1
    BY Zenon DEF GrayMapped
  <2>2. Bpsc \in Bpscs
    BY <2>1, SizeFacts DEF Placed
  <2> DEFINE m == Bpsc
  <2>3. m \in {1, 2, 4, 6} /\ v \in Values(m) /\ w \in Values(m)
        /\ Norm(Add(Point(m, v), Minus(Point(m, w)))) = 4
    BY <2>1, <2>2 DEF Bpscs
  <2> HIDE DEF m
  <2>4. CASE m = 1
    <3>1. v \in {0, 1} /\ w \in {0, 1} /\ 0 .. m - 1 = {0}
      BY <2>3, <2>4, ValuesAre
    <3>2. Point(m, v) = <<2 * v - 1, 0>> /\ Point(m, w) = <<2 * w - 1, 0>>
      BY <2>4 DEF Point
    <3>3. v # w
      <4> SUFFICES ASSUME v = w PROVE FALSE
        OBVIOUS
      <4>1. Norm(Add(Point(m, v), Minus(Point(m, w)))) = 0
        BY <3>1, <3>2 DEF Norm, Add, Minus
      <4>2. QED
        BY <2>3, <4>1
    <3>4. BitOf(v, 0) # BitOf(w, 0)
      BY <3>1, <3>3, BitsAre
    <3>5. {b \in 0 .. m - 1 : BitOf(v, b) # BitOf(w, b)} = {0}
      BY <3>1, <3>4
    <3>6. QED
      BY <3>5, FS_Singleton DEF m
  <2>5. CASE m \in {2, 4, 6}
    <3>1. PICK h \in {1, 2, 3} : m = 2 * h
      <4>1. 2 = 2 * 1 /\ 4 = 2 * 2 /\ 6 = 2 * 3
        OBVIOUS
      <4>2. QED
        BY <2>5, <4>1
    <3>2. Cardinality({b \in 0 .. m - 1 : BitOf(v, b) # BitOf(w, b)}) = 1
      BY <2>3, <3>1, PointsGray
    <3>3. QED
      BY <3>2 DEF m
  <2>6. QED
    BY <2>3, <2>4, <2>5
<1>2. QED
  BY <1>1, PlacesInvariant, PTL

-----------------------------------------------------------------------------
(* Bursts.  Tones ascend, so positions apart are tones apart.              *)
LEMMA AscendingGrows ==
  ASSUME NEW T \in SUBSET Int, IsFiniteSet(T),
         NEW c \in 0 .. Cardinality(T) - 1, NEW d \in 0 .. Cardinality(T) - 1, c < d
  PROVE  Ascending(T)[c] < Ascending(T)[d]
<1> DEFINE t == Ascending(T)[c]
           u == Ascending(T)[d]
<1>1. t \in T /\ u \in T
  BY AscendingIs, Zenon
<1>2. Cardinality(Before(T, t)) = c /\ Cardinality(Before(T, u)) = d
  BY AscendingIs, Zenon
<1> HIDE DEF t, u
<1>3. u < t => d < c
  BY <1>1, <1>2, RanksGrow
<1>4. u # t
  BY <1>2
<1>5. t \in Int /\ u \in Int
  BY <1>1
<1>6. QED
  BY <1>3, <1>4, <1>5 DEF t, u

LEMMA TonesApart ==
  ASSUME NEW path \in Paths,
         NEW c \in 0 .. Tones(path) - 1, NEW d \in 0 .. Tones(path) - 1, c + 3 <= d
  PROVE  DataSc[path][d] - DataSc[path][c] >= 3
<1> DEFINE T == DataTones(path)
           I == 0 .. Cardinality(T) - 1
           sc == Ascending(T)
<1>1. /\ T \in SUBSET Int /\ IsFiniteSet(T) /\ Cardinality(T) = Tones(path)
      /\ DataSc[path] = sc
  BY TonesCounted DEF DataSc, Paths
<1>2. c \in I /\ c + 1 \in I /\ c + 2 \in I /\ d \in I
      /\ c < c + 1 /\ c + 1 < c + 2 /\ c + 2 < d
  <2>1. Tones(path) \in Int
    BY DEF Tones
  <2>2. QED
    BY <1>1, <2>1
<1> HIDE DEF T
<1>3. sc[c] \in Int /\ sc[c + 1] \in Int /\ sc[c + 2] \in Int /\ sc[d] \in Int
  <2>1. sc \in [I -> T]
    BY <1>1, AscendingIs, Zenon
  <2> HIDE DEF sc, I
  <2>2. \A x \in I : sc[x] \in Int
    BY <1>1, <2>1
  <2>3. QED
    BY <1>2, <2>2, Zenon
<1>4. sc[c] < sc[c + 1] /\ sc[c + 1] < sc[c + 2] /\ sc[c + 2] < sc[d]
  BY <1>1, <1>2, AscendingGrows
<1> HIDE DEF sc
<1>5. QED
  BY <1>1, <1>3, <1>4

(* Points of B bits in columns of rpt points, turned in blocks of s bits.  *)
TurnedAt(h, B, s, rpt, c, w, z) ==
  /\ w \div s \in 0 .. ((rpt * B) \div s) - 1
  /\ h = s * (((rpt * B) \div s) * c + (w \div s))
            + (((s * (((rpt * B) \div s) * c + (w \div s)) + (w % s)) + z) % s)

LandsAt(h, B, s, rpt, c, w, z) ==
  /\ h \div B = rpt * c + (w \div B)
  /\ w \div B \in 0 .. rpt - 1
  /\ (h % B) % s = (w + z) % s

LEMMA LandsIn ==
  ASSUME NEW B \in {1, 2, 4, 6}, NEW s, s = IF B = 4 THEN 2 ELSE IF B = 6 THEN 3 ELSE 1,
         NEW rpt \in {4, 6}, NEW c \in Nat, NEW w \in Nat, NEW z \in Nat, NEW h,
         TurnedAt(h, B, s, rpt, c, w, z)
  PROVE  LandsAt(h, B, s, rpt, c, w, z)
<1> USE DEF TurnedAt, LandsAt
<1>1. CASE B = 1
  <2>1. s = 1 /\ (rpt * B) \div s = rpt
    BY <1>1
  <2>2. h = rpt * c + w /\ w \in 0 .. rpt - 1
    BY <1>1, <2>1
  <2>3. QED
    BY <1>1, <2>1, <2>2
<1>2. CASE B = 2
  <2>1. s = 1 /\ (rpt * B) \div s = 2 * rpt
    BY <1>2
  <2>2. h = 2 * (rpt * c) + w /\ w \in 0 .. 2 * rpt - 1
    BY <1>2, <2>1
  <2>3. QED
    BY <1>2, <2>1, <2>2
<1>3. CASE B = 4
  <2> DEFINE v == w \div 2
             e == (w + z) % 2
  <2>1. s = 2 /\ (rpt * B) \div s = 2 * rpt
    BY <1>3
  <2>2. v \in 0 .. 2 * rpt - 1 /\ e \in 0 .. 1 /\ w = 2 * v + (w % 2)
    BY <1>3, <2>1
  <2>3. h = 2 * ((2 * rpt) * c + v) + e
    BY <1>3, <2>1
  <2>4. w \div 4 = v \div 2
    OBVIOUS
  <2> HIDE DEF v, e
  <2>5. h = 4 * (rpt * c + (v \div 2)) + (2 * (v % 2) + e)
    BY <2>2, <2>3
  <2>6. h \div 4 = rpt * c + (v \div 2) /\ h % 4 = 2 * (v % 2) + e
    BY <2>2, <2>5
  <2>7. v \div 2 \in 0 .. rpt - 1 /\ (2 * (v % 2) + e) % 2 = e
    BY <2>2
  <2>8. QED
    BY <1>3, <2>1, <2>4, <2>6, <2>7 DEF e
<1>4. CASE B = 6
  <2> DEFINE v == w \div 3
             e == (w + z) % 3
  <2>1. s = 3 /\ (rpt * B) \div s = 2 * rpt
    BY <1>4
  <2>2. v \in 0 .. 2 * rpt - 1 /\ e \in 0 .. 2 /\ w = 3 * v + (w % 3)
    BY <1>4, <2>1
  <2>3. h = 3 * ((2 * rpt) * c + v) + e
    BY <1>4, <2>1
  <2>4. w \div 6 = v \div 2
    OBVIOUS
  <2> HIDE DEF v, e
  <2>5. h = 6 * (rpt * c + (v \div 2)) + (3 * (v % 2) + e)
    BY <2>2, <2>3
  <2>6. h \div 6 = rpt * c + (v \div 2) /\ h % 6 = 3 * (v % 2) + e
    BY <2>2, <2>5
  <2>7. v \div 2 \in 0 .. rpt - 1 /\ (3 * (v % 2) + e) % 3 = e
    BY <2>2
  <2>8. QED
    BY <1>4, <2>1, <2>4, <2>6, <2>7 DEF e
<1>5. QED
  BY <1>1, <1>2, <1>3, <1>4

(* The point that a bit of a symbol goes to, and its significance there.   *)
LEMMA HtLands ==
  ASSUME cfg \in Configs, cfg.path # "legacy", NEW k \in 0 .. Cbps - 1
  PROVE  LET c == k % NCol
             w == k \div NCol
         IN  /\ HtPosition(k) \div Bpsc = (NRow \div Bpsc) * c + (w \div Bpsc)
             /\ w \div Bpsc \in 0 .. (NRow \div Bpsc) - 1
             /\ (HtPosition(k) % Bpsc) % S = (w + (Cbps - c)) % S
<1> DEFINE c == k % NCol
           w == k \div NCol
           h == HtPosition(k)
           z == Cbps - c
           m == (NRow \div S) * c + (w \div S)
<1>1. /\ Bpsc \in {1, 2, 4, 6}
      /\ S = IF Bpsc = 4 THEN 2 ELSE IF Bpsc = 6 THEN 3 ELSE 1
      /\ Cbps = Tones(cfg.path) * Bpsc
  BY SizeFacts DEF Bpscs
<1>2. /\ c \in Nat /\ w \in Nat /\ w \div S \in 0 .. (NRow \div S) - 1
      /\ c \in 0 .. NCol - 1 /\ w % S \in 0 .. S - 1 /\ w = S * (w \div S) + (w % S)
      /\ h = S * m + (((S * m + (w % S)) + (Cbps - c)) % S)
  BY HtShape, HtRows
<1>3. CASE cfg.path = "ht40"
  <2>1. NCol = 18 /\ NRow = 6 * Bpsc /\ Cbps = 108 * Bpsc
    BY <1>1, <1>3 DEF NCol, NRow, Tones
  <2>2. z \in Nat /\ NRow \div Bpsc = 6 /\ 6 \in {4, 6} /\ c \in Nat /\ w \in Nat
    BY <1>1, <1>2, <2>1
  <2>3. TurnedAt(h, Bpsc, S, 6, c, w, z)
    BY <1>2, <2>1, Zenon DEF TurnedAt
  <2> HIDE DEF c, w, h, z, m
  <2>4. LandsAt(h, Bpsc, S, 6, c, w, z)
    BY <1>1, <2>2, <2>3, LandsIn
  <2>5. QED
    BY <2>2, <2>4 DEF LandsAt, c, w, h, z
<1>4. CASE cfg.path # "ht40"
  <2>1. NCol = 13 /\ NRow = 4 * Bpsc /\ Cbps = 52 * Bpsc
    BY <1>1, <1>4 DEF NCol, NRow, Tones
  <2>2. z \in Nat /\ NRow \div Bpsc = 4 /\ 4 \in {4, 6} /\ c \in Nat /\ w \in Nat
    BY <1>1, <1>2, <2>1
  <2>3. TurnedAt(h, Bpsc, S, 4, c, w, z)
    BY <1>2, <2>1, Zenon DEF TurnedAt
  <2> HIDE DEF c, w, h, z, m
  <2>4. LandsAt(h, Bpsc, S, 4, c, w, z)
    BY <1>1, <2>2, <2>3, LandsIn
  <2>5. QED
    BY <2>2, <2>4 DEF LandsAt, c, w, h, z
<1>5. QED
  BY <1>3, <1>4


(* The next bit of a symbol is in the next column, or in the first one.    *)
LEMMA NextColumn ==
  ASSUME NEW C \in {13, 18}, NEW k \in Nat
  PROVE  LET c == k % C
             w == k \div C
             d == (k + 1) % C
             v == (k + 1) \div C
         IN  \/ d = c + 1 /\ v = w
             \/ c = C - 1 /\ d = 0 /\ v = w + 1
OBVIOUS

(* Two points of one symbol far enough apart.                              *)
Apart(t, u) == t \in Nat /\ u \in Nat /\ (t + 3 <= u \/ u + 3 <= t)

LEMMA HtNeighboursApart ==
  ASSUME cfg \in Configs, cfg.path # "legacy",
         NEW k \in 0 .. Cbps - 1, k + 1 \in 0 .. Cbps - 1
  PROVE  LET t == HtPosition(k) \div Bpsc
             u == HtPosition(k + 1) \div Bpsc
         IN  /\ t \in 0 .. Tones(cfg.path) - 1 /\ u \in 0 .. Tones(cfg.path) - 1
             /\ u = t + NRow \div Bpsc
                  \/ u + (NCol - 1) * (NRow \div Bpsc) \in {t, t + 1}
             /\ S > 1 /\ cfg.path # "ht40" =>
                  (HtPosition(k) % Bpsc) % S # (HtPosition(k + 1) % Bpsc) % S
<1> DEFINE c == k % NCol
           w == k \div NCol
           l == k + 1
           d == l % NCol
           v == l \div NCol
           rpt == NRow \div Bpsc
           t == HtPosition(k) \div Bpsc
           u == HtPosition(l) \div Bpsc
<1>1. /\ Bpsc \in {1, 2, 4, 6}
      /\ S = IF Bpsc = 4 THEN 2 ELSE IF Bpsc = 6 THEN 3 ELSE 1
      /\ Cbps = Tones(cfg.path) * Bpsc
  BY SizeFacts DEF Bpscs
<1>2. /\ IF cfg.path = "ht40" THEN NCol = 18 /\ rpt = 6 /\ Tones(cfg.path) = 108
                              ELSE NCol = 13 /\ rpt = 4 /\ Tones(cfg.path) = 52
  <2>1. NRow = (IF cfg.path = "ht40" THEN 6 ELSE 4) * Bpsc
    BY DEF NRow
  <2>2. (6 * Bpsc) \div Bpsc = 6 /\ (4 * Bpsc) \div Bpsc = 4
    BY <1>1
  <2>3. QED
    BY <2>1, <2>2 DEF NCol, Tones
<1>3. /\ t = rpt * c + (w \div Bpsc) /\ w \div Bpsc \in 0 .. rpt - 1
      /\ (HtPosition(k) % Bpsc) % S = (w + (Cbps - c)) % S
  BY HtLands
<1>4. /\ u = rpt * d + (v \div Bpsc) /\ v \div Bpsc \in 0 .. rpt - 1
      /\ (HtPosition(l) % Bpsc) % S = (v + (Cbps - d)) % S
  BY HtLands
<1>5. k \in Nat /\ c \in 0 .. NCol - 1 /\ d \in 0 .. NCol - 1 /\ w \in Nat /\ v \in Nat
  <2>1. k \in Nat
    OBVIOUS
  <2>2. QED
    BY <1>2, <2>1
<1>6. \/ d = c + 1 /\ v = w
      \/ c = NCol - 1 /\ d = 0 /\ v = w + 1
  <2>1. NCol \in {13, 18}
    BY <1>2
  <2>2. QED
    BY <1>5, <2>1, NextColumn
<1>7. v \div Bpsc \in {w \div Bpsc, (w \div Bpsc) + 1} /\ (v = w => v \div Bpsc = w \div Bpsc)
  <2> HIDE DEF w, v, c, d
  <2>1. (w + 1) \div Bpsc \in {w \div Bpsc, (w \div Bpsc) + 1}
    BY <1>1, <1>5
  <2>2. QED
    BY <1>6, <2>1
<1> DEFINE a == w \div Bpsc
           b == v \div Bpsc
<1>8. t \in 0 .. Tones(cfg.path) - 1 /\ u \in 0 .. Tones(cfg.path) - 1
  <2> HIDE DEF w, v, c, d, t, u, rpt
  <2>1. QED
    BY <1>2, <1>3, <1>4, <1>5
<1>9. u = t + rpt \/ u + (NCol - 1) * rpt \in {t, t + 1}
  <2> HIDE DEF w, v, c, d, t, u, rpt
  <2>1. a \in Nat /\ b \in {a, a + 1} /\ (v = w => b = a)
    BY <1>2, <1>3, <1>7
  <2>2. t = rpt * c + a /\ u = rpt * d + b
    BY <1>3, <1>4
  <2> HIDE DEF a, b
  <2>3. QED
    BY <1>2, <1>5, <1>6, <2>1, <2>2
<1>10. ASSUME S > 1, cfg.path # "ht40"
       PROVE  (w + (Cbps - c)) % S # (v + (Cbps - d)) % S
  <2>1. Cbps = 52 * Bpsc /\ NCol = 13
    BY <1>1, <1>2, <1>10
  <2> HIDE DEF w, v, c, d
  <2>2. CASE Bpsc = 4
    BY <1>1, <1>5, <1>6, <2>1, <2>2
  <2>3. CASE Bpsc = 6
    BY <1>1, <1>5, <1>6, <2>1, <2>3
  <2>4. QED
    BY <1>1, <1>10, <2>2, <2>3
<1>11. QED
  <2> HIDE DEF w, v, c, d, t, u, rpt
  <2>1. QED
    BY <1>3, <1>4, <1>8, <1>9, <1>10 DEF t, u, rpt, l

(* The rotation moves whole points.                                        *)
LEMMA RotationLands ==
  ASSUME cfg \in Configs, cfg.path = "mimo", NEW iss \in {0, 1}, NEW h \in 0 .. Cbps - 1
  PROVE  LET y == (h - Jrot(iss)) % Cbps
             t == h \div Bpsc
         IN  /\ y \div Bpsc = IF iss = 0 THEN t ELSE IF 22 <= t THEN t - 22 ELSE t + 30
             /\ (y % Bpsc) % S = (h % Bpsc) % S
<1>1. /\ Cbps = 52 * Bpsc /\ Bpsc \in {1, 2, 4, 6}
      /\ S = IF Bpsc = 4 THEN 2 ELSE IF Bpsc = 6 THEN 3 ELSE 1
  <2>1. Tones(cfg.path) = 52
    BY DEF Tones
  <2>2. QED
    BY <2>1, SizeFacts DEF Bpscs
<1>2. Jrot(iss) = IF iss = 0 THEN 0 ELSE 22 * Bpsc
  <2>1. CASE iss = 0
    <3>1. (((0 * 2) % 3) + 3 * (0 \div 3)) * 11 = 0
      OBVIOUS
    <3>2. QED
      BY <1>1, <2>1, <3>1 DEF Jrot
  <2>2. CASE iss = 1
    <3>1. (((1 * 2) % 3) + 3 * (1 \div 3)) * 11 = 22
      OBVIOUS
    <3>2. QED
      BY <1>1, <2>2, <3>1 DEF Jrot
  <2>3. QED
    BY <2>1, <2>2
<1> DEFINE n == Cbps
           r == Jrot(iss)
           y == (h - r) % n
<1>3. n \in Nat \ {0} /\ r \in 0 .. n - 1 /\ h \in 0 .. n - 1
  BY <1>1, <1>2
<1>4. y = IF r <= h THEN h - r ELSE n + (h - r)
  <2> HIDE DEF n, r
  <2>1. QED
    BY <1>3, Turned
<1>5. n = 52 * Bpsc /\ r = (IF iss = 0 THEN 0 ELSE 22 * Bpsc)
  BY <1>1, <1>2
<1> HIDE DEF n, r, y
<1>6. /\ y \div Bpsc = IF iss = 0 THEN h \div Bpsc ELSE
                       IF 22 <= h \div Bpsc THEN (h \div Bpsc) - 22 ELSE (h \div Bpsc) + 30
      /\ y % Bpsc = h % Bpsc
  <2>1. CASE Bpsc = 1
    BY <1>3, <1>4, <1>5, <2>1
  <2>2. CASE Bpsc = 2
    BY <1>3, <1>4, <1>5, <2>2
  <2>3. CASE Bpsc = 4
    BY <1>3, <1>4, <1>5, <2>3
  <2>4. CASE Bpsc = 6
    BY <1>3, <1>4, <1>5, <2>4
  <2>5. QED
    BY <1>1, <2>1, <2>2, <2>3, <2>4
<1>7. QED
  BY <1>6 DEF y, r, n


(* interleave() deals neighbours to tones three apart.                     *)
LEMMA LegacyApart ==
  ASSUME cfg \in Configs, cfg.path = "legacy",
         NEW k \in 0 .. Cbps - 1, k + 1 \in 0 .. Cbps - 1
  PROVE  Apart(LegacyPosition(k), LegacyPosition(k + 1))
<1>1. Bpsc = 1 /\ S = 1 /\ Cbps = 48
  <2>1. Bpsc = 1 /\ Cbps = Tones(cfg.path) * Bpsc
    BY ConfigFacts, SizeFacts
  <2>2. S = IF Bpsc = 4 THEN 2 ELSE IF Bpsc = 6 THEN 3 ELSE 1
    BY SizeFacts
  <2>3. QED
    BY <2>1, <2>2 DEF Tones
<1>2. ASSUME NEW q \in 0 .. 47
      PROVE  LegacyPosition(q) = 3 * (q % 16) + q \div 16
  <2> DEFINE x == LegacyPosition(q)
             a == x \div 3
             b == x % 3
  <2>1. x \in 0 .. 47 /\ LegacySource(x) = q
    <3>1. q \in 0 .. Cbps - 1
      BY <1>1
    <3>2. LegacyPosition(q) \in 0 .. Cbps - 1 /\ LegacySource(LegacyPosition(q)) = q
      BY <3>1, LegacyRows
    <3>3. QED
      BY <1>1, <3>2
  <2> HIDE DEF x
  <2>2. LegacySource(x) = 16 * x - 47 * ((16 * x) \div 48)
    <3>1. x \div 1 = x /\ (x + ((16 * x) \div 48)) % 1 = 0
      BY <2>1
    <3>2. LegacySource(x) = LET f == 1 * (x \div 1) + ((x + (16 * x) \div 48) % 1)
                            IN  16 * f - (48 - 1) * ((16 * f) \div 48)
      BY <1>1 DEF LegacySource
    <3>3. QED
      BY <2>1, <3>1, <3>2
  <2>3. a \in 0 .. 15 /\ b \in 0 .. 2 /\ x = 3 * a + b
    BY <2>1
  <2> HIDE DEF a, b
  <2>4. (16 * x) \div 48 = a
    BY <2>3
  <2>5. q = a + 16 * b
    BY <2>1, <2>2, <2>3, <2>4
  <2>6. q % 16 = a /\ q \div 16 = b
    BY <2>3, <2>5
  <2>7. QED
    BY <2>3, <2>6 DEF x
<1>3. k \in 0 .. 47 /\ k + 1 \in 0 .. 47
  BY <1>1
<1>4. /\ LegacyPosition(k) = 3 * (k % 16) + k \div 16
      /\ LegacyPosition(k + 1) = 3 * ((k + 1) % 16) + (k + 1) \div 16
  BY <1>2, <1>3
<1>5. QED
  BY <1>3, <1>4 DEF Apart

(* Neighbours in a stream's symbol go to points apart, and at 20 MHz to    *)
(* bits of different significance.                                         *)
LEMMA NeighboursApart ==
  ASSUME cfg \in Configs, NEW iss \in 0 .. cfg.nss - 1,
         NEW k \in 0 .. Cbps - 1, k + 1 \in 0 .. Cbps - 1
  PROVE  LET x == Permuted(iss, k)
             y == Permuted(iss, k + 1)
         IN  /\ Apart(x \div Bpsc, y \div Bpsc)
             /\ S > 1 /\ cfg.path # "ht40" => (x % Bpsc) % S # (y % Bpsc) % S
<1> DEFINE h == HtPosition(k)
           g == HtPosition(k + 1)
           t == h \div Bpsc
           u == g \div Bpsc
<1>1. ASSUME cfg.path # "legacy"
      PROVE  /\ t \in 0 .. Tones(cfg.path) - 1 /\ u \in 0 .. Tones(cfg.path) - 1
             /\ cfg.path = "ht40" => u = t + 6 \/ u + 102 \in {t, t + 1}
             /\ cfg.path # "ht40" => u = t + 4 \/ u + 48 \in {t, t + 1}
             /\ S > 1 /\ cfg.path # "ht40" => (h % Bpsc) % S # (g % Bpsc) % S
             /\ h \in 0 .. Cbps - 1 /\ g \in 0 .. Cbps - 1
  <2>1. /\ t \in 0 .. Tones(cfg.path) - 1 /\ u \in 0 .. Tones(cfg.path) - 1
        /\ u = t + NRow \div Bpsc
             \/ u + (NCol - 1) * (NRow \div Bpsc) \in {t, t + 1}
        /\ S > 1 /\ cfg.path # "ht40" => (h % Bpsc) % S # (g % Bpsc) % S
    BY <1>1, HtNeighboursApart
  <2>2. NRow \div Bpsc = (IF cfg.path = "ht40" THEN 6 ELSE 4)
    <3>1. NRow = (IF cfg.path = "ht40" THEN 6 ELSE 4) * Bpsc /\ Bpsc \in {1, 2, 4, 6}
      BY SizeFacts DEF NRow, Bpscs
    <3>2. (6 * Bpsc) \div Bpsc = 6 /\ (4 * Bpsc) \div Bpsc = 4
      BY <3>1
    <3>3. QED
      BY <3>1, <3>2
  <2>3. NCol - 1 = (IF cfg.path = "ht40" THEN 17 ELSE 12)
    BY DEF NCol
  <2>4. h \in 0 .. Cbps - 1 /\ g \in 0 .. Cbps - 1
    BY <1>1, HtShape
  <2> HIDE DEF t, u, h, g
  <2>5. QED
    BY <2>1, <2>2, <2>3, <2>4
<1>2. CASE cfg.path = "legacy"
  <2>1. Bpsc = 1 /\ S = 1
    <3>1. Bpsc = 1
      BY <1>2, ConfigFacts
    <3>2. QED
      BY <3>1, SizeFacts
  <2>2. /\ Permuted(iss, k) = LegacyPosition(k)
        /\ Permuted(iss, k + 1) = LegacyPosition(k + 1)
    BY <1>2 DEF Permuted
  <2>3. Apart(LegacyPosition(k), LegacyPosition(k + 1))
    BY <1>2, LegacyApart
  <2>4. \A x \in Nat : x \div 1 = x
    OBVIOUS
  <2>5. QED
    BY <2>1, <2>2, <2>3, <2>4 DEF Apart
<1>3. CASE cfg.path \in {"ht", "stbc", "ht40"}
  <2>1. Permuted(iss, k) = h /\ Permuted(iss, k + 1) = g
    BY <1>3 DEF Permuted
  <2>2. Tones(cfg.path) \in {52, 108}
    BY <1>3 DEF Tones
  <2> HIDE DEF h, g
  <2>3. Apart(t, u)
    <3> HIDE DEF t, u
    <3>1. QED
      BY <1>1, <1>3, <2>2 DEF Apart
  <2>4. QED
    BY <1>1, <1>3, <2>1, <2>3
<1>4. CASE cfg.path = "mimo"
  <2>1. /\ Permuted(iss, k) = (h - Jrot(iss)) % Cbps
        /\ Permuted(iss, k + 1) = (g - Jrot(iss)) % Cbps
    BY <1>4 DEF Permuted
  <2>2. iss \in {0, 1} /\ Tones(cfg.path) = 52
    BY <1>4, ConfigFacts DEF Tones
  <2> DEFINE x == (h - Jrot(iss)) % Cbps
             y == (g - Jrot(iss)) % Cbps
  <2>3. /\ x \div Bpsc = IF iss = 0 THEN t ELSE IF 22 <= t THEN t - 22 ELSE t + 30
        /\ (x % Bpsc) % S = (h % Bpsc) % S
        /\ y \div Bpsc = IF iss = 0 THEN u ELSE IF 22 <= u THEN u - 22 ELSE u + 30
        /\ (y % Bpsc) % S = (g % Bpsc) % S
    BY <1>1, <1>4, <2>2, RotationLands
  <2> HIDE DEF x, y, h, g
  <2>4. Apart(x \div Bpsc, y \div Bpsc)
    <3> HIDE DEF t, u
    <3>1. QED
      BY <1>1, <1>4, <2>2, <2>3 DEF Apart
  <2>5. S > 1 => (x % Bpsc) % S # (y % Bpsc) % S
    BY <1>1, <1>4, <2>3
  <2>6. QED
    BY <2>1, <2>4, <2>5 DEF x, y
<1>5. QED
  BY <1>2, <1>3, <1>4, ConfigFacts

(* Interleaving pays: in every frame of one symbol, neighbours of a stream *)
(* are at least three tones apart and, at 20 MHz, differ in significance.  *)
THEOREM BurstsAreSpread == Spec => []BurstsSpread
<1>1. Placed => BurstsSpread
  <2> SUFFICES ASSUME Placed, stage = "mapped", nsym = 1, NEW pair \in Neighbours
               PROVE  LET d == place[pair[1]].tone - place[pair[2]].tone
                      IN  /\ d >= 3 \/ -d >= 3
                          /\ S > 1 /\ cfg.path # "ht40" =>
                               place[pair[1]].bit % S # place[pair[2]].bit % S
    BY DEF BurstsSpread
  <2> DEFINE a == InStream(pair[1])
             b == InStream(pair[2])
             i == a[1]
             k == a[2]
             x == Permuted(i, k)
             y == Permuted(i, k + 1)
  <2>1. cfg \in Configs /\ nsym \in Nat \ {0} /\ place = OnAir
    BY DEF Placed
  <2>2. /\ pair[1] \in Sent /\ pair[2] \in Sent
        /\ b[1] = i /\ b[2] = k + 1
    BY <2>1 DEF Neighbours, OnAir
  <2>3. a = Streamed(KeptBefore(pair[1])) /\ b = Streamed(KeptBefore(pair[2]))
    BY DEF InStream, Streamed
  <2>4. a \in InSlots /\ b \in InSlots
    BY <2>1, <2>2, <2>3, Inside
  <2>5. place[pair[1]] = Toned(Woven(a)) /\ place[pair[2]] = Toned(Woven(b))
    BY <2>1, <2>2, <2>3 DEF OnAir
  <2> HIDE DEF a, b
  <2>6. ASSUME NEW s \in InSlots
        PROVE  /\ s[1] \in 0 .. cfg.nss - 1 /\ s[2] \in 0 .. Cbps - 1
               /\ Toned(Woven(s)).tone = DataSc[cfg.path][Permuted(s[1], s[2]) \div Bpsc]
               /\ Toned(Woven(s)).bit = Permuted(s[1], s[2]) % Bpsc
    <3> DEFINE w == Woven(s)[2]
    <3>1. Cbps \in Nat \ {0}
      BY <2>1, SizeFacts
    <3>2. /\ s[1] \in 0 .. cfg.nss - 1 /\ s[2] \in 0 .. nsym * Cbps - 1
          /\ w \in 0 .. nsym * Cbps - 1
          /\ w % Cbps = Permuted(s[1], s[2] % Cbps)
      BY <2>1, WovenParts DEF InSlots
    <3>3. /\ Toned(Woven(s)).tone = DataSc[cfg.path][(w % Cbps) \div Bpsc]
          /\ Toned(Woven(s)).bit = w % Bpsc
      BY DEF Toned
    <3> HIDE DEF w
    <3>4. w % Cbps = w /\ s[2] % Cbps = s[2] /\ s[2] \in 0 .. Cbps - 1
      BY <3>1, <3>2
    <3>5. QED
      BY <3>2, <3>3, <3>4
  <2>7. /\ i \in 0 .. cfg.nss - 1 /\ k \in 0 .. Cbps - 1 /\ k + 1 \in 0 .. Cbps - 1
        /\ place[pair[1]].tone = DataSc[cfg.path][x \div Bpsc]
        /\ place[pair[1]].bit = x % Bpsc
        /\ place[pair[2]].tone = DataSc[cfg.path][y \div Bpsc]
        /\ place[pair[2]].bit = y % Bpsc
    BY <2>2, <2>4, <2>5, <2>6
  <2>8. /\ Apart(x \div Bpsc, y \div Bpsc)
        /\ S > 1 /\ cfg.path # "ht40" => (x % Bpsc) % S # (y % Bpsc) % S
    BY <2>1, <2>7, NeighboursApart
  <2>9. x \div Bpsc \in 0 .. Tones(cfg.path) - 1 /\ y \div Bpsc \in 0 .. Tones(cfg.path) - 1
    <3>1. x \in 0 .. Cbps - 1 /\ y \in 0 .. Cbps - 1
      BY <2>1, <2>7, PermutedInjective
    <3>2. Cbps = Bpsc * Tones(cfg.path) /\ Bpsc \in Nat \ {0} /\ Tones(cfg.path) \in Nat \ {0}
      BY <2>1, SymbolSizes
    <3> HIDE DEF x, y
    <3>3. QED
      BY <3>1, <3>2, Below
  <2> DEFINE p == x \div Bpsc
             q == y \div Bpsc
             f == DataSc[cfg.path]
  <2>10. cfg.path \in Paths
    BY <2>1, ConfigFacts DEF Paths
  <2>11. f[p] \in Int /\ f[q] \in Int
    <3>1. f \in [0 .. Tones(cfg.path) - 1 -> DataTones(cfg.path)]
      BY <2>10, DataScIs
    <3>2. DataTones(cfg.path) \in SUBSET Int
      BY <2>10, TonesCounted
    <3> HIDE DEF p, q, f
    <3>3. QED
      BY <2>9, <3>1, <3>2 DEF p, q
  <2>12. f[p] - f[q] >= 3 \/ f[q] - f[p] >= 3
    <3>1. CASE p + 3 <= q
      BY <2>9, <2>10, <3>1, TonesApart
    <3>2. CASE q + 3 <= p
      BY <2>9, <2>10, <3>2, TonesApart
    <3>3. QED
      BY <2>8, <3>1, <3>2 DEF Apart
  <2> DEFINE d == f[p] - f[q]
  <2>13. d >= 3 \/ -d >= 3
    <3> HIDE DEF p, q, f
    <3>1. QED
      BY <2>11, <2>12
  <2>14. place[pair[1]].tone - place[pair[2]].tone = d
    BY <2>7
  <2> HIDE DEF p, q, f, x, y, d
  <2>15. QED
    BY <2>7, <2>8, <2>13, <2>14
<1>2. QED
  BY <1>1, PlacesInvariant, PTL
=============================================================================
