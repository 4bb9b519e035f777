--------------------------- MODULE AirWindowProofs ---------------------------
(***************************************************************************)
(* Theorems about AirWindow for every body, number of source symbols and   *)
(* length of the window.  The invariant relates the stored PDUs to the air *)
(* (HtOnAir, Origin) and the report to the PDUs looked at so far (CountsHt, *)
(* Credits): no single counter of a report can be traced to the air alone. *)
(***************************************************************************)
EXTENDS AirWindow, FiniteSetTheorems, SequenceTheorems, TLAPS

-----------------------------------------------------------------------------
(* Types.                                                                  *)
Tools == {"rung3", "sniff", "loopback", "hier", "diag", "keep"}
AllSymbols == UNION Bodies
PDUs == [size : Sizes, ht : BOOLEAN, sa : BOOLEAN, trig : BOOLEAN,
         crc : {"ok", "bad", "absent"}, syms : SUBSET AllSymbols,
         snr : {"high", "low"}]
Reports == [total : Nat, dev : Nat, trig : Nat, seen : Nat, corrupt : Nat,
            base : SUBSET AllSymbols, sbi : SUBSET AllSymbols, salvaged : Nat,
            passHigh : Int, failHigh : Int]
Hearings == [frames : Nat, ht : Nat, bad : Nat, ours : BOOLEAN,
             syms : SUBSET AllSymbols]

Typed ==
  /\ tool \in Tools
  /\ tagging \in BOOLEAN
  /\ keep \in BOOLEAN
  /\ pc \in {"start", "window", "scan", "done"}
  /\ dbg \in Seq(PDUs)
  /\ i \in 0 .. Len(dbg)
  /\ rep \in Reports
  /\ verdict \in {"none yet", "CHECKED", "NONE", "PARTIAL", "PASS", "FAIL",
                  "INCONCLUSIVE", "DEFECT", "NOISE"}
  /\ heard \in Hearings

-----------------------------------------------------------------------------
(* What the store says of the air.  An HT frame is stored once; its ghost  *)
(* is not HT.                                                              *)
HtStored(d, n) == {j \in 1 .. n : d[j].ht}
HtBad(d, n) == {j \in 1 .. n : d[j].ht /\ d[j].crc = "bad"}

HtOnAir ==
  /\ Cardinality(HtStored(dbg, Len(dbg))) = heard.ht
  /\ Cardinality(HtBad(dbg, Len(dbg))) <= heard.bad

(* Tools of a closed link hear nothing but the transmitter.                *)
Closed == {"loopback", "hier", "keep"}

Origin ==
  /\ \A j \in 1 .. Len(dbg) :
       /\ dbg[j].syms \subseteq heard.syms
       /\ dbg[j].sa \/ dbg[j].syms # {} \/ tool \in Closed => heard.ours
       /\ tool = "keep" /\ dbg[j].crc = "bad" => heard.bad > 0
  /\ tool = "keep" /\ ~keep => heard.bad = 0

(* What the report says of the store.                                      *)
CountsHt ==
  tool = "rung3" => /\ rep.seen <= Cardinality(HtStored(dbg, i))
                    /\ rep.corrupt <= Cardinality(HtBad(dbg, i))

Credits ==
  /\ rep.base \subseteq rep.sbi /\ rep.sbi \subseteq heard.syms
  /\ rep.sbi # {} => heard.ours
  /\ rep.salvaged = 0 => rep.sbi = rep.base
  /\ rep.salvaged > 0 => HtBad(dbg, i) # {}
  /\ tool = "sniff" /\ rep.dev > 0 => heard.ours
  /\ tool \in Closed /\ rep.total > 0 => heard.ours
  /\ tool \in Closed => rep.corrupt <= rep.total
  /\ tool = "hier" /\ rep.seen > 0 => HtStored(dbg, i) # {}
  /\ tool = "keep" /\ rep.corrupt > 0 => heard.bad > 0

(* The symbols of the bodies are finitely many.                            *)
LEMMA SymbolsFinite ==
  ASSUME NEW s \in SUBSET AllSymbols
  PROVE  IsFiniteSet(s) /\ Cardinality(s) \in Nat
<1>1. IsFiniteSet(AllSymbols)
  BY WindowAssumption, FS_UNION DEF AllSymbols
<1>2. QED
  BY <1>1, FS_Subset, FS_CardinalityType

(* What can be heard is a PDU.                                             *)
LEMMA HeardIsPDU ==
  ASSUME tool \in Tools, NEW crc \in Outcomes
  PROVE  /\ Outcomes \subseteq {"ok", "bad", "absent"}
         /\ ~keep => crc # "bad"
         /\ \A ht \in BOOLEAN : \A m0 \in Ours(ht, crc) : \A m \in Loaded(m0) :
              m \in PDUs /\ m.ht = ht /\ m.crc = crc /\ (tool # "rung3" => m.syms = {})
         /\ \A m \in Ambient(crc) :
              m \in PDUs /\ m.crc = crc /\ ~m.sa /\ m.syms = {}
<1>1. Outcomes \subseteq {"ok", "bad", "absent"} /\ (~keep => crc # "bad")
  BY DEF Outcomes
<1>2. ASSUME NEW ht \in BOOLEAN, NEW m0 \in Ours(ht, crc), NEW m \in Loaded(m0)
      PROVE  m \in PDUs /\ m.ht = ht /\ m.crc = crc /\ (tool # "rung3" => m.syms = {})
  <2>1. PICK sa \in BOOLEAN : m0 = PDU("full", ht, sa, FALSE, crc, {})
    BY DEF Ours
  <2>2. m0 \in PDUs /\ m0.ht = ht /\ m0.crc = crc /\ m0.syms = {}
    BY <1>1, <2>1 DEF PDU, PDUs, Sizes
  <2>3. CASE tool = "rung3"
    <3>1. m \in {[m0 EXCEPT !.syms = s] :
                   s \in IF m0.crc = "bad" THEN UNION {SUBSET b : b \in Bodies} ELSE Bodies}
      BY <2>3 DEF Loaded
    <3>2. PICK s \in IF m0.crc = "bad" THEN UNION {SUBSET b : b \in Bodies} ELSE Bodies :
            m = [m0 EXCEPT !.syms = s]
      BY <3>1
    <3>3. s \in SUBSET AllSymbols
      BY DEF AllSymbols
    <3>4. QED
      BY <2>2, <2>3, <3>2, <3>3 DEF PDUs
  <2>4. CASE tool = "diag"
    <3>1. m \in {[m0 EXCEPT !.snr = snr] : snr \in {"high", "low"}}
      BY <2>4, Zenon DEF Loaded
    <3>2. QED
      BY <2>2, <2>4, <3>1 DEF PDUs
  <2>5. CASE tool \notin {"rung3", "diag"}
    <3>1. m = m0
      BY <2>5 DEF Loaded
    <3>2. QED
      BY <2>2, <3>1
  <2>6. QED
    BY <2>3, <2>4, <2>5
<1>3. ASSUME NEW m \in Ambient(crc)
      PROVE  m \in PDUs /\ m.crc = crc /\ ~m.sa /\ m.syms = {}
  <2>1. PICK size \in Sizes, ht \in BOOLEAN, trig \in BOOLEAN :
          m = PDU(size, ht, FALSE, trig, crc, {})
    BY DEF Ambient, Sizes
  <2>2. crc \in {"ok", "bad", "absent"}
    BY <1>1
  <2>3. QED
    BY <2>1, <2>2 DEF PDU, PDUs
<1>4. QED
  BY <1>1, <1>2, <1>3

(* A frame that is heard is appended to the store, with its ghost if it    *)
(* has one.                                                                *)
LEMMA StoreGrows ==
  ASSUME dbg \in Seq(PDUs), NEW m \in PDUs, NEW ghost \in BOOLEAN, Store(m, ghost)
  PROVE  /\ dbg' \in Seq(PDUs)
         /\ Len(dbg') = Len(dbg) + (IF ghost THEN 2 ELSE 1)
         /\ \A j \in 1 .. Len(dbg) : dbg'[j] = dbg[j]
         /\ dbg'[Len(dbg) + 1] = m
         /\ ghost => dbg'[Len(dbg) + 2] = Ghost(m)
<1>1. Ghost(m) \in PDUs
  BY DEF Ghost, PDU, PDUs, Sizes
<1>2. Len(dbg) \in Nat
  BY LenProperties
<1>3. CASE ghost
  <2>1. dbg' = dbg \o <<m, Ghost(m)>>
    BY <1>3 DEF Store
  <2>2. <<m, Ghost(m)>> \in Seq(PDUs) /\ Len(<<m, Ghost(m)>>) = 2
        /\ <<m, Ghost(m)>>[1] = m /\ <<m, Ghost(m)>>[2] = Ghost(m)
    BY <1>1
  <2>3. QED
    BY <1>2, <1>3, <2>1, <2>2, ConcatProperties
<1>4. CASE ~ghost
  BY <1>2, <1>4, AppendProperties DEF Store
<1>5. QED
  BY <1>3, <1>4

(* The sets of indices are finite.                                         *)
LEMMA IndicesFinite ==
  ASSUME NEW d, NEW n \in Nat
  PROVE  /\ IsFiniteSet(HtStored(d, n)) /\ Cardinality(HtStored(d, n)) \in Nat
         /\ IsFiniteSet(HtBad(d, n)) /\ Cardinality(HtBad(d, n)) \in Nat
<1>1. IsFiniteSet(1 .. n)
  BY FS_Interval
<1>2. HtStored(d, n) \in SUBSET (1 .. n) /\ HtBad(d, n) \in SUBSET (1 .. n)
  BY DEF HtStored, HtBad
<1>3. QED
  BY <1>1, <1>2, FS_Subset, FS_CardinalityType

(* One PDU more adds its index, or nothing, to either set.                 *)
LEMMA IndicesNext ==
  ASSUME NEW d, NEW n \in Nat
  PROVE  /\ Cardinality(HtStored(d, n + 1)) = Cardinality(HtStored(d, n)) + Counted(d[n + 1].ht)
         /\ Cardinality(HtBad(d, n + 1)) =
              Cardinality(HtBad(d, n)) + Counted(d[n + 1].ht /\ d[n + 1].crc = "bad")
         /\ HtStored(d, n) \subseteq HtStored(d, n + 1) /\ HtBad(d, n) \subseteq HtBad(d, n + 1)
         /\ d[n + 1].ht => HtStored(d, n + 1) # {}
         /\ d[n + 1].ht /\ d[n + 1].crc = "bad" => HtBad(d, n + 1) # {}
<1>1. (1 .. n + 1) = (1 .. n) \cup {n + 1} /\ n + 1 \notin 1 .. n
  OBVIOUS
<1>2. HtStored(d, n + 1) = HtStored(d, n) \cup (IF d[n + 1].ht THEN {n + 1} ELSE {})
  BY <1>1 DEF HtStored
<1>3. HtBad(d, n + 1) =
        HtBad(d, n) \cup (IF d[n + 1].ht /\ d[n + 1].crc = "bad" THEN {n + 1} ELSE {})
  BY <1>1 DEF HtBad
<1>4. n + 1 \notin HtStored(d, n) /\ n + 1 \notin HtBad(d, n)
  BY <1>1 DEF HtStored, HtBad
<1>5. Cardinality(HtStored(d, n + 1)) = Cardinality(HtStored(d, n)) + Counted(d[n + 1].ht)
  <2>1. CASE d[n + 1].ht
    BY <1>2, <1>4, <2>1, IndicesFinite, FS_AddElement DEF Counted
  <2>2. CASE ~d[n + 1].ht
    <3>1. HtStored(d, n + 1) = HtStored(d, n) /\ Counted(d[n + 1].ht) = 0
      BY <1>2, <2>2 DEF Counted
    <3>2. QED
      BY <3>1, IndicesFinite
  <2>3. QED
    BY <2>1, <2>2
<1>6. Cardinality(HtBad(d, n + 1)) =
        Cardinality(HtBad(d, n)) + Counted(d[n + 1].ht /\ d[n + 1].crc = "bad")
  <2> DEFINE hit == d[n + 1].ht /\ d[n + 1].crc = "bad"
  <2>1. CASE hit
    BY <1>3, <1>4, <2>1, IndicesFinite, FS_AddElement DEF Counted
  <2>2. CASE ~hit
    <3>1. HtBad(d, n + 1) = HtBad(d, n) /\ Counted(hit) = 0
      BY <1>3, <2>2 DEF Counted
    <3>2. QED
      BY <3>1, IndicesFinite
  <2>3. QED
    BY <2>1, <2>2
<1>7. QED
  BY <1>2, <1>3, <1>5, <1>6

(* Types: the initial state, and every step.                               *)
LEMMA InitTyped == Init => Typed
<1> SUFFICES ASSUME Init PROVE Typed
  OBVIOUS
<1>1. rep \in Reports
  <2>1. [total |-> 0, dev |-> 0, trig |-> 0, seen |-> 0, corrupt |-> 0,
         base |-> {}, sbi |-> {}, salvaged |-> 0, passHigh |-> 0, failHigh |-> 0]
          \in Reports
    BY DEF Reports
  <2>2. QED
    BY <2>1 DEF Init
<1>2. heard \in Hearings
  BY DEF Init, Hearings
<1>3. tool \in Tools /\ tagging \in BOOLEAN /\ keep \in BOOLEAN
  BY DEF Init, Tools
<1>4. dbg \in Seq(PDUs) /\ i \in 0 .. Len(dbg)
  <2>1. dbg = <<>> /\ i = 0
    BY DEF Init
  <2>2. QED
    BY <2>1, EmptySeq
<1>5. QED
  BY <1>1, <1>2, <1>3, <1>4, Zenon DEF Init, Typed

(* Whatever is heard is stored; with a ghost only in HT, and as the        *)
(* transmitter's if it has its SA, symbols, or no other station is near.   *)
LEMMA HearCases ==
  ASSUME Typed, HearOurs \/ HearAmbient
  PROVE  \E m \in PDUs, ghost \in BOOLEAN, ours \in BOOLEAN :
           /\ Store(m, ghost) /\ Heard(m, ours)
           /\ ghost => m.ht /\ tool # "keep"
           /\ m.sa \/ m.syms # {} \/ tool \in Closed => ours
           /\ ~keep => m.crc # "bad"
<1>0. tool \in Tools
  BY DEF Typed
<1>1. CASE HearOurs
  <2>1. PICK ht \in BOOLEAN, ghost \in BOOLEAN, crc \in Outcomes :
          /\ tool = "keep" => ~ht
          /\ ghost => ht
          /\ \E m0 \in Ours(ht, crc) : \E m \in Loaded(m0) :
               Store(m, ghost) /\ Heard(m, TRUE)
    BY <1>1 DEF HearOurs
  <2>2. PICK m0 \in Ours(ht, crc) : \E m \in Loaded(m0) :
          Store(m, ghost) /\ Heard(m, TRUE)
    BY <2>1
  <2>3. PICK m \in Loaded(m0) : Store(m, ghost) /\ Heard(m, TRUE)
    BY <2>2
  <2>4. m \in PDUs /\ m.ht = ht /\ m.crc = crc /\ (~keep => crc # "bad")
    BY <1>0, HeardIsPDU
  <2>5. QED
    BY <2>1, <2>3, <2>4
<1>2. CASE HearAmbient
  <2>1. PICK ghost \in BOOLEAN, crc \in Outcomes :
          \E m \in Ambient(crc) : /\ tool \in {"rung3", "sniff", "diag"}
                                  /\ ghost => m.ht
                                  /\ Store(m, ghost) /\ Heard(m, FALSE)
    BY <1>2 DEF HearAmbient
  <2>2. PICK m \in Ambient(crc) : /\ tool \in {"rung3", "sniff", "diag"}
                                  /\ ghost => m.ht
                                  /\ Store(m, ghost) /\ Heard(m, FALSE)
    BY <2>1
  <2>3. m \in PDUs /\ m.crc = crc /\ ~m.sa /\ m.syms = {} /\ (~keep => crc # "bad")
    BY <1>0, HeardIsPDU
  <2>4. QED
    BY <2>2, <2>3 DEF Closed
<1>3. QED
  BY <1>1, <1>2

(* The report of rung3 about one PDU: what it adds to each counter.        *)
LEMMA Rung3Adds ==
  ASSUME rep \in Reports, NEW m \in PDUs, NEW R, R = Rung3Report(m)
  PROVE  /\ R \in Reports
         /\ R.seen <= rep.seen + Counted(m.ht)
         /\ R.corrupt <= rep.corrupt + Counted(m.ht /\ m.crc = "bad")
         /\ rep.base \subseteq rep.sbi => R.base \subseteq R.sbi
         /\ R.sbi = rep.sbi \/ R.sbi = rep.sbi \cup m.syms
         /\ (rep.salvaged = 0 => rep.sbi = rep.base) => (R.salvaged = 0 => R.sbi = R.base)
         /\ R.salvaged > 0 => rep.salvaged > 0 \/ (m.ht /\ m.crc = "bad")
<1>0. /\ m.ht \in BOOLEAN /\ m.sa \in BOOLEAN /\ m.syms \in SUBSET AllSymbols
      /\ rep.total \in Nat /\ rep.dev \in Nat /\ rep.seen \in Nat /\ rep.corrupt \in Nat
      /\ rep.salvaged \in Nat /\ rep.base \in SUBSET AllSymbols
      /\ rep.sbi \in SUBSET AllSymbols
  BY DEF PDUs, Reports
<1>1. CASE ~Kept(m)
  BY <1>0, <1>1 DEF Rung3Report, Counted
<1>2. CASE Kept(m) /\ m.size # "full"
  <2>1. R = [rep EXCEPT !.total = @ + 1]
    BY <1>2 DEF Rung3Report
  <2>2. R \in Reports
    BY <1>0, <2>1 DEF Reports
  <2>3. /\ R.seen = rep.seen /\ R.corrupt = rep.corrupt /\ R.base = rep.base
        /\ R.sbi = rep.sbi /\ R.salvaged = rep.salvaged
    BY <2>1 DEF Reports
  <2>4. QED
    BY <1>0, <2>2, <2>3 DEF Counted
<1>3. CASE Kept(m) /\ m.size = "full"
  <2> DEFINE good == CrcOk(m)
             add == IF good THEN 0 ELSE Cardinality(m.syms)
             new == IF good THEN rep.base \cup m.syms ELSE rep.base
             bad == Counted(~good)
             total == rep.total + 1
             dev == rep.dev + Counted(m.sa)
             seen == rep.seen + 1
             corrupt == rep.corrupt + bad
             sbi == rep.sbi \cup m.syms
             salvaged == rep.salvaged + add
  <2>0. /\ add \in Nat /\ bad \in {0, 1} /\ Counted(m.sa) \in Nat
        /\ new \in SUBSET AllSymbols /\ m.ht /\ sbi \in SUBSET AllSymbols
    BY <1>0, <1>3, SymbolsFinite DEF Counted, Kept
  <2>1. R = [rep EXCEPT !.total = total, !.dev = dev, !.seen = seen,
                        !.corrupt = corrupt, !.base = new, !.sbi = sbi,
                        !.salvaged = salvaged]
    BY <1>3 DEF Rung3Report
  <2>a. /\ total \in Nat /\ dev \in Nat /\ seen \in Nat /\ corrupt \in Nat
        /\ salvaged \in Nat
    BY <1>0, <2>0
  <2>5. bad = Counted(m.ht /\ m.crc = "bad") /\ Counted(m.ht) = 1
    BY <2>0 DEF CrcOk, Counted
  <2>6. /\ rep.base \subseteq rep.sbi => new \subseteq rep.sbi \cup m.syms
        /\ add > 0 => m.ht /\ m.crc = "bad"
        /\ add = 0 /\ rep.sbi = rep.base => rep.sbi \cup m.syms = new
    <3>1. CASE good
      BY <3>1
    <3>2. CASE ~good
      <4>1. add = 0 => m.syms = {}
        BY <1>0, <3>2, SymbolsFinite, FS_EmptySet
      <4>2. QED
        BY <2>0, <3>2, <4>1 DEF CrcOk
    <3>3. QED
      BY <3>1, <3>2
  <2> HIDE DEF good, add, new, bad
  <2>4. salvaged = 0 => rep.salvaged = 0 /\ add = 0
    BY <1>0, <2>0
  <2>7. salvaged > 0 => rep.salvaged > 0 \/ add > 0
    BY <1>0, <2>0
  <2>8. seen = rep.seen + Counted(m.ht)
        /\ corrupt = rep.corrupt + Counted(m.ht /\ m.crc = "bad")
    BY <2>5
  <2>b. seen <= seen /\ corrupt <= corrupt
    BY <2>a
  <2>c. sbi = rep.sbi \cup m.syms
    OBVIOUS
  <2> HIDE DEF total, dev, seen, corrupt, sbi, salvaged
  <2>2. R \in Reports
    BY <2>0, <2>1, <2>a DEF Reports
  <2>3. /\ R.seen = seen /\ R.corrupt = corrupt /\ R.base = new
        /\ R.sbi = sbi /\ R.salvaged = salvaged
    BY <2>1 DEF Reports
  <2>9. QED
    BY <2>2, <2>3, <2>4, <2>6, <2>7, <2>8, <2>b, <2>c
<1>4. QED
  BY <1>1, <1>2, <1>3

(* The reports of the other tools.                                         *)
LEMMA OthersAdd ==
  ASSUME rep \in Reports, NEW m \in PDUs
  PROVE  /\ \A R : R = [rep EXCEPT !.total = @ + 1] =>
              R \in Reports /\ R.total = rep.total + 1 /\ R.corrupt = rep.corrupt
              /\ R.seen = rep.seen
              /\ R.sbi = rep.sbi /\ R.base = rep.base /\ R.salvaged = rep.salvaged
         /\ \A R : R = SniffReport(m) =>
              /\ R \in Reports
              /\ R.dev > 0 => rep.dev > 0 \/ m.sa
              /\ R.sbi = rep.sbi /\ R.base = rep.base /\ R.salvaged = rep.salvaged
         /\ \A R : R = CheckReport(m) =>
              /\ R \in Reports
              /\ R.total = rep.total + 1
              /\ R.seen > 0 => rep.seen > 0 \/ m.ht
              /\ R.corrupt > 0 => rep.corrupt > 0 \/ m.crc = "bad"
              /\ R.corrupt <= rep.corrupt + 1
              /\ R.sbi = rep.sbi /\ R.base = rep.base /\ R.salvaged = rep.salvaged
         /\ \A R : R = DiagReport(m) =>
              /\ R \in Reports
              /\ R.sbi = rep.sbi /\ R.base = rep.base /\ R.salvaged = rep.salvaged
<1>0. /\ rep.total \in Nat /\ rep.dev \in Nat /\ rep.trig \in Nat /\ rep.seen \in Nat
      /\ rep.corrupt \in Nat /\ rep.passHigh \in Int /\ rep.failHigh \in Int
  BY DEF Reports
<1>1. ASSUME NEW R, R = [rep EXCEPT !.total = @ + 1]
      PROVE  R \in Reports /\ R.total = rep.total + 1 /\ R.corrupt = rep.corrupt
             /\ R.seen = rep.seen
             /\ R.sbi = rep.sbi /\ R.base = rep.base /\ R.salvaged = rep.salvaged
  BY <1>0, <1>1 DEF Reports
<1>2. ASSUME NEW R, R = SniffReport(m)
      PROVE  /\ R \in Reports
             /\ R.dev > 0 => rep.dev > 0 \/ m.sa
             /\ R.sbi = rep.sbi /\ R.base = rep.base /\ R.salvaged = rep.salvaged
  <2> DEFINE d == Counted(m.size \in {"nobody", "full"} /\ m.sa)
             t == Counted(m.size \notin {"novector", "nofc"} /\ m.trig)
  <2>1. d \in Nat /\ t \in Nat /\ (d > 0 => m.sa)
    BY DEF Counted
  <2> DEFINE total == rep.total + 1
             dev == rep.dev + d
             trig == rep.trig + t
  <2>2. R = [rep EXCEPT !.total = total, !.dev = dev, !.trig = trig]
    BY <1>2 DEF SniffReport
  <2> HIDE DEF d, t
  <2>4. /\ total \in Nat /\ dev \in Nat /\ trig \in Nat
        /\ dev > 0 => rep.dev > 0 \/ d > 0
    BY <1>0, <2>1
  <2> HIDE DEF total, dev, trig
  <2>3. R \in Reports /\ R.dev = dev
        /\ R.sbi = rep.sbi /\ R.base = rep.base /\ R.salvaged = rep.salvaged
    BY <2>2, <2>4 DEF Reports
  <2>5. QED
    BY <2>1, <2>3, <2>4
<1>3. ASSUME NEW R, R = CheckReport(m)
      PROVE  /\ R \in Reports
             /\ R.total = rep.total + 1
             /\ R.seen > 0 => rep.seen > 0 \/ m.ht
             /\ R.corrupt > 0 => rep.corrupt > 0 \/ m.crc = "bad"
             /\ R.corrupt <= rep.corrupt + 1
             /\ R.sbi = rep.sbi /\ R.base = rep.base /\ R.salvaged = rep.salvaged
  <2> DEFINE h == Counted(m.ht)
             c == Counted(m.crc = "bad")
  <2>1. h \in {0, 1} /\ c \in {0, 1} /\ (h > 0 => m.ht) /\ (c > 0 => m.crc = "bad")
    BY DEF Counted
  <2> DEFINE total == rep.total + 1
             seen == rep.seen + h
             corrupt == rep.corrupt + c
  <2>2. R = [rep EXCEPT !.total = total, !.seen = seen, !.corrupt = corrupt]
    BY <1>3 DEF CheckReport
  <2> HIDE DEF h, c
  <2>4. /\ total \in Nat /\ seen \in Nat /\ corrupt \in Nat
        /\ total = rep.total + 1
        /\ seen > 0 => rep.seen > 0 \/ h > 0
        /\ corrupt > 0 => rep.corrupt > 0 \/ c > 0
        /\ corrupt <= rep.corrupt + 1
    BY <1>0, <2>1
  <2> HIDE DEF total, seen, corrupt
  <2>3. R \in Reports /\ R.total = total /\ R.seen = seen /\ R.corrupt = corrupt
        /\ R.sbi = rep.sbi /\ R.base = rep.base /\ R.salvaged = rep.salvaged
    BY <2>2, <2>4 DEF Reports
  <2>5. QED
    BY <2>1, <2>3, <2>4
<1>4. ASSUME NEW R, R = DiagReport(m)
      PROVE  /\ R \in Reports
             /\ R.sbi = rep.sbi /\ R.base = rep.base /\ R.salvaged = rep.salvaged
  <2> DEFINE d == IF m.snr = "high" THEN 1 ELSE -1
             total == rep.total + 1
             corrupt == rep.corrupt + 1
             pass == rep.passHigh + d
             fail == rep.failHigh + d
  <2>1. R = IF CrcOk(m)
            THEN [rep EXCEPT !.total = total, !.passHigh = pass]
            ELSE [rep EXCEPT !.total = total, !.corrupt = corrupt, !.failHigh = fail]
    BY <1>4 DEF DiagReport
  <2>2. total \in Nat /\ corrupt \in Nat /\ pass \in Int /\ fail \in Int
    BY <1>0
  <2> HIDE DEF d, total, corrupt, pass, fail
  <2>3. CASE CrcOk(m)
    BY <2>1, <2>2, <2>3 DEF Reports
  <2>4. CASE ~CrcOk(m)
    BY <2>1, <2>2, <2>4 DEF Reports
  <2>5. QED
    BY <2>3, <2>4
<1>5. QED
  BY <1>1, <1>2, <1>3, <1>4

-----------------------------------------------------------------------------
(* The inductive invariant.                                                *)
AInv == Typed /\ HtOnAir /\ Origin /\ CountsHt /\ Credits

LEMMA InitAInv == Init => AInv
<1> SUFFICES ASSUME Init PROVE HtOnAir /\ Origin /\ CountsHt /\ Credits
  BY InitTyped DEF AInv
<1>1. dbg = <<>> /\ i = 0 /\ Len(dbg) = 0
  BY EmptySeq DEF Init
<1>2. HtStored(dbg, 0) = {} /\ HtBad(dbg, 0) = {}
  BY DEF HtStored, HtBad
<1>3. /\ Cardinality(HtStored(dbg, 0)) = 0 /\ Cardinality(HtBad(dbg, 0)) = 0
      /\ Cardinality(HtStored(dbg, Len(dbg))) = 0
      /\ Cardinality(HtBad(dbg, Len(dbg))) = 0
  BY <1>1, <1>2, FS_EmptySet
<1>4. heard = [frames |-> 0, ht |-> 0, bad |-> 0, ours |-> FALSE, syms |-> {}]
  BY DEF Init
<1>5. heard.ht = 0 /\ heard.bad = 0
  BY <1>4
<1>6. /\ rep.seen = 0 /\ rep.corrupt = 0 /\ rep.base = {} /\ rep.sbi = {}
      /\ rep.salvaged = 0 /\ rep.dev = 0 /\ rep.total = 0
  BY DEF Init
<1>7. HtOnAir
  BY <1>3, <1>5 DEF HtOnAir
<1>8. Origin
  <2>1. \A j \in 1 .. Len(dbg) : FALSE
    BY <1>1
  <2>2. QED
    BY <1>5, <2>1 DEF Origin
<1>9. CountsHt
  <2>1. rep.seen <= Cardinality(HtStored(dbg, i)) /\ rep.corrupt <= Cardinality(HtBad(dbg, i))
    BY <1>1, <1>3, <1>6
  <2>2. QED
    BY <2>1 DEF CountsHt
<1>10. Credits
  BY <1>6 DEF Credits
<1>11. QED
  BY <1>7, <1>8, <1>9, <1>10

(* A longer store that agrees on the first n PDUs has the same indices.    *)
LEMMA IndicesAgree ==
  ASSUME NEW d, NEW e, NEW n \in Nat, \A j \in 1 .. n : e[j] = d[j]
  PROVE  HtStored(e, n) = HtStored(d, n) /\ HtBad(e, n) = HtBad(d, n)
BY DEF HtStored, HtBad

(* A frame is heard and stored.                                            *)
LEMMA HearKeeps ==
  ASSUME Typed, HtOnAir, Origin, CountsHt, Credits, HearOurs \/ HearAmbient
  PROVE  Typed' /\ HtOnAir' /\ Origin' /\ CountsHt' /\ Credits'
<1>0. PICK m \in PDUs, ghost \in BOOLEAN, ours \in BOOLEAN :
        /\ Store(m, ghost) /\ Heard(m, ours)
        /\ ghost => m.ht /\ tool # "keep"
        /\ m.sa \/ m.syms # {} \/ tool \in Closed => ours
        /\ ~keep => m.crc # "bad"
  BY HearCases
<1> DEFINE L == Len(dbg)
<1>1. /\ L \in Nat /\ dbg' \in Seq(PDUs)
      /\ Len(dbg') = L + (IF ghost THEN 2 ELSE 1)
      /\ \A j \in 1 .. L : dbg'[j] = dbg[j]
      /\ dbg'[L + 1] = m
      /\ ghost => dbg'[L + 2] = Ghost(m)
  BY <1>0, StoreGrows, LenProperties DEF Typed
<1>2. /\ tool' = tool /\ tagging' = tagging /\ keep' = keep /\ pc' = pc /\ i' = i
      /\ rep' = rep /\ verdict' = verdict
  BY <1>0 DEF Store, env
<1>3. Ghost(m).ht = FALSE /\ Ghost(m).sa = FALSE /\ Ghost(m).syms = {}
  BY DEF Ghost, PDU
<1>4. m.ht \in BOOLEAN /\ m.syms \in SUBSET AllSymbols
  BY DEF PDUs
<1> DEFINE bad == Counted(m.crc = "bad" /\ (m.ht \/ tool # "rung3"))
<1>5. heard' = [frames |-> heard.frames + 1, ht |-> heard.ht + Counted(m.ht),
                bad |-> heard.bad + bad, ours |-> heard.ours \/ ours,
                syms |-> heard.syms \cup m.syms]
  BY <1>0 DEF Heard
<1>6. /\ heard'.ht = heard.ht + Counted(m.ht)
      /\ heard'.bad = heard.bad + bad
      /\ heard'.ours = (heard.ours \/ ours)
      /\ heard'.syms = heard.syms \cup m.syms
  BY <1>5
<1>7. /\ bad \in {0, 1} /\ Counted(m.ht) \in {0, 1}
      /\ Counted(m.ht /\ m.crc = "bad") <= bad
      /\ Counted(m.ht /\ m.crc = "bad") \in {0, 1}
      /\ tool = "keep" /\ m.crc = "bad" => bad = 1
      /\ m.crc # "bad" => bad = 0
  BY DEF Counted
<1>8. /\ heard.frames \in Nat /\ heard.ht \in Nat /\ heard.bad \in Nat
      /\ heard.ours \in BOOLEAN /\ heard.syms \in SUBSET AllSymbols
  BY DEF Typed, Hearings
<1>b. i \in 0 .. L /\ i \in Nat
  <2>1. i \in 0 .. L
    BY DEF Typed
  <2>2. QED
    BY <1>1, <2>1
<1> HIDE DEF bad, L
<1>9. Typed'
  <2>1. heard' \in Hearings
    BY <1>4, <1>5, <1>7, <1>8 DEF Hearings
  <2>2. i \in 0 .. Len(dbg')
    BY <1>1, <1>b
  <2>3. QED
    BY <1>1, <1>2, <2>1, <2>2 DEF Typed
<1>10. /\ Cardinality(HtStored(dbg', L + 1)) = Cardinality(HtStored(dbg, L)) + Counted(m.ht)
       /\ Cardinality(HtBad(dbg', L + 1)) =
            Cardinality(HtBad(dbg, L)) + Counted(m.ht /\ m.crc = "bad")
  <2>1. HtStored(dbg', L) = HtStored(dbg, L) /\ HtBad(dbg', L) = HtBad(dbg, L)
    BY <1>1, IndicesAgree
  <2>2. /\ Cardinality(HtStored(dbg', L + 1)) =
             Cardinality(HtStored(dbg', L)) + Counted(dbg'[L + 1].ht)
        /\ Cardinality(HtBad(dbg', L + 1)) =
             Cardinality(HtBad(dbg', L))
               + Counted(dbg'[L + 1].ht /\ dbg'[L + 1].crc = "bad")
    BY <1>1, IndicesNext
  <2>3. QED
    BY <1>1, <2>1, <2>2
<1>11. Cardinality(HtStored(dbg, L)) = heard.ht /\ Cardinality(HtBad(dbg, L)) <= heard.bad
       /\ Cardinality(HtBad(dbg, L)) \in Nat
  BY <1>1, IndicesFinite DEF HtOnAir, L
<1>12. HtOnAir'
  <2>1. /\ Cardinality(HtStored(dbg', L + 1)) = heard'.ht
        /\ Cardinality(HtBad(dbg', L + 1)) <= heard'.bad
    BY <1>6, <1>7, <1>8, <1>10, <1>11
  <2>2. CASE ghost
    <3>1. /\ Cardinality(HtStored(dbg', (L + 1) + 1)) =
               Cardinality(HtStored(dbg', L + 1)) + Counted(dbg'[(L + 1) + 1].ht)
          /\ Cardinality(HtBad(dbg', (L + 1) + 1)) =
               Cardinality(HtBad(dbg', L + 1))
                 + Counted(dbg'[(L + 1) + 1].ht /\ dbg'[(L + 1) + 1].crc = "bad")
      BY <1>1, IndicesNext
    <3>2. (L + 1) + 1 = L + 2 /\ Len(dbg') = L + 2
      BY <1>1, <2>2
    <3>3. Counted(dbg'[L + 2].ht) = 0
          /\ Counted(dbg'[L + 2].ht /\ dbg'[L + 2].crc = "bad") = 0
      BY <1>1, <1>3, <2>2 DEF Counted
    <3>4. Cardinality(HtStored(dbg', L + 1)) \in Nat
          /\ Cardinality(HtBad(dbg', L + 1)) \in Nat
      BY <1>1, IndicesFinite
    <3>5. /\ Cardinality(HtStored(dbg', L + 2)) = Cardinality(HtStored(dbg', L + 1))
          /\ Cardinality(HtBad(dbg', L + 2)) = Cardinality(HtBad(dbg', L + 1))
      BY <3>1, <3>2, <3>3, <3>4
    <3>6. QED
      BY <2>1, <3>2, <3>5 DEF HtOnAir
  <2>3. CASE ~ghost
    <3>1. Len(dbg') = L + 1
      BY <1>1, <2>3
    <3>2. QED
      BY <2>1, <3>1 DEF HtOnAir
  <2>4. QED
    BY <2>2, <2>3
<1>13. Origin'
  <2>1. ASSUME NEW j \in 1 .. Len(dbg')
        PROVE  /\ dbg'[j].syms \subseteq heard'.syms
               /\ dbg'[j].sa \/ dbg'[j].syms # {} \/ tool \in Closed => heard'.ours
               /\ tool = "keep" /\ dbg'[j].crc = "bad" => heard'.bad > 0
    <3>1. CASE j \in 1 .. L
      <4>1. /\ dbg[j].syms \subseteq heard.syms
            /\ dbg[j].sa \/ dbg[j].syms # {} \/ tool \in Closed => heard.ours
            /\ tool = "keep" /\ dbg[j].crc = "bad" => heard.bad > 0
        BY <3>1 DEF Origin, L
      <4>2. heard.bad > 0 => heard'.bad > 0
        BY <1>6, <1>7, <1>8
      <4>3. heard.ours => heard'.ours
        BY <1>6
      <4>4. QED
        BY <1>1, <1>6, <3>1, <4>1, <4>2, <4>3
    <3>2. CASE j = L + 1
      <4>1. dbg'[j] = m
        BY <1>1, <3>2
      <4>2. tool = "keep" /\ m.crc = "bad" => heard'.bad > 0
        BY <1>6, <1>7, <1>8
      <4>3. QED
        BY <1>0, <1>6, <4>1, <4>2
    <3>3. CASE j = L + 2 /\ ghost
      <4>1. dbg'[j] = Ghost(m) /\ tool # "keep"
        BY <1>0, <1>1, <3>3
      <4>2. tool \in Closed => heard'.ours
        BY <1>0, <1>6
      <4>3. QED
        BY <1>3, <4>1, <4>2
    <3>4. QED
      BY <1>1, <3>1, <3>2, <3>3
  <2>2. tool = "keep" /\ ~keep => heard'.bad = 0
    BY <1>0, <1>6, <1>7, <1>8 DEF Origin
  <2>3. QED
    BY <1>2, <2>1, <2>2 DEF Origin
<1>14. HtStored(dbg', i) = HtStored(dbg, i) /\ HtBad(dbg', i) = HtBad(dbg, i)
  <2>1. \A j \in 1 .. i : dbg'[j] = dbg[j]
    BY <1>1, <1>b
  <2>2. QED
    BY <1>b, <2>1, IndicesAgree
<1>15. CountsHt'
  BY <1>2, <1>14 DEF CountsHt
<1>16. Credits'
  <2>1. heard.bad > 0 => heard'.bad > 0
    BY <1>6, <1>7, <1>8
  <2>2. heard.ours => heard'.ours
    BY <1>6
  <2>3. rep.sbi \subseteq heard.syms => rep.sbi \subseteq heard'.syms
    BY <1>6
  <2>4. QED
    BY <1>2, <1>14, <2>1, <2>2, <2>3 DEF Credits
<1>17. QED
  BY <1>9, <1>12, <1>13, <1>15, <1>16

(* A tool looks at the next stored PDU.                                    *)
LEMMA ScanKeeps ==
  ASSUME Typed, HtOnAir, Origin, CountsHt, Credits, Scan
  PROVE  Typed' /\ HtOnAir' /\ Origin' /\ CountsHt' /\ Credits'
<1> DEFINE m == dbg[i + 1]
<1>1. /\ tool' = tool /\ tagging' = tagging /\ keep' = keep /\ pc' = pc /\ dbg' = dbg
      /\ verdict' = verdict /\ heard' = heard /\ i' = i + 1 /\ i < Len(dbg)
  BY DEF Scan, env
<1>2. /\ dbg \in Seq(PDUs) /\ Len(dbg) \in Nat /\ i \in Nat /\ i + 1 \in 1 .. Len(dbg)
      /\ rep \in Reports /\ tool \in Tools
  <2>1. dbg \in Seq(PDUs) /\ Len(dbg) \in Nat /\ rep \in Reports /\ tool \in Tools
        /\ i \in 0 .. Len(dbg)
    BY LenProperties DEF Typed
  <2>2. QED
    BY <1>1, <2>1
<1>3. m \in PDUs
  BY <1>2, ElementOfSeq
<1>4. /\ rep.seen \in Nat /\ rep.corrupt \in Nat /\ rep.total \in Nat /\ rep.dev \in Nat
      /\ rep.salvaged \in Nat
  BY <1>2 DEF Reports
<1>5. /\ m.syms \subseteq heard.syms
      /\ m.sa \/ m.syms # {} \/ tool \in Closed => heard.ours
      /\ tool = "keep" /\ m.crc = "bad" => heard.bad > 0
  BY <1>2 DEF Origin
<1>6. /\ Cardinality(HtStored(dbg, i + 1)) = Cardinality(HtStored(dbg, i)) + Counted(m.ht)
      /\ Cardinality(HtBad(dbg, i + 1)) =
           Cardinality(HtBad(dbg, i)) + Counted(m.ht /\ m.crc = "bad")
      /\ HtStored(dbg, i) \subseteq HtStored(dbg, i + 1)
      /\ HtBad(dbg, i) \subseteq HtBad(dbg, i + 1)
      /\ m.ht => HtStored(dbg, i + 1) # {}
      /\ m.ht /\ m.crc = "bad" => HtBad(dbg, i + 1) # {}
      /\ Cardinality(HtStored(dbg, i)) \in Nat /\ Cardinality(HtBad(dbg, i)) \in Nat
  BY <1>2, IndicesNext, IndicesFinite
<1>7. HtOnAir' /\ Origin'
  BY <1>1 DEF HtOnAir, Origin
<1>8. /\ Counted(m.ht) \in {0, 1} /\ Counted(m.ht /\ m.crc = "bad") \in {0, 1}
  BY DEF Counted
<1>9. i' \in 0 .. Len(dbg')
  BY <1>1, <1>2
<1> HIDE DEF m
<1>10. SUFFICES rep' \in Reports /\ CountsHt' /\ Credits'
  BY <1>1, <1>7, <1>9 DEF Typed
<1>11. CASE tool = "rung3"
  <2>1. rep' = Rung3Report(m)
    BY <1>11, Zenon DEF Scan, m
  <2>2. /\ rep' \in Reports
        /\ rep'.seen <= rep.seen + Counted(m.ht)
        /\ rep'.corrupt <= rep.corrupt + Counted(m.ht /\ m.crc = "bad")
        /\ rep.base \subseteq rep.sbi => rep'.base \subseteq rep'.sbi
        /\ rep'.sbi = rep.sbi \/ rep'.sbi = rep.sbi \cup m.syms
        /\ (rep.salvaged = 0 => rep.sbi = rep.base)
             => (rep'.salvaged = 0 => rep'.sbi = rep'.base)
        /\ rep'.salvaged > 0 => rep.salvaged > 0 \/ (m.ht /\ m.crc = "bad")
    BY <1>2, <1>3, <2>1, Rung3Adds
  <2>3. rep'.seen \in Nat /\ rep'.corrupt \in Nat
    BY <2>2 DEF Reports
  <2>4. rep.seen <= Cardinality(HtStored(dbg, i))
        /\ rep.corrupt <= Cardinality(HtBad(dbg, i))
    BY <1>11 DEF CountsHt
  <2>5. rep'.seen <= Cardinality(HtStored(dbg, i + 1))
        /\ rep'.corrupt <= Cardinality(HtBad(dbg, i + 1))
    BY <1>4, <1>6, <1>8, <2>2, <2>3, <2>4
  <2>6. CountsHt'
    BY <1>1, <2>5 DEF CountsHt
  <2>7. /\ rep.base \subseteq rep.sbi /\ rep.sbi \subseteq heard.syms
        /\ rep.sbi # {} => heard.ours
        /\ rep.salvaged = 0 => rep.sbi = rep.base
        /\ rep.salvaged > 0 => HtBad(dbg, i) # {}
    BY DEF Credits
  <2>8. /\ rep'.base \subseteq rep'.sbi /\ rep'.sbi \subseteq heard.syms
        /\ rep'.sbi # {} => heard.ours
        /\ rep'.salvaged = 0 => rep'.sbi = rep'.base
        /\ rep'.salvaged > 0 => HtBad(dbg, i + 1) # {}
    BY <1>5, <1>6, <2>2, <2>7
  <2>9. Credits'
    BY <1>1, <1>11, <2>8 DEF Credits, Closed
  <2>10. QED
    BY <2>2, <2>6, <2>9
<1>12. ASSUME tool # "rung3", rep' \in Reports,
              rep'.sbi = rep.sbi, rep'.base = rep.base, rep'.salvaged = rep.salvaged,
              tool = "sniff" /\ rep'.dev > 0 => heard.ours,
              tool \in Closed /\ rep'.total > 0 => heard.ours,
              tool \in Closed => rep'.corrupt <= rep'.total,
              tool = "hier" /\ rep'.seen > 0 => HtStored(dbg, i + 1) # {},
              tool = "keep" /\ rep'.corrupt > 0 => heard.bad > 0
       PROVE  rep' \in Reports /\ CountsHt' /\ Credits'
  <2>1. CountsHt'
    BY <1>1, <1>12 DEF CountsHt
  <2>2. rep.salvaged > 0 => HtBad(dbg, i + 1) # {}
    BY <1>6 DEF Credits
  <2>3. Credits'
    BY <1>1, <1>12, <2>2 DEF Credits
  <2>4. QED
    BY <1>12, <2>1, <2>3
<1>13. CASE tool = "sniff"
  <2>1. rep' = SniffReport(m)
    BY <1>13, Zenon DEF Scan, m
  <2>2. /\ rep' \in Reports
        /\ rep'.dev > 0 => rep.dev > 0 \/ m.sa
        /\ rep'.sbi = rep.sbi /\ rep'.base = rep.base /\ rep'.salvaged = rep.salvaged
    BY <1>2, <1>3, <2>1, OthersAdd
  <2>3. rep'.dev > 0 => heard.ours
    BY <1>5, <1>13, <2>2 DEF Credits
  <2>4. QED
    BY <1>12, <1>13, <2>2, <2>3 DEF Closed
<1>14. CASE tool = "diag"
  <2>1. rep' = DiagReport(m)
    BY <1>14, Zenon DEF Scan, m
  <2>2. rep' \in Reports
        /\ rep'.sbi = rep.sbi /\ rep'.base = rep.base /\ rep'.salvaged = rep.salvaged
    BY <1>2, <1>3, <2>1, OthersAdd
  <2>3. QED
    BY <1>12, <1>14, <2>2 DEF Closed
<1>15. CASE tool = "loopback"
  <2>1. rep' = [rep EXCEPT !.total = @ + 1]
    BY <1>15, Zenon DEF Scan, m
  <2>2. rep' \in Reports /\ rep'.total = rep.total + 1 /\ rep'.corrupt = rep.corrupt
        /\ rep'.sbi = rep.sbi /\ rep'.base = rep.base /\ rep'.salvaged = rep.salvaged
    BY <1>2, <1>3, <2>1, OthersAdd
  <2>3. rep.corrupt <= rep.total
    BY <1>15 DEF Credits, Closed
  <2>4. rep'.corrupt <= rep'.total
    BY <1>4, <2>2, <2>3
  <2>5. heard.ours
    BY <1>5, <1>15 DEF Closed
  <2>6. QED
    BY <1>12, <1>15, <2>2, <2>4, <2>5
<1>16. CASE tool \in {"hier", "keep"}
  <2>1. rep' = CheckReport(m)
    BY <1>16, Zenon DEF Scan, m
  <2>2. /\ rep' \in Reports /\ rep'.total = rep.total + 1
        /\ rep'.seen > 0 => rep.seen > 0 \/ m.ht
        /\ rep'.corrupt > 0 => rep.corrupt > 0 \/ m.crc = "bad"
        /\ rep'.corrupt <= rep.corrupt + 1
        /\ rep'.sbi = rep.sbi /\ rep'.base = rep.base /\ rep'.salvaged = rep.salvaged
    BY <1>2, <1>3, <2>1, OthersAdd
  <2>3. rep.corrupt <= rep.total
    BY <1>16 DEF Credits, Closed
  <2>4. rep'.corrupt <= rep'.total
    <3>1. rep'.corrupt \in Nat
      BY <2>2 DEF Reports
    <3>2. QED
      BY <1>4, <2>2, <2>3, <3>1
  <2>5. heard.ours
    BY <1>5, <1>16 DEF Closed
  <2>6. tool = "hier" /\ rep'.seen > 0 => HtStored(dbg, i + 1) # {}
    BY <1>6, <2>2 DEF Credits
  <2>7. tool = "keep" /\ rep'.corrupt > 0 => heard.bad > 0
    BY <1>5, <2>2 DEF Credits
  <2>8. QED
    BY <1>12, <1>16, <2>2, <2>4, <2>5, <2>6, <2>7
<1>17. QED
  BY <1>2, <1>11, <1>13, <1>14, <1>15, <1>16 DEF Tools

-----------------------------------------------------------------------------
(* The invariant, with what the verdict says.                              *)
Verdict == verdict = "PASS" => pc = "done"
VInv == AInv /\ Verdict /\ PassEarned

(* What a judged PASS rests on, tool by tool.                              *)
LEMMA JudgedEarned ==
  ASSUME Typed, HtOnAir, Origin, CountsHt, Credits, Judged = "PASS"
  PROVE  /\ heard.ours \/ (tool = "keep" /\ ~keep)
         /\ tool = "rung3" => Cardinality(heard.syms) >= K
         /\ tool = "hier" => heard.ht > 0
         /\ tool = "keep" => (keep <=> heard.bad > 0)
<1>1. /\ rep \in Reports /\ heard \in Hearings /\ tool \in Tools /\ keep \in BOOLEAN
      /\ Len(dbg) \in Nat /\ i \in 0 .. Len(dbg)
  BY LenProperties DEF Typed
<1>2. /\ rep.total \in Nat /\ rep.corrupt \in Nat /\ heard.ht \in Nat /\ heard.bad \in Nat
      /\ rep.sbi \in SUBSET AllSymbols /\ heard.syms \in SUBSET AllSymbols
  BY <1>1 DEF Reports, Hearings
<1>3. CASE tool = "rung3"
  <2>1. Blocks(rep.sbi) # 0
    BY <1>3, Zenon DEF Judged
  <2>2. Cardinality(rep.sbi) >= K
    BY <2>1 DEF Blocks
  <2>3. /\ IsFiniteSet(heard.syms) /\ Cardinality(heard.syms) \in Nat
        /\ Cardinality(rep.sbi) \in Nat /\ rep.sbi \subseteq heard.syms
    BY <1>2, SymbolsFinite DEF Credits
  <2>4. Cardinality(rep.sbi) <= Cardinality(heard.syms)
    BY <2>3, FS_Subset
  <2>5. K \in Nat /\ K > 0
    BY WindowAssumption
  <2>6. rep.sbi # {}
    BY <2>2, <2>5, FS_EmptySet
  <2>7. heard.ours
    BY <2>6 DEF Credits
  <2>8. Cardinality(heard.syms) >= K
    BY <2>2, <2>3, <2>4, <2>5
  <2>9. QED
    BY <1>3, <2>7, <2>8
<1>4. CASE tool = "sniff"
  <2>1. rep.dev > 0
    BY <1>4, Zenon DEF Judged
  <2>2. QED
    BY <1>4, <2>1 DEF Credits
<1>5. CASE tool = "loopback"
  <2>1. rep.total > 0
    BY <1>5, Zenon DEF Judged
  <2>2. QED
    BY <1>5, <2>1 DEF Credits, Closed
<1>6. CASE tool = "hier"
  <2>1. rep.seen > 0
    BY <1>6, Zenon DEF Judged
  <2>2. HtStored(dbg, i) # {}
    BY <1>6, <2>1 DEF Credits
  <2>3. heard.ours /\ heard.ht > 0
    <3>1. PICK j \in 1 .. i : dbg[j].ht
      BY <2>2 DEF HtStored
    <3>2. j \in 1 .. Len(dbg)
      BY <1>1
    <3>3. heard.ours
      BY <1>6, <3>2 DEF Origin, Closed
    <3>4. HtStored(dbg, Len(dbg)) # {}
      BY <3>1, <3>2 DEF HtStored
    <3>5. Cardinality(HtStored(dbg, Len(dbg))) # 0
      BY <1>1, <3>4, IndicesFinite, FS_EmptySet
    <3>6. QED
      BY <1>2, <3>3, <3>5 DEF HtOnAir
  <2>4. QED
    BY <1>6, <2>3
<1>7. CASE tool = "keep"
  <2>1. (rep.corrupt > 0) = keep
    BY <1>7, Zenon DEF Judged
  <2>2. CASE keep
    <3>1. rep.corrupt > 0 /\ heard.bad > 0
      BY <1>7, <2>1, <2>2 DEF Credits
    <3>2. rep.corrupt <= rep.total
      BY <1>7 DEF Credits, Closed
    <3>3. rep.total > 0
      BY <1>2, <3>1, <3>2
    <3>4. heard.ours
      BY <1>7, <3>3 DEF Credits, Closed
    <3>5. QED
      BY <1>7, <2>2, <3>1, <3>4
  <2>3. CASE ~keep
    <3>1. heard.bad = 0
      BY <1>7, <2>3 DEF Origin
    <3>2. QED
      BY <1>7, <2>3, <3>1
  <2>4. QED
    BY <2>2, <2>3
<1>8. CASE tool = "diag"
  BY <1>8, Zenon DEF Judged
<1>9. QED
  BY <1>1, <1>3, <1>4, <1>5, <1>6, <1>7, <1>8 DEF Tools

(* What a tool can say.                                                    *)
LEMMA JudgedTyped ==
  ASSUME tool \in Tools
  PROVE  Judged \in {"NONE", "PARTIAL", "PASS", "FAIL", "INCONCLUSIVE", "DEFECT", "NOISE"}
BY Zenon DEF Judged, Tools

(* The initial state and every step keep the invariant.                    *)
LEMMA InitVInv == Init => VInv
BY InitAInv DEF VInv, Verdict, PassEarned, Init

LEMMA NextVInv == VInv /\ [Next]_vars => VInv'
<1> SUFFICES ASSUME VInv, [Next]_vars PROVE VInv'
  OBVIOUS
<1>1. /\ Typed /\ HtOnAir /\ Origin /\ CountsHt /\ Credits /\ Verdict /\ PassEarned
  BY DEF VInv, AInv
<1>2. CASE HearOurs \/ HearAmbient
  <2>1. Typed' /\ HtOnAir' /\ Origin' /\ CountsHt' /\ Credits'
    BY <1>1, <1>2, HearKeeps
  <2>2. pc = "window" /\ verdict' = verdict
    BY <1>2 DEF HearOurs, HearAmbient, Store
  <2>3. verdict' # "PASS"
    BY <1>1, <2>2 DEF Verdict
  <2>4. QED
    BY <2>1, <2>3 DEF VInv, AInv, Verdict, PassEarned
<1>3. CASE Scan
  <2>1. Typed' /\ HtOnAir' /\ Origin' /\ CountsHt' /\ Credits'
    BY <1>1, <1>3, ScanKeeps
  <2>2. pc = "scan" /\ verdict' = verdict
    BY <1>3 DEF Scan
  <2>3. verdict' # "PASS"
    BY <1>1, <2>2 DEF Verdict
  <2>4. QED
    BY <2>1, <2>3 DEF VInv, AInv, Verdict, PassEarned
<1>4. ASSUME UNCHANGED <<env, dbg, i, rep, heard>>,
             pc' \in {"start", "window", "scan", "done"},
             verdict' \in {"none yet", "CHECKED", "NONE", "PARTIAL", "PASS", "FAIL",
                           "INCONCLUSIVE", "DEFECT", "NOISE"}
      PROVE  AInv'
  <2>1. /\ tool' = tool /\ tagging' = tagging /\ keep' = keep /\ dbg' = dbg /\ i' = i
        /\ rep' = rep /\ heard' = heard
    BY <1>4 DEF env
  <2>2. Typed'
    BY <1>1, <1>4, <2>1 DEF Typed
  <2>3. HtOnAir' /\ Origin' /\ CountsHt' /\ Credits'
    BY <1>1, <2>1 DEF HtOnAir, Origin, CountsHt, Credits
  <2>4. QED
    BY <2>2, <2>3 DEF AInv
<1>5. CASE Check \/ Start \/ Stop
  <2>1. /\ UNCHANGED <<env, dbg, i, rep, heard>>
        /\ pc' \in {"window", "scan", "done"}
        /\ verdict' = verdict \/ verdict' = "CHECKED"
        /\ pc # "done"
    BY <1>5 DEF Check, Start, Stop
  <2>2. AInv'
    BY <1>1, <1>4, <2>1 DEF Typed
  <2>3. verdict' # "PASS"
    BY <1>1, <2>1 DEF Verdict
  <2>4. QED
    BY <2>2, <2>3 DEF VInv, Verdict, PassEarned
<1>6. CASE Judge
  <2>1. /\ UNCHANGED <<env, dbg, i, rep, heard>>
        /\ pc' = "done" /\ verdict' = Judged
    BY <1>6 DEF Judge
  <2>2. AInv'
    BY <1>1, <1>4, <2>1, JudgedTyped DEF Typed
  <2>3. tool' = tool /\ keep' = keep /\ heard' = heard
    BY <2>1 DEF env
  <2>4. PassEarned'
    BY <1>1, <2>1, <2>3, JudgedEarned DEF PassEarned
  <2>5. QED
    BY <2>1, <2>2, <2>4 DEF VInv, Verdict
<1>7. CASE UNCHANGED vars
  <2>1. /\ UNCHANGED <<env, dbg, i, rep, heard>> /\ pc' = pc /\ verdict' = verdict
    BY <1>7 DEF vars
  <2>2. AInv'
    BY <1>1, <1>4, <2>1 DEF Typed
  <2>3. tool' = tool /\ keep' = keep /\ heard' = heard
    BY <2>1 DEF env
  <2>4. QED
    BY <1>1, <2>1, <2>2, <2>3 DEF VInv, Verdict, PassEarned
<1>8. QED
  BY <1>2, <1>3, <1>5, <1>6, <1>7 DEF Next, Finished

(* VInv, the inductive invariant, holds in every reachable state: it ties  *)
(* each counter of the scan to what was on the air.                        *)
THEOREM WindowInvariant == Spec => []VInv
<1>1. QED
  BY InitVInv, NextVInv, PTL DEF Spec

-----------------------------------------------------------------------------
(* The state is well typed, whatever is heard and whoever looks at it.     *)
THEOREM TypeCorrect == Spec => []Typed
<1>1. VInv => Typed
  BY DEF VInv, AInv
<1>2. QED
  BY <1>1, WindowInvariant, PTL

(* The corruption metric of fused_fec_rung3.py is about the link: no frame *)
(* of the air is counted twice, none as corrupt because of its ghost.      *)
THEOREM CountedOnce == Spec => []FramesCountedOnce
<1>1. VInv => FramesCountedOnce
  <2> SUFFICES ASSUME VInv, tool = "rung3"
               PROVE  rep.seen <= heard.ht /\ rep.corrupt <= heard.bad
    BY DEF FramesCountedOnce
  <2>1. /\ Typed /\ HtOnAir
        /\ rep.seen <= Cardinality(HtStored(dbg, i))
        /\ rep.corrupt <= Cardinality(HtBad(dbg, i))
    BY DEF VInv, AInv, CountsHt
  <2>2. /\ Len(dbg) \in Nat /\ i \in 0 .. Len(dbg) /\ rep \in Reports /\ heard \in Hearings
    BY <2>1, LenProperties DEF Typed
  <2>3. i \in Nat /\ 1 .. i \subseteq 1 .. Len(dbg)
    BY <2>2
  <2>4. HtStored(dbg, i) \subseteq HtStored(dbg, Len(dbg))
        /\ HtBad(dbg, i) \subseteq HtBad(dbg, Len(dbg))
    BY <2>3 DEF HtStored, HtBad
  <2>5. /\ Cardinality(HtStored(dbg, i)) <= Cardinality(HtStored(dbg, Len(dbg)))
        /\ Cardinality(HtBad(dbg, i)) <= Cardinality(HtBad(dbg, Len(dbg)))
        /\ Cardinality(HtStored(dbg, i)) \in Nat /\ Cardinality(HtBad(dbg, i)) \in Nat
        /\ Cardinality(HtBad(dbg, Len(dbg))) \in Nat
    BY <2>2, <2>3, <2>4, IndicesFinite, FS_Subset
  <2>6. rep.seen \in Nat /\ rep.corrupt \in Nat /\ heard.ht \in Nat /\ heard.bad \in Nat
    BY <2>2 DEF Reports, Hearings
  <2>7. QED
    BY <2>1, <2>5, <2>6 DEF HtOnAir
<1>2. QED
  BY <1>1, WindowInvariant, PTL

(* A PASS of any of the six tools is earned: the transmitter was heard,    *)
(* and what the tool checks for was really on the air.                     *)
THEOREM PassIsEarned == Spec => []PassEarned
<1>1. VInv => PassEarned
  BY DEF VInv
<1>2. QED
  BY <1>1, WindowInvariant, PTL

(* The rung 3 gain comes from corrupt frames of the link, so a decode_mac  *)
(* that tags nothing never shows one.                                      *)
THEOREM GainNeedsCorruption == Spec => []GainMeansCorruption
<1>1. VInv => GainMeansCorruption
  <2> SUFFICES ASSUME VInv, Gain > 0 PROVE heard.bad > 0 /\ rep.salvaged > 0
    BY DEF GainMeansCorruption
  <2>1. Typed /\ HtOnAir /\ Credits
    BY DEF VInv, AInv
  <2>2. /\ Len(dbg) \in Nat /\ i \in 0 .. Len(dbg) /\ rep \in Reports /\ heard \in Hearings
    BY <2>1, LenProperties DEF Typed
  <2>3. rep.salvaged \in Nat /\ heard.bad \in Nat
    BY <2>2 DEF Reports, Hearings
  <2>4. rep.sbi # rep.base
    BY DEF Gain, Blocks
  <2>5. rep.salvaged > 0
    BY <2>1, <2>3, <2>4 DEF Credits
  <2>6. HtBad(dbg, i) # {}
    BY <2>1, <2>5 DEF Credits
  <2>7. 1 .. i \subseteq 1 .. Len(dbg)
    BY <2>2
  <2>8. HtBad(dbg, Len(dbg)) # {}
    BY <2>6, <2>7 DEF HtBad
  <2>9. Cardinality(HtBad(dbg, Len(dbg))) # 0 /\ Cardinality(HtBad(dbg, Len(dbg))) \in Nat
    BY <2>2, <2>8, IndicesFinite, FS_EmptySet
  <2>10. heard.bad > 0
    BY <2>1, <2>3, <2>9 DEF HtOnAir
  <2>11. QED
    BY <2>5, <2>10
<1>2. QED
  BY <1>1, WindowInvariant, PTL
=============================================================================
