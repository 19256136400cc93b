-------------------------- MODULE RamWriterProofs --------------------------
(* The RAM writer of switcheck keeps the words it took, in order and each   *)
(* once, for every length of a burst, width of a beat, FIFO depth, ring     *)
(* size and stream; and it keeps the words, the bursts and the addresses in *)
(* step until a series ends with words that do not fill their burst.        *)
EXTENDS RamWriter, SequenceTheorems, TLAPS

One(p) == IF p THEN 1 ELSE 0
LastBuffered == buf_1.valid /\ buf_1.data.last

\* Beats the burst under way has yet to read from the FIFO, and the words the
\* FIFO holds beyond these.
Remaining == IF int_wvalid_reg THEN B - int_cntr_reg ELSE 0
Spare == Len(fifo) - Ratio * Remaining

SourceType == [word : 0 .. MaxWords, left : Nat, tail : Nat,
               lost : BOOLEAN, ragged : BOOLEAN]

Typed ==
    /\ int_awvalid_reg \in BOOLEAN /\ awlen_reg \in 0 .. B - 1
    /\ int_wvalid_reg \in BOOLEAN /\ tlast_pending_reg \in BOOLEAN
    /\ int_cntr_reg \in 0 .. B - 1 /\ int_addr_reg \in 0 .. MaxAddr
    /\ buf_0 \in [valid : BOOLEAN, data : 0 .. MaxAddr]
    /\ buf_1 \in [valid : BOOLEAN, data : [last : BOOLEAN, words : Seq(Nat)]]
    /\ buf_1.data.words = Junk \/ Len(buf_1.data.words) = Ratio
    /\ fifo \in Seq(Nat) /\ Len(fifo) <= Depth
    /\ \A i \in DOMAIN fifo : fifo[i] \in 1 .. source.word
    /\ source \in SourceType
    /\ slave.word \in Nat

\* The line from the last word in memory, over the beat on the port and the
\* FIFO, to the next word the FIFO will take.
Line(a, w, f, e) == <<a>> \o (w \o f) \o <<e>>
Counting(s) == \A i \in 1 .. Len(s) - 1 : s[i + 1] = s[i] + 1

OnPort == IF buf_1.valid THEN buf_1.data.words ELSE <<>>
Way == Line(slave.word, OnPort, fifo, source.word + 1)
Linked == Counting(Way)

\* What the slave has, all its bursts being full ones.
SlaveTyped ==
    slave \in [lens : Seq({B}), addr : 0 .. MaxAddr, beat : 0 .. B - 1,
               beats : Nat, word : Nat]

\* Every address is handed over at the edge that begins its burst, with the
\* length of a full one; the slots follow each other round the ring.
HandedOver ==
    /\ int_awvalid_reg = FALSE /\ awlen_reg = MAX_AWLEN
    /\ buf_0.valid => buf_0.data = NextSlot(slave.addr)
    /\ int_addr_reg = NextSlot(IF buf_0.valid THEN buf_0.data ELSE slave.addr)

\* Every burst begun has one address, waiting or with the slave, who has had
\* the address of any burst of which it has a beat.
OneAddressPerBurst ==
    /\ Len(slave.lens) + One(buf_0.valid) = One(int_wvalid_reg) + One(LastBuffered)
    /\ slave.beat > 0 => slave.lens # <<>>

\* wlast is on exactly the B-th beat, and the counter agrees with the slave.
BeatsCounted ==
    /\ buf_1.valid => /\ buf_1.data.words # Junk
                      /\ buf_1.data.last <=> slave.beat = B - 1
    /\ int_cntr_reg = IF buf_1.valid THEN NextBeat(slave.beat) ELSE slave.beat
    /\ ~int_wvalid_reg => int_cntr_reg = 0

\* The FIFO holds all that the burst under way has yet to read; what it took
\* without what it holds beyond that is a number of whole bursts; and it holds
\* one more burst while the end of a series is pending.
BurstsCovered ==
    /\ Spare >= 0
    /\ (source.word - Spare) % (B * Ratio) = 0
    /\ tlast_pending_reg => Spare >= B * Ratio

\* Words, beats, bursts and addresses are in step.
Whole == /\ Typed /\ Linked /\ SlaveTyped
         /\ HandedOver /\ OneAddressPerBurst /\ BeatsCounted /\ BurstsCovered

IInv == Typed /\ Linked /\ (~source.ragged => Whole)

-----------------------------------------------------------------------------
\* Arithmetic: whole numbers of beats and of bursts.

LEMMA Division ==
    ASSUME NEW k \in Nat, NEW r \in Nat \ {0}
    PROVE  /\ k \div r \in Nat /\ k % r \in 0 .. r - 1
           /\ k = r * (k \div r) + (k % r)
  OBVIOUS

LEMMA AtLeast ==
    ASSUME NEW k \in Nat, NEW r \in Nat \ {0}, NEW m \in Nat
    PROVE  k \div r >= m <=> k >= m * r
<1> DEFINE q == k \div r
<1>1. q \in Nat /\ k % r \in 0 .. r - 1 /\ k = r * q + (k % r)
  BY Division
<1> HIDE DEF q
<1>2. ASSUME q >= m PROVE k >= m * r
  <2>1. (q - m) * r >= 0 /\ r * q = (q - m) * r + m * r
    BY <1>1, <1>2
  <2> QED
    BY <1>1, <2>1
<1>3. ASSUME k >= m * r PROVE q >= m
  <2>1. SUFFICES ASSUME q <= m - 1 PROVE FALSE
    BY <1>1
  <2>2. (m - 1 - q) * r >= 0
    BY <1>1, <2>1
  <2>3. r * q <= m * r - r
    BY <1>1, <2>2
  <2> QED
    BY <1>1, <1>3, <2>3
<1> QED
  BY <1>2, <1>3 DEF q

LEMMA RemainderUnique ==
    ASSUME NEW n \in Nat \ {0}, NEW q \in Int, NEW r \in 0 .. n - 1
    PROVE  (n * q + r) % n = r
  OBVIOUS

LEMMA Quotient ==
    ASSUME NEW x \in Int, NEW n \in Nat \ {0}, x % n = 0
    PROVE  \E q \in Int : x = n * q
<1>1. x = n * (x \div n) + (x % n) /\ x \div n \in Int
  OBVIOUS
<1> QED
  BY <1>1

LEMMA SumOfMultiples ==
    ASSUME NEW x \in Int, NEW y \in Int, NEW n \in Nat \ {0},
           x % n = 0, y % n = 0
    PROVE  (x + y) % n = 0 /\ (x - n) % n = 0
<1>1. PICK p \in Int : x = n * p
  BY Quotient
<1>2. PICK q \in Int : y = n * q
  BY Quotient
<1>3. x + y = n * (p + q) + 0 /\ x - n = n * (p - 1) + 0
  BY <1>1, <1>2
<1>4. (n * (p + q) + 0) % n = 0 /\ (n * (p - 1) + 0) % n = 0
  BY RemainderUnique
<1> QED
  BY <1>3, <1>4

LEMMA PositiveMultiple ==
    ASSUME NEW x \in Nat \ {0}, NEW n \in Nat \ {0}, x % n = 0
    PROVE  x >= n
<1>1. PICK q \in Int : x = n * q
  <2>1. x \in Int
    OBVIOUS
  <2> QED
    BY <2>1, Quotient
<1>2. q >= 1
  <2>1. SUFFICES ASSUME q <= 0 PROVE FALSE
    BY <1>1
  <2>2. n * (-q) >= 0
    BY <2>1
  <2> QED
    BY <1>1, <2>2
<1>3. n * (q - 1) >= 0
  BY <1>2
<1> QED
  BY <1>1, <1>3

-----------------------------------------------------------------------------
\* The line of words.

LEMMA LineFacts ==
    ASSUME NEW a \in Nat, NEW w \in Seq(Nat), NEW f \in Seq(Nat), NEW e \in Nat
    PROVE  LET s == Line(a, w, f, e)
           IN  /\ s \in Seq(Nat) /\ Len(s) = Len(w) + Len(f) + 2
               /\ s[1] = a /\ s[Len(s)] = e
               /\ \A i \in 1 .. Len(w) : s[i + 1] = w[i]
               /\ \A i \in 1 .. Len(f) : s[i + 1 + Len(w)] = f[i]
<1> DEFINE t == w \o f
<1>1. t \in Seq(Nat) /\ Len(t) = Len(w) + Len(f) /\ Len(w) \in Nat /\ Len(f) \in Nat
  OBVIOUS
<1>2. /\ \A i \in 1 .. Len(w) : t[i] = w[i]
      /\ \A i \in 1 .. Len(f) : t[i + Len(w)] = f[i]
  OBVIOUS
<1> HIDE DEF t
<1> DEFINE s == (<<a>> \o t) \o <<e>>
<1>3. /\ s \in Seq(Nat) /\ Len(s) = Len(t) + 2
      /\ s[1] = a /\ s[Len(t) + 2] = e
      /\ \A i \in 1 .. Len(t) : s[i + 1] = t[i]
  BY <1>1
<1> HIDE DEF s
<1>4. /\ \A i \in 1 .. Len(w) : s[i + 1] = w[i]
      /\ \A i \in 1 .. Len(f) : s[i + 1 + Len(w)] = f[i]
  <2>1. ASSUME NEW i \in 1 .. Len(f) PROVE s[i + 1 + Len(w)] = f[i]
    <3>1. i + Len(w) \in 1 .. Len(t) /\ i + 1 + Len(w) = (i + Len(w)) + 1
      BY <1>1
    <3> QED
      BY <1>2, <1>3, <3>1
  <2>2. ASSUME NEW i \in 1 .. Len(w) PROVE s[i + 1] = w[i]
    <3>1. i \in 1 .. Len(t)
      BY <1>1
    <3> QED
      BY <1>2, <1>3, <3>1
  <2> QED
    BY <2>1, <2>2
<1> QED
  BY <1>1, <1>3, <1>4 DEF Line, s, t

\* Moving a beat from the FIFO to the port changes nothing in the line.
LEMMA LineLoaded ==
    ASSUME NEW a \in Nat, NEW f \in Seq(Nat), NEW e \in Nat,
           NEW r \in Nat, r <= Len(f)
    PROVE  Line(a, SubSeq(f, 1, r), SubSeq(f, r + 1, Len(f)), e)
             = Line(a, <<>>, f, e)
<1>1. SubSeq(f, 1, r) \o SubSeq(f, r + 1, Len(f)) = f
  <2>1. SubSeq(f, 1, Len(f)) = f
    BY SubSeqFull
  <2>2. SubSeq(f, 1, r) \o SubSeq(f, r + 1, Len(f)) = SubSeq(f, 1, Len(f))
    <3>1. /\ 1 \in 1 .. Len(f) + 1 /\ r \in 1 - 1 .. Len(f)
          /\ Len(f) \in r .. Len(f)
      OBVIOUS
    <3> QED
      BY <3>1, ConcatAdjacentSubSeq
  <2> QED
    BY <2>1, <2>2
<1>2. <<>> \o f = f
  BY ConcatEmptySeq
<1> QED
  BY <1>1, <1>2 DEF Line

\* Taking the beat on the port cuts its words off.
LEMMA LineTaken ==
    ASSUME NEW a \in Nat, NEW w \in Seq(Nat), w # <<>>, NEW f \in Seq(Nat),
           NEW e \in Nat
    PROVE  /\ Last(w) \in Nat
           /\ Counting(Line(a, w, f, e)) => Counting(Line(Last(w), <<>>, f, e))
<1> DEFINE s == Line(a, w, f, e)
           t == Line(Last(w), <<>>, f, e)
           k == Len(w)
<1>1. k \in Nat \ {0} /\ Last(w) = w[k] /\ w[k] \in Nat /\ <<>> \in Seq(Nat)
      /\ Len(<<>>) = 0 /\ Len(f) \in Nat
  BY DEF Last
<1>2. /\ Len(s) = k + Len(f) + 2 /\ s[Len(s)] = e
      /\ s[k + 1] = w[k]
      /\ \A i \in 1 .. Len(f) : s[i + 1 + k] = f[i]
  BY <1>1, LineFacts
<1>3. /\ Len(t) = Len(f) + 2 /\ t[Len(t)] = e
      /\ t[1] = w[k]
      /\ \A i \in 1 .. Len(f) : t[i + 1 + 0] = f[i]
  <2>1. PICK z \in Seq(Nat) : z = <<>>
    BY <1>1
  <2>2. PICK x \in Nat : x = Last(w)
    BY <1>1
  <2>3. LET u == Line(x, z, f, e) IN
           /\ Len(u) = Len(z) + Len(f) + 2 /\ u[Len(u)] = e /\ u[1] = x
           /\ \A i \in 1 .. Len(f) : u[i + 1 + Len(z)] = f[i]
    BY LineFacts
  <2> QED
    BY <1>1, <2>1, <2>2, <2>3
<1> HIDE DEF s, t, k
<1>4. \A i \in 1 .. Len(t) : t[i] = s[i + k]
  <2> TAKE i \in 1 .. Len(t)
  <2>1. CASE i = 1
    BY <1>1, <1>2, <1>3, <2>1
  <2>2. CASE i = Len(t)
    BY <1>1, <1>2, <1>3, <2>2
  <2>3. CASE i # 1 /\ i # Len(t)
    <3>1. i - 1 \in 1 .. Len(f) /\ (i - 1) + 1 + 0 = i /\ (i - 1) + 1 + k = i + k
      BY <1>1, <1>3, <2>3
    <3> QED
      BY <1>2, <1>3, <3>1
  <2> QED
    BY <2>1, <2>2, <2>3
<1>5. ASSUME NEW i \in 1 .. Len(t) - 1
      PROVE  /\ t[i] = s[i + k] /\ t[i + 1] = s[(i + k) + 1]
             /\ i + k \in 1 .. Len(s) - 1
  <2>1. i \in 1 .. Len(t) /\ i + 1 \in 1 .. Len(t) /\ (i + 1) + k = (i + k) + 1
    BY <1>1, <1>3
  <2>2. i + k \in 1 .. Len(s) - 1
    BY <1>1, <1>2, <1>3
  <2> QED
    BY <1>4, <2>1, <2>2
<1> QED
  BY <1>1, <1>5 DEF Counting, s, t

\* A word that finds room in the FIFO lengthens the line by the next one.
LEMMA LineOffered ==
    ASSUME NEW a \in Nat, NEW w \in Seq(Nat), NEW f \in Seq(Nat), NEW e \in Nat
    PROVE  Counting(Line(a, w, f, e)) => Counting(Line(a, w, f \o <<e>>, e + 1))
<1>1. PICK g \in Seq(Nat) : g = f \o <<e>>
  <2>1. f \o <<e>> \in Seq(Nat)
    OBVIOUS
  <2> QED
    BY <2>1
<1>2. PICK h \in Nat : h = e + 1
  OBVIOUS
<1>3. /\ Len(g) = Len(f) + 1 /\ g[Len(f) + 1] = e
      /\ \A i \in 1 .. Len(f) : g[i] = f[i]
  BY <1>1
<1> DEFINE s == Line(a, w, f, e)
           t == Line(a, w, g, h)
<1>4. /\ Len(s) = Len(w) + Len(f) + 2 /\ s[1] = a /\ s[Len(s)] = e
      /\ \A i \in 1 .. Len(w) : s[i + 1] = w[i]
      /\ \A i \in 1 .. Len(f) : s[i + 1 + Len(w)] = f[i]
  BY LineFacts
<1>5. /\ Len(t) = Len(w) + Len(g) + 2 /\ t[1] = a /\ t[Len(t)] = h
      /\ \A i \in 1 .. Len(w) : t[i + 1] = w[i]
      /\ \A i \in 1 .. Len(g) : t[i + 1 + Len(w)] = g[i]
  BY LineFacts
<1> HIDE DEF s, t
<1>6. PICK m \in Nat, n \in Nat : m = Len(w) /\ n = Len(f)
  <2>1. Len(w) \in Nat /\ Len(f) \in Nat
    OBVIOUS
  <2> QED
    BY <2>1
<1>7. Len(s) = m + n + 2 /\ Len(t) = m + n + 3 /\ Len(g) = n + 1
  BY <1>3, <1>4, <1>5, <1>6
<1>8. \A i \in 1 .. m + n + 2 : t[i] = s[i]
  <2> TAKE i \in 1 .. m + n + 2
  <2>1. CASE i = 1
    BY <1>4, <1>5, <2>1
  <2>2. CASE i \in 2 .. m + 1
    <3>1. i - 1 \in 1 .. Len(w) /\ (i - 1) + 1 = i
      BY <1>6, <2>2
    <3> QED
      BY <1>4, <1>5, <3>1
  <2>3. CASE i \in m + 2 .. m + n + 1
    <3>1. /\ i - 1 - m \in 1 .. n /\ i - 1 - m \in 1 .. n + 1
          /\ (i - 1 - m) + 1 + m = i
      BY <2>3
    <3>2. t[i] = g[i - 1 - m]
      BY <1>5, <1>6, <1>7, <3>1
    <3>3. s[i] = f[i - 1 - m]
      BY <1>4, <1>6, <3>1
    <3> QED
      BY <1>3, <1>6, <3>1, <3>2, <3>3
  <2>4. CASE i = m + n + 2
    <3>1. n + 1 \in 1 .. Len(g) /\ (n + 1) + 1 + m = i
      BY <1>7, <2>4
    <3>2. t[i] = g[n + 1]
      BY <1>5, <1>6, <3>1
    <3> QED
      BY <1>3, <1>4, <1>6, <1>7, <2>4, <3>2
  <2> QED
    BY <2>1, <2>2, <2>3, <2>4
<1>9. t[m + n + 2] = e /\ t[(m + n + 2) + 1] = e + 1
  <2>0. s[Len(s)] = e /\ t[Len(t)] = h
    BY <1>4, <1>5
  <2>1. s[m + n + 2] = e /\ t[m + n + 3] = h
    BY <2>0, <1>7
  <2>3. (m + n + 2) + 1 = m + n + 3
    OBVIOUS
  <2>2. m + n + 2 \in 1 .. m + n + 2
    OBVIOUS
  <2> QED
    BY <1>2, <1>8, <2>1, <2>2, <2>3
<1>10. ASSUME NEW i \in 1 .. m + n + 1
       PROVE  t[i] = s[i] /\ t[i + 1] = s[i + 1] /\ i \in 1 .. Len(s) - 1
  BY <1>7, <1>8
<1>12. ASSUME Counting(s) PROVE Counting(t)
  <2> SUFFICES ASSUME NEW i \in 1 .. m + n + 2 PROVE t[i + 1] = t[i] + 1
    BY <1>7 DEF Counting
  <2>1. CASE i = m + n + 2
    BY <1>9, <2>1
  <2>2. CASE i # m + n + 2
    <3>1. i \in 1 .. m + n + 1
      BY <2>2
    <3>2. t[i] = s[i] /\ t[i + 1] = s[i + 1] /\ i \in 1 .. Len(s) - 1
      BY <1>10, <3>1
    <3> QED
      BY <1>12, <3>2 DEF Counting
  <2> QED
    BY <2>1, <2>2
<1> QED
  BY <1>1, <1>2, <1>12 DEF s, t

LEMMA LineFirst == Counting(Line(0, <<>>, <<>>, 1))
<1> DEFINE s == Line(0, <<>>, <<>>, 1)
<1>1. PICK z \in Seq(Nat) : z = <<>> /\ Len(z) = 0
  BY EmptySeq
<1>2. LET u == Line(0, z, z, 1)
      IN  Len(u) = Len(z) + Len(z) + 2 /\ u[1] = 0 /\ u[Len(u)] = 1
  BY LineFacts
<1>3. s = Line(0, z, z, 1)
  BY <1>1
<1> HIDE DEF s
<1> QED
  BY <1>1, <1>2, <1>3 DEF Counting

-----------------------------------------------------------------------------
\* What the invariant says of the wires.

LEMMA Sizes ==
    /\ B \in Nat /\ B >= 2 /\ Ratio \in Nat \ {0} /\ MaxAddr \in Nat
    /\ Depth \in Nat /\ Depth > B * Ratio /\ MaxWords \in Nat
    /\ Series \subseteq Nat \ {0}
    /\ B * Ratio \in Nat \ {0} /\ Ratio <= B * Ratio
<1>1. /\ B \in Nat /\ B >= 2 /\ Ratio \in Nat \ {0} /\ MaxAddr \in Nat
      /\ Depth \in Nat /\ Depth > B * Ratio /\ MaxWords \in Nat
      /\ Series \subseteq Nat \ {0}
  BY RamWriterAssumption
<1>2. (B - 1) * Ratio >= 0 /\ (B - 1) * Ratio = B * Ratio - Ratio
  BY <1>1
<1> QED
  BY <1>1, <1>2

LEMMA CountFacts ==
    ASSUME Typed
    PROVE  /\ Len(fifo) \in Nat /\ int_count_wire \in Nat
           /\ int_count_wire >= B <=> Len(fifo) >= B * Ratio
           /\ int_count_wire > 0 <=> Len(fifo) >= Ratio
<1>1. Len(fifo) \in Nat
  BY DEF Typed
<1>2. int_count_wire \in Nat
  BY <1>1, Sizes, Division DEF int_count_wire
<1>3. int_count_wire >= B <=> Len(fifo) >= B * Ratio
  BY <1>1, Sizes, AtLeast DEF int_count_wire
<1>4. int_count_wire >= 1 <=> Len(fifo) >= 1 * Ratio
  BY <1>1, Sizes, AtLeast DEF int_count_wire
<1> QED
  BY <1>1, <1>2, <1>3, <1>4, Sizes

LEMMA BeatAfter ==
    ASSUME NEW n \in 0 .. B - 1
    PROVE  NextBeat(n) = IF n = B - 1 THEN 0 ELSE n + 1
<1>1. CASE n = B - 1
  <2>1. n + 1 = B * 1 + 0 /\ 0 \in 0 .. B - 1
    BY <1>1, Sizes
  <2>2. (B * 1 + 0) % B = 0
    BY <2>1, Sizes, RemainderUnique
  <2> QED
    BY <1>1, <2>1, <2>2 DEF NextBeat
<1>2. CASE n # B - 1
  <2>1. n + 1 = B * 0 + (n + 1) /\ n + 1 \in 0 .. B - 1
    BY <1>2, Sizes
  <2>2. (B * 0 + (n + 1)) % B = n + 1
    BY <2>1, Sizes, RemainderUnique
  <2> QED
    BY <1>2, <2>1, <2>2 DEF NextBeat
<1> QED
  BY <1>1, <1>2

LEMMA RemainingFacts ==
    ASSUME Typed
    PROVE  /\ Remaining \in Nat /\ Spare \in Int
           /\ int_wvalid_reg => Remaining = B - int_cntr_reg /\ Remaining >= 1
           /\ ~int_wvalid_reg => Remaining = 0 /\ Spare = Len(fifo)
           /\ Spare + Ratio * Remaining = Len(fifo)
<1>1. /\ Remaining \in Nat
      /\ int_wvalid_reg => Remaining = B - int_cntr_reg /\ Remaining >= 1
      /\ ~int_wvalid_reg => Remaining = 0
  BY Sizes DEF Remaining, Typed
<1>2. Len(fifo) \in Nat /\ Ratio * Remaining \in Nat /\ Ratio * 0 = 0
  BY <1>1, Sizes DEF Typed
<1> QED
  BY <1>1, <1>2 DEF Spare

\* A burst begins when the FIFO holds all of it.
LEMMA BurstBegins ==
    ASSUME Whole
    PROVE  /\ int_valid_wire <=> ~int_wvalid_reg /\ Len(fifo) >= B * Ratio
           /\ int_wvalid_wire => Len(fifo) >= Ratio /\ int_count_wire > 0
<1>1. Typed
  BY DEF Whole
<1>2. int_valid_wire <=> ~int_wvalid_reg /\ Len(fifo) >= B * Ratio
  <2>1. tlast_pending_reg /\ ~int_wvalid_reg => Len(fifo) >= B * Ratio
    BY <1>1, RemainingFacts DEF Whole, BurstsCovered
  <2>2. tlast_pending_reg /\ ~int_wvalid_reg => int_count_wire >= B
    BY <1>1, <2>1, CountFacts
  <2>3. int_valid_wire <=> ~int_wvalid_reg /\ int_count_wire >= B
    BY <2>2 DEF int_valid_wire
  <2> QED
    BY <1>1, <2>3, CountFacts
<1>3. int_wvalid_reg => Len(fifo) >= Ratio
  <2> SUFFICES ASSUME int_wvalid_reg PROVE Len(fifo) >= Ratio
    OBVIOUS
  <2>1. Ratio * (Remaining - 1) >= 0
        /\ Ratio * (Remaining - 1) = Ratio * Remaining - Ratio
    BY <1>1, RemainingFacts, Sizes
  <2> QED
    BY <1>1, <2>1, RemainingFacts, Sizes DEF Whole, BurstsCovered
<1>4. int_valid_wire => Len(fifo) >= Ratio
  BY <1>1, <1>2, Sizes, CountFacts
<1>5. int_wvalid_wire => Len(fifo) >= Ratio
  BY <1>3, <1>4 DEF int_wvalid_wire
<1> QED
  BY <1>1, <1>2, <1>5, CountFacts

\* The address of the burst before has been taken by then: the slave cannot
\* have had a beat of it without.
LEMMA AddressHasRoom ==
    ASSUME Whole, int_valid_wire
    PROVE  ~buf_0.valid /\ int_cntr_reg = 0
<1>1. ~int_wvalid_reg /\ int_cntr_reg = 0
  BY DEF int_valid_wire, Whole, BeatsCounted
<1>2. SUFFICES ASSUME buf_0.valid PROVE FALSE
  BY <1>1
<1>3. Len(slave.lens) + 1 = One(LastBuffered) /\ Len(slave.lens) \in Nat
  BY <1>1, <1>2 DEF Whole, OneAddressPerBurst, One, Typed
<1>4. LastBuffered /\ slave.lens = <<>>
  BY <1>3 DEF One, Whole, Typed
<1>5. slave.beat = B - 1 /\ slave.beat > 0
  BY <1>4, Sizes DEF LastBuffered, Whole, BeatsCounted
<1> QED
  BY <1>4, <1>5 DEF Whole, OneAddressPerBurst

-----------------------------------------------------------------------------
\* The registers after a clock edge, the wires between the parts expanded.

LEMMA ClockStep ==
    ASSUME Whole, NEW tvalid \in BOOLEAN, NEW awready \in BOOLEAN,
           NEW wready \in BOOLEAN, NEW n \in Series,
           Clock(tvalid, n, awready, wready)
    PROVE  LET begin == int_valid_wire
               rden == int_wvalid_wire /\ (~buf_1.valid \/ wready)
               room == ~buf_1.valid \/ wready
               tlast == tvalid /\ Offer(n).left = 0
           IN  /\ int_awvalid_reg' = FALSE /\ awlen_reg' = MAX_AWLEN
               /\ int_addr_reg' = IF begin THEN NextSlot(int_addr_reg)
                                           ELSE int_addr_reg
               /\ tlast_pending_reg' = ((tlast_pending_reg \/ tlast) /\ ~begin)
               /\ begin => buf_0' = [valid |-> TRUE, data |-> int_addr_reg]
               /\ ~begin => /\ buf_0'.valid = (buf_0.valid /\ ~awready)
                            /\ buf_0.valid /\ ~awready => buf_0' = buf_0
               /\ int_cntr_reg' = IF rden THEN NextBeat(int_cntr_reg)
                                          ELSE int_cntr_reg
               /\ int_wvalid_reg' = (int_wvalid_wire
                                       /\ ~(rden /\ int_cntr_reg = B - 1))
               /\ rden => buf_1' = [valid |-> TRUE,
                                    data |-> [last |-> int_cntr_reg = B - 1,
                                              words |-> SubSeq(fifo, 1, Ratio)]]
               /\ ~rden => /\ buf_1'.valid = (buf_1.valid /\ ~wready)
                           /\ buf_1.valid /\ ~wready => buf_1' = buf_1
               /\ fifo' = (IF rden THEN SubSeq(fifo, Ratio + 1, Len(fifo))
                                   ELSE fifo)
                            \o (IF tvalid /\ Len(fifo) # Depth
                                  THEN <<source.word + 1>> ELSE <<>>)
<1> DEFINE begin == int_valid_wire
           room == ~buf_1.valid \/ wready
           rden == int_wvalid_wire /\ room
<1>1. /\ int_awvalid_reg = FALSE /\ awlen_reg = MAX_AWLEN /\ MAX_AWLEN = B - 1
      /\ int_wvalid_reg \in BOOLEAN /\ tlast_pending_reg \in BOOLEAN
      /\ buf_0.valid \in BOOLEAN /\ buf_1.valid \in BOOLEAN /\ begin \in BOOLEAN
      /\ int_wvalid_wire \in BOOLEAN
  BY DEF Whole, HandedOver, Typed, int_valid_wire, int_wvalid_wire, MAX_AWLEN
<1>2. int_awvalid_wire = begin
  BY <1>1 DEF int_awvalid_wire
<1>3. begin => OutputReady(buf_0, awready) /\ int_count_wire >= B
  BY AddressHasRoom, BurstBegins, CountFacts DEF OutputReady, Whole
<1>4. /\ int_awvalid_reg' = FALSE /\ awlen_reg' = MAX_AWLEN
      /\ int_addr_reg' = IF begin THEN NextSlot(int_addr_reg) ELSE int_addr_reg
      /\ tlast_pending_reg' = ((tlast_pending_reg
                                  \/ (tvalid /\ Offer(n).left = 0)) /\ ~begin)
      /\ buf_0' = OutputEdge(buf_0, begin, int_addr_reg, awready)
  BY <1>1, <1>2, <1>3 DEF Clock, AddressEdge, Awlen
<1>5. /\ begin => buf_0' = [valid |-> TRUE, data |-> int_addr_reg]
      /\ ~begin => /\ buf_0'.valid = (buf_0.valid /\ ~awready)
                   /\ buf_0.valid /\ ~awready => buf_0' = buf_0
  <2>1. CASE begin
    BY <1>3, <1>4, <2>1 DEF OutputEdge, OutputLoad
  <2>2. CASE ~begin
    <3>1. buf_0.valid /\ ~awready => buf_0' = buf_0
      BY <1>4, <2>2 DEF OutputEdge, OutputLoad, OutputReady, Whole, Typed
    <3>2. buf_0'.valid = (buf_0.valid /\ ~awready)
      BY <1>1, <1>4, <2>2 DEF OutputEdge, OutputLoad, OutputReady
    <3> QED
      BY <2>2, <3>1, <3>2
  <2> QED
    BY <2>1, <2>2
<1>6. /\ OutputReady(buf_1, wready) = room
      /\ int_wlast_wire = (int_cntr_reg = B - 1)
      /\ begin => int_cntr_reg = 0
      /\ int_wvalid_wire => int_count_wire > 0
                            /\ int_wdata_wire = SubSeq(fifo, 1, Ratio)
  BY <1>1, AddressHasRoom, BurstBegins
     DEF OutputReady, int_wlast_wire, int_wdata_wire
<1>7. int_cntr_reg' = IF rden THEN NextBeat(int_cntr_reg) ELSE int_cntr_reg
  BY <1>2, <1>3, <1>6 DEF Clock, DataEdge
<1>8. int_wvalid_reg' = (int_wvalid_wire /\ ~(rden /\ int_cntr_reg = B - 1))
  BY <1>1, <1>6 DEF Clock, DataEdge
<1>9. buf_1' = OutputEdge(buf_1, int_wvalid_wire,
                 [last |-> int_cntr_reg = B - 1, words |-> int_wdata_wire], wready)
  BY <1>6 DEF Clock, DataEdge
<1>10. rden => buf_1' = [valid |-> TRUE,
                         data |-> [last |-> int_cntr_reg = B - 1,
                                   words |-> SubSeq(fifo, 1, Ratio)]]
  BY <1>6, <1>9 DEF OutputEdge, OutputLoad
<1>11. ~rden => /\ buf_1'.valid = (buf_1.valid /\ ~wready)
                /\ buf_1.valid /\ ~wready => buf_1' = buf_1
  <2>1. CASE room /\ ~int_wvalid_wire
    BY <1>1, <1>6, <1>9, <2>1 DEF OutputEdge
  <2>2. CASE ~room
    <3>1. buf_1' = buf_1
      BY <1>6, <1>9, <2>2 DEF OutputEdge, OutputLoad, OutputReady, Whole, Typed
    <3> QED
      BY <1>1, <2>2, <3>1
  <2> QED
    BY <1>1, <2>1, <2>2
<1>12. fifo' = (IF rden THEN SubSeq(fifo, Ratio + 1, Len(fifo)) ELSE fifo)
                 \o (IF tvalid /\ Len(fifo) # Depth
                       THEN <<source.word + 1>> ELSE <<>>)
  BY <1>6 DEF Clock, FifoEdge, s_axis_tready, int_full_wire
<1> QED
  BY <1>4, <1>5, <1>7, <1>8, <1>10, <1>11, <1>12

\* What the slave has after the edge.
LEMMA SlaveStep ==
    ASSUME Whole, NEW tvalid \in BOOLEAN, NEW awready \in BOOLEAN,
           NEW wready \in BOOLEAN, NEW n \in Series,
           Clock(tvalid, n, awready, wready)
    PROVE  LET aw == buf_0.valid /\ awready
               w == buf_1.valid /\ wready
               last == w /\ buf_1.data.last
           IN  /\ w => slave.lens # <<>>
               /\ slave'.lens \in Seq({B})
               /\ Len(slave'.lens) = Len(slave.lens) + One(aw) - One(last)
               /\ slave'.addr = IF aw THEN buf_0.data ELSE slave.addr
               /\ slave'.beat = IF last THEN 0 ELSE slave.beat + One(w)
               /\ slave'.beats = slave.beats + One(w)
               /\ slave'.word = IF w THEN Last(buf_1.data.words) ELSE slave.word
               /\ slave' = [lens |-> slave'.lens, addr |-> slave'.addr,
                            beat |-> slave'.beat, beats |-> slave'.beats,
                            word |-> slave'.word]
<1> DEFINE aw == buf_0.valid /\ awready
           w == buf_1.valid /\ wready
           last == w /\ buf_1.data.last
           lens == IF aw THEN Append(slave.lens, awlen_reg + 1) ELSE slave.lens
<1>1. slave.lens \in Seq({B}) /\ Len(slave.lens) \in Nat /\ awlen_reg + 1 = B
  BY Sizes DEF Whole, Typed, SlaveTyped, HandedOver, MAX_AWLEN
<1>2. w => slave.lens # <<>>
  BY DEF Clock
<1>3. slave' = [lens |-> IF last THEN Tail(lens) ELSE lens,
                addr |-> IF aw THEN buf_0.data ELSE slave.addr,
                beat |-> IF last THEN 0 ELSE slave.beat + One(w),
                beats |-> slave.beats + One(w),
                word |-> IF w /\ buf_1.data.words # Junk
                           THEN Last(buf_1.data.words) ELSE slave.word]
  BY DEF Clock, Take, One
<1>4. lens \in Seq({B}) /\ Len(lens) = Len(slave.lens) + One(aw)
  <2>1. CASE aw
    <3>1. lens = Append(slave.lens, B)
      BY <1>1, <2>1
    <3>2. Append(slave.lens, B) \in Seq({B})
          /\ Len(Append(slave.lens, B)) = Len(slave.lens) + 1
      BY <1>1, Sizes
    <3> QED
      BY <2>1, <3>1, <3>2 DEF One
  <2>2. CASE ~aw
    <3>1. One(aw) = 0
      BY <2>2 DEF One
    <3> QED
      BY <1>1, <2>2, <3>1
  <2> QED
    BY <2>1, <2>2
<1>5. last => Len(lens) >= 1
  BY <1>1, <1>2, <1>4 DEF One
<1> HIDE DEF lens
<1>6. slave'.lens \in Seq({B}) /\ Len(slave'.lens) = Len(lens) - One(last)
  <2>1. CASE last
    <3>1. lens # <<>>
      BY <1>4, <1>5, <2>1
    <3>2. Tail(lens) \in Seq({B}) /\ Len(Tail(lens)) = Len(lens) - 1
      BY <1>4, <3>1
    <3> QED
      BY <1>3, <2>1, <3>2 DEF One
  <2>2. CASE ~last
    <3>1. slave'.lens = lens /\ One(last) = 0
      BY <1>3, <2>2 DEF One
    <3>2. Len(lens) \in Nat
      BY <1>4
    <3> QED
      BY <1>4, <3>1, <3>2
  <2> QED
    BY <2>1, <2>2
<1>7. Len(slave'.lens) = Len(slave.lens) + One(aw) - One(last)
  <2>1. One(aw) \in Int /\ One(last) \in Int
    BY DEF One
  <2> QED
    BY <1>1, <1>4, <1>6, <2>1
<1>8. slave'.word = IF w THEN Last(buf_1.data.words) ELSE slave.word
  BY <1>3 DEF Whole, BeatsCounted
<1>9. /\ slave'.addr = IF aw THEN buf_0.data ELSE slave.addr
      /\ slave'.beat = IF last THEN 0 ELSE slave.beat + One(w)
      /\ slave'.beats = slave.beats + One(w)
      /\ slave' = [lens |-> slave'.lens, addr |-> slave'.addr,
                   beat |-> slave'.beat, beats |-> slave'.beats,
                   word |-> slave'.word]
  BY <1>3
<1> QED
  BY <1>2, <1>6, <1>7, <1>8, <1>9

\* The stream writer: the serial of the last word taken, and the history.
LEMMA OfferFacts ==
    ASSUME Typed, NEW n \in Series
    PROVE  /\ Offer(n).word = source.word + (IF Len(fifo) # Depth THEN 1 ELSE 0)
           /\ source.word < MaxWords => Offer(n) \in SourceType
           /\ source.ragged => Offer(n).ragged
           /\ ~Offer(n).ragged /\ Offer(n).left = 0
                => Offer(n).word % (B * Ratio) = 0
<1>1. /\ source.word \in Nat /\ source.left \in Nat /\ source.tail \in Nat
      /\ n \in Nat \ {0} /\ source.lost \in BOOLEAN /\ source.ragged \in BOOLEAN
  BY Sizes DEF Typed, SourceType
<1> DEFINE word == source.word + (IF Len(fifo) # Depth THEN 1 ELSE 0)
           left == (IF source.left = 0 THEN n ELSE source.left) - 1
<1>2. left \in Nat /\ word \in Nat /\ (source.word < MaxWords => word \in 0 .. MaxWords)
  BY <1>1, Sizes
<1>3. Offer(n) = [word |-> word, left |-> left,
                  tail |-> IF left = 0 THEN word ELSE source.tail,
                  lost |-> source.lost \/ ~s_axis_tready,
                  ragged |-> source.ragged
                               \/ (left = 0 /\ word % (B * Ratio) # 0)]
  BY DEF Offer, s_axis_tready, int_full_wire
<1>4. s_axis_tready \in BOOLEAN
  BY DEF s_axis_tready, int_full_wire
<1> HIDE DEF left, word
<1>5. source.word < MaxWords => Offer(n) \in SourceType
  BY <1>1, <1>2, <1>3, <1>4 DEF SourceType
<1>6. /\ source.ragged => Offer(n).ragged
      /\ ~Offer(n).ragged /\ Offer(n).left = 0
           => Offer(n).word % (B * Ratio) = 0
  <2>1. /\ Offer(n).left = left /\ Offer(n).word = word
        /\ Offer(n).ragged = (source.ragged
                                \/ (left = 0 /\ word % (B * Ratio) # 0))
    BY <1>3
  <2> QED
    BY <2>1
<1>7. Offer(n).word = word
  BY <1>3
<1> QED
  BY <1>5, <1>6, <1>7 DEF word

-----------------------------------------------------------------------------
\* The invariant after a clock edge, part by part.

LEMMA ClockKeepsSlots ==
    ASSUME Whole, NEW tvalid \in BOOLEAN, NEW awready \in BOOLEAN,
           NEW wready \in BOOLEAN, NEW n \in Series,
           Clock(tvalid, n, awready, wready)
    PROVE  HandedOver'
<1> DEFINE begin == int_valid_wire
<1>1. /\ int_awvalid_reg' = FALSE /\ awlen_reg' = MAX_AWLEN
      /\ int_addr_reg' = IF begin THEN NextSlot(int_addr_reg) ELSE int_addr_reg
      /\ begin => buf_0' = [valid |-> TRUE, data |-> int_addr_reg]
      /\ ~begin => /\ buf_0'.valid = (buf_0.valid /\ ~awready)
                   /\ buf_0.valid /\ ~awready => buf_0' = buf_0
  BY ClockStep
<1>2. slave'.addr = IF buf_0.valid /\ awready THEN buf_0.data ELSE slave.addr
  BY SlaveStep
<1>3. begin => ~buf_0.valid
  BY AddressHasRoom
<1>4. /\ buf_0.valid => buf_0.data = NextSlot(slave.addr)
      /\ int_addr_reg = NextSlot(IF buf_0.valid THEN buf_0.data ELSE slave.addr)
      /\ buf_0.valid \in BOOLEAN
  BY DEF Whole, HandedOver, Typed
<1>5. /\ buf_0'.valid => buf_0'.data = NextSlot(slave'.addr)
      /\ int_addr_reg' = NextSlot(IF buf_0'.valid THEN buf_0'.data
                                                  ELSE slave'.addr)
  <2>1. CASE begin
    BY <1>1, <1>2, <1>3, <1>4, <2>1
  <2>2. CASE ~begin
    BY <1>1, <1>2, <1>4, <2>2
  <2> QED
    BY <2>1, <2>2
<1> QED
  BY <1>1, <1>5 DEF HandedOver, MAX_AWLEN, NextSlot

LEMMA ClockKeepsBeats ==
    ASSUME Whole, NEW tvalid \in BOOLEAN, NEW awready \in BOOLEAN,
           NEW wready \in BOOLEAN, NEW n \in Series,
           Clock(tvalid, n, awready, wready)
    PROVE  BeatsCounted' /\ slave'.beat \in 0 .. B - 1
<1> DEFINE rden == int_wvalid_wire /\ (~buf_1.valid \/ wready)
           w == buf_1.valid /\ wready
           last == w /\ buf_1.data.last
<1>1. /\ int_cntr_reg' = IF rden THEN NextBeat(int_cntr_reg) ELSE int_cntr_reg
      /\ int_wvalid_reg' = (int_wvalid_wire /\ ~(rden /\ int_cntr_reg = B - 1))
      /\ rden => buf_1' = [valid |-> TRUE,
                           data |-> [last |-> int_cntr_reg = B - 1,
                                     words |-> SubSeq(fifo, 1, Ratio)]]
      /\ ~rden => /\ buf_1'.valid = (buf_1.valid /\ ~wready)
                  /\ buf_1.valid /\ ~wready => buf_1' = buf_1
  BY ClockStep
<1>2. slave'.beat = IF last THEN 0 ELSE slave.beat + One(w)
  BY SlaveStep
<1>3. /\ int_cntr_reg \in 0 .. B - 1 /\ slave.beat \in 0 .. B - 1
      /\ buf_1.valid \in BOOLEAN /\ buf_1.data.last \in BOOLEAN
      /\ buf_1.valid => (buf_1.data.last <=> slave.beat = B - 1)
      /\ int_cntr_reg = IF buf_1.valid THEN NextBeat(slave.beat) ELSE slave.beat
      /\ ~int_wvalid_reg => int_cntr_reg = 0
  BY DEF Whole, Typed, SlaveTyped, BeatsCounted
<1>4. \A k \in 0 .. B - 1 : NextBeat(k) = IF k = B - 1 THEN 0 ELSE k + 1
  BY BeatAfter
<1>5. slave'.beat = IF w THEN NextBeat(slave.beat) ELSE slave.beat
  BY <1>2, <1>3, <1>4 DEF One
<1>6. slave'.beat \in 0 .. B - 1
  BY <1>3, <1>4, <1>5, Sizes
<1>7. rden => SubSeq(fifo, 1, Ratio) # Junk
  <2>1. rden => Len(fifo) >= Ratio /\ fifo \in Seq(Nat)
    BY BurstBegins DEF Whole, Typed
  <2>2. rden => Len(SubSeq(fifo, 1, Ratio)) = Ratio
    BY <2>1, Sizes
  <2> QED
    BY <2>2, Sizes DEF Junk
<1>8. ~rden /\ int_wvalid_wire => buf_1.valid /\ ~wready
  OBVIOUS
<1>9. ~int_wvalid_reg' => int_cntr_reg' = 0
  <2>1. CASE rden
    BY <1>1, <1>3, <1>4, <2>1
  <2>2. CASE ~rden /\ int_wvalid_wire
    BY <1>1, <2>2
  <2>3. CASE ~int_wvalid_wire
    BY <1>1, <1>3, <2>3 DEF int_wvalid_wire
  <2> QED
    BY <2>1, <2>2, <2>3
<1>10. CASE rden
  <2>1. int_cntr_reg = slave'.beat
    BY <1>3, <1>5, <1>10
  <2>2. /\ buf_1'.valid /\ buf_1'.data.words = SubSeq(fifo, 1, Ratio)
        /\ buf_1'.data.last = (int_cntr_reg = B - 1)
        /\ int_cntr_reg' = NextBeat(int_cntr_reg)
    BY <1>1, <1>10
  <2> QED
    BY <1>6, <1>7, <1>9, <1>10, <2>1, <2>2 DEF BeatsCounted, NextBeat, Junk
<1>11. CASE ~rden /\ buf_1.valid /\ ~wready
  <2>1. buf_1' = buf_1 /\ slave'.beat = slave.beat /\ int_cntr_reg' = int_cntr_reg
    BY <1>1, <1>5, <1>11
  <2> QED
    BY <1>6, <1>9, <2>1, <1>3 DEF BeatsCounted, NextBeat, Junk, Whole
<1>12. CASE ~rden /\ ~(buf_1.valid /\ ~wready)
  <2>1. buf_1'.valid = FALSE /\ int_cntr_reg' = int_cntr_reg
    BY <1>1, <1>12
  <2>2. int_cntr_reg = slave'.beat
    BY <1>3, <1>5, <1>12
  <2> QED
    BY <1>6, <1>9, <2>1, <2>2 DEF BeatsCounted
<1> QED
  BY <1>10, <1>11, <1>12

LEMMA ClockKeepsAddresses ==
    ASSUME Whole, NEW tvalid \in BOOLEAN, NEW awready \in BOOLEAN,
           NEW wready \in BOOLEAN, NEW n \in Series,
           Clock(tvalid, n, awready, wready)
    PROVE  OneAddressPerBurst'
<1> DEFINE begin == int_valid_wire
           rden == int_wvalid_wire /\ (~buf_1.valid \/ wready)
           aw == buf_0.valid /\ awready
           w == buf_1.valid /\ wready
           last == w /\ buf_1.data.last
<1>1. /\ begin => buf_0' = [valid |-> TRUE, data |-> int_addr_reg]
      /\ ~begin => buf_0'.valid = (buf_0.valid /\ ~awready)
      /\ int_wvalid_reg' = (int_wvalid_wire /\ ~(rden /\ int_cntr_reg = B - 1))
      /\ rden => buf_1' = [valid |-> TRUE,
                           data |-> [last |-> int_cntr_reg = B - 1,
                                     words |-> SubSeq(fifo, 1, Ratio)]]
      /\ ~rden => /\ buf_1'.valid = (buf_1.valid /\ ~wready)
                  /\ buf_1.valid /\ ~wready => buf_1' = buf_1
  BY ClockStep
<1>2. /\ w => slave.lens # <<>>
      /\ Len(slave'.lens) = Len(slave.lens) + One(aw) - One(last)
      /\ slave'.beat = IF last THEN 0 ELSE slave.beat + One(w)
      /\ slave'.lens \in Seq({B})
  BY SlaveStep
<1>3. /\ buf_0.valid \in BOOLEAN /\ buf_1.valid \in BOOLEAN
      /\ buf_1.data.last \in BOOLEAN /\ int_wvalid_reg \in BOOLEAN
      /\ slave.lens \in Seq({B}) /\ Len(slave.lens) \in Nat
      /\ slave.beat \in Nat
  BY Sizes DEF Whole, Typed, SlaveTyped
<1>4. begin => ~buf_0.valid /\ ~int_wvalid_reg /\ int_cntr_reg = 0
  BY AddressHasRoom DEF int_valid_wire
<1>5. int_wvalid_wire <=> begin \/ int_wvalid_reg
  BY DEF int_wvalid_wire
<1>6. One(buf_0'.valid) = One(buf_0.valid) + One(begin) - One(aw)
  <2>1. CASE begin
    BY <1>1, <1>4, <2>1 DEF One
  <2>2. CASE ~begin /\ aw
    <3>1. ~buf_0'.valid /\ buf_0.valid
      BY <1>1, <2>2
    <3> QED
      BY <2>2, <3>1 DEF One
  <2>3. CASE ~begin /\ ~aw
    BY <1>1, <1>3, <2>3 DEF One
  <2> QED
    BY <2>1, <2>2, <2>3
<1>7. One(int_wvalid_wire) = One(int_wvalid_reg) + One(begin)
  BY <1>3, <1>4, <1>5 DEF One
<1>8. One(int_wvalid_reg') + One(LastBuffered')
        = One(int_wvalid_wire) + One(LastBuffered) - One(last)
  <2>1. CASE rden /\ int_cntr_reg = B - 1
    <3>1. ~int_wvalid_reg' /\ int_wvalid_wire
      BY <1>1, <2>1
    <3>2. LastBuffered'
      <4>1. buf_1'.valid /\ buf_1'.data.last = (int_cntr_reg = B - 1)
        BY <1>1, <2>1
      <4> QED
        BY <2>1, <4>1 DEF LastBuffered
    <3>3. LastBuffered <=> last
      BY <2>1 DEF LastBuffered
    <3> QED
      BY <3>1, <3>2, <3>3 DEF One
  <2>2. CASE rden /\ int_cntr_reg # B - 1
    <3>1. int_wvalid_reg' /\ int_wvalid_wire
      BY <1>1, <2>2
    <3>2. ~LastBuffered'
      <4>1. buf_1'.valid /\ buf_1'.data.last = (int_cntr_reg = B - 1)
        BY <1>1, <2>2
      <4> QED
        BY <2>2, <4>1 DEF LastBuffered
    <3>3. LastBuffered <=> last
      BY <2>2 DEF LastBuffered
    <3> QED
      BY <3>1, <3>2, <3>3 DEF One
  <2>3. CASE ~rden /\ buf_1.valid /\ ~wready
    <3>1. int_wvalid_reg' = int_wvalid_wire /\ LastBuffered' = LastBuffered /\ ~last
      BY <1>1, <1>3, <1>5, <2>3 DEF LastBuffered
    <3> QED
      BY <3>1 DEF One
  <2>4. CASE ~rden /\ ~(buf_1.valid /\ ~wready)
    <3>1. ~int_wvalid_wire /\ ~int_wvalid_reg' /\ ~LastBuffered'
      BY <1>1, <2>4 DEF LastBuffered
    <3>2. LastBuffered <=> last
      BY <1>3, <2>4 DEF LastBuffered
    <3> QED
      BY <3>1, <3>2 DEF One
  <2> QED
    BY <2>1, <2>2, <2>3, <2>4
<1>9. Len(slave.lens) + One(buf_0.valid) = One(int_wvalid_reg) + One(LastBuffered)
  BY DEF Whole, OneAddressPerBurst
<1>10. Len(slave'.lens) + One(buf_0'.valid)
         = One(int_wvalid_reg') + One(LastBuffered')
  <2>1. /\ One(aw) \in Int /\ One(last) \in Int /\ One(begin) \in Int
        /\ One(buf_0.valid) \in Int /\ One(buf_0'.valid) \in Int
        /\ One(LastBuffered) \in Int /\ One(LastBuffered') \in Int
        /\ One(int_wvalid_reg) \in Int /\ One(int_wvalid_reg') \in Int
        /\ One(int_wvalid_wire) \in Int
    BY DEF One
  <2> DEFINE lens == Len(slave.lens)
             lens1 == Len(slave'.lens)
             taken == One(aw)
             done == One(last)
             begun == One(begin)
             addr == One(buf_0.valid)
             addr1 == One(buf_0'.valid)
             burst == One(int_wvalid_reg)
             under == One(int_wvalid_wire)
             burst1 == One(int_wvalid_reg')
             mark == One(LastBuffered)
             mark1 == One(LastBuffered')
  <2>2. /\ lens1 = lens + taken - done /\ addr1 = addr + begun - taken
        /\ under = burst + begun /\ burst1 + mark1 = under + mark - done
        /\ lens + addr = burst + mark
        /\ {lens, taken, done, begun, addr, addr1, burst, under, burst1, mark,
             mark1} \subseteq Int
    BY <1>2, <1>3, <1>6, <1>7, <1>8, <1>9, <2>1
  <2> HIDE DEF lens, lens1, taken, done, begun, addr, addr1, burst, under,
               burst1, mark, mark1
  <2>3. lens1 + addr1 = burst1 + mark1
    BY <2>2
  <2> QED
    BY <2>3 DEF lens1, addr1, burst1, mark1
<1>11. slave'.beat > 0 => slave'.lens # <<>>
  <2> SUFFICES ASSUME slave'.beat > 0 PROVE Len(slave'.lens) > 0
    BY <1>2
  <2>1. ~last /\ slave.lens # <<>>
    BY <1>2, <1>3 DEF One, Whole, OneAddressPerBurst
  <2>2. Len(slave.lens) >= 1
    BY <1>3, <2>1
  <2>3. One(last) = 0 /\ One(aw) \in {0, 1}
    BY <2>1 DEF One
  <2> QED
    BY <1>2, <1>3, <2>2, <2>3
<1> QED
  BY <1>10, <1>11 DEF OneAddressPerBurst, One, LastBuffered

\* What the data buffer and the FIFO hold after an edge, whatever the bursts.
LEMMA PortStep ==
    ASSUME Typed, NEW tvalid \in BOOLEAN, NEW awready \in BOOLEAN,
           NEW wready \in BOOLEAN, NEW n \in Series,
           Clock(tvalid, n, awready, wready)
    PROVE  LET rden == int_wvalid_wire /\ (~buf_1.valid \/ wready)
           IN  /\ rden => buf_1' = [valid |-> TRUE,
                                    data |-> [last |-> int_wlast_wire,
                                              words |-> int_wdata_wire]]
               /\ ~rden => /\ buf_1'.valid = (buf_1.valid /\ ~wready)
                           /\ buf_1.valid /\ ~wready => buf_1' = buf_1
<1> DEFINE room == ~buf_1.valid \/ wready
           rden == int_wvalid_wire /\ room
<1>1. buf_1.valid \in BOOLEAN /\ int_wvalid_wire \in BOOLEAN
  BY DEF Typed, int_wvalid_wire, int_valid_wire
<1>2. /\ OutputReady(buf_1, wready) = room
      /\ buf_1' = OutputEdge(buf_1, int_wvalid_wire,
                    [last |-> int_wlast_wire, words |-> int_wdata_wire], wready)
  BY <1>1 DEF OutputReady, Clock, DataEdge
<1>3. rden => buf_1' = [valid |-> TRUE, data |-> [last |-> int_wlast_wire,
                                                  words |-> int_wdata_wire]]
  BY <1>1, <1>2 DEF OutputEdge, OutputLoad
<1>4. CASE room /\ ~int_wvalid_wire
  BY <1>1, <1>2, <1>4 DEF OutputEdge
<1>5. CASE ~room
  <2>1. buf_1' = buf_1
    BY <1>2, <1>5 DEF OutputEdge, OutputLoad, OutputReady, Typed
  <2> QED
    BY <1>1, <1>5, <2>1
<1> QED
  BY <1>1, <1>3, <1>4, <1>5

LEMMA FifoStep ==
    ASSUME Typed, NEW tvalid \in BOOLEAN, NEW awready \in BOOLEAN,
           NEW wready \in BOOLEAN, NEW n \in Series,
           Clock(tvalid, n, awready, wready)
    PROVE  LET get == /\ int_wvalid_wire /\ (~buf_1.valid \/ wready)
                      /\ int_count_wire > 0
               rest == IF get THEN SubSeq(fifo, Ratio + 1, Len(fifo)) ELSE fifo
           IN  /\ get => Len(fifo) >= Ratio
               /\ rest \in Seq(Nat)
               /\ Len(rest) = Len(fifo) - (IF get THEN Ratio ELSE 0)
               /\ \A i \in 1 .. Len(rest) : rest[i] \in 1 .. source.word
               /\ tvalid /\ Len(fifo) # Depth => fifo' = rest \o <<source.word + 1>>
               /\ ~(tvalid /\ Len(fifo) # Depth) => fifo' = rest
<1> DEFINE get == /\ int_wvalid_wire /\ (~buf_1.valid \/ wready)
                  /\ int_count_wire > 0
           rest == IF get THEN SubSeq(fifo, Ratio + 1, Len(fifo)) ELSE fifo
<1>1. /\ fifo \in Seq(Nat) /\ Len(fifo) \in Nat
      /\ \A i \in 1 .. Len(fifo) : fifo[i] \in 1 .. source.word
      /\ get => Len(fifo) >= Ratio
  BY CountFacts DEF Typed
<1>2. /\ rest \in Seq(Nat)
      /\ Len(rest) = Len(fifo) - (IF get THEN Ratio ELSE 0)
      /\ \A i \in 1 .. Len(rest) : rest[i] \in 1 .. source.word
  <2>1. CASE get
    <3> DEFINE s == SubSeq(fifo, Ratio + 1, Len(fifo))
    <3>1. /\ s \in Seq(Nat) /\ Len(s) = Len(fifo) - Ratio
          /\ \A i \in 1 .. Len(s) : s[i] = fifo[i + Ratio]
      BY <1>1, <2>1, Sizes
    <3> HIDE DEF s
    <3>2. ASSUME NEW i \in 1 .. Len(s) PROVE s[i] \in 1 .. source.word
      <4>1. i + Ratio \in 1 .. Len(fifo)
        BY <1>1, <3>1, Sizes
      <4> QED
        BY <1>1, <3>1, <4>1
    <3>3. rest = s
      BY <2>1 DEF s
    <3> QED
      BY <2>1, <3>1, <3>2, <3>3
  <2>2. CASE ~get
    <3>1. rest = fifo
      BY <2>2
    <3> QED
      BY <1>1, <2>2, <3>1
  <2> QED
    BY <2>1, <2>2
<1>3. fifo' = rest \o (IF tvalid /\ Len(fifo) # Depth
                         THEN <<source.word + 1>> ELSE <<>>)
  BY DEF Clock, FifoEdge, s_axis_tready, int_full_wire, OutputReady
<1> HIDE DEF rest
<1>4. rest \o <<>> = rest
  BY <1>2, ConcatEmptySeq
<1>5. /\ tvalid /\ Len(fifo) # Depth => fifo' = rest \o <<source.word + 1>>
      /\ ~(tvalid /\ Len(fifo) # Depth) => fifo' = rest
  BY <1>3, <1>4
<1> QED
  BY <1>1, <1>2, <1>5 DEF rest

LEMMA FifoKept ==
    ASSUME Typed, NEW tvalid \in BOOLEAN, NEW awready \in BOOLEAN,
           NEW wready \in BOOLEAN, NEW n \in Series,
           Clock(tvalid, n, awready, wready)
    PROVE  LET get == /\ int_wvalid_wire /\ (~buf_1.valid \/ wready)
                      /\ int_count_wire > 0
               put == tvalid /\ Len(fifo) # Depth
           IN  /\ fifo' \in Seq(Nat) /\ Len(fifo') <= Depth
               /\ Len(fifo') = Len(fifo) - (IF get THEN Ratio ELSE 0)
                               + (IF put THEN 1 ELSE 0)
               /\ \A i \in DOMAIN fifo' : fifo'[i] \in 1 .. source'.word
               /\ source'.word = source.word + (IF put THEN 1 ELSE 0)
               /\ source' \in SourceType
<1> DEFINE get == /\ int_wvalid_wire /\ (~buf_1.valid \/ wready)
                  /\ int_count_wire > 0
           put == tvalid /\ Len(fifo) # Depth
           rest == IF get THEN SubSeq(fifo, Ratio + 1, Len(fifo)) ELSE fifo
<1>1. /\ get => Len(fifo) >= Ratio
      /\ rest \in Seq(Nat)
      /\ Len(rest) = Len(fifo) - (IF get THEN Ratio ELSE 0)
      /\ \A i \in 1 .. Len(rest) : rest[i] \in 1 .. source.word
      /\ put => fifo' = rest \o <<source.word + 1>>
      /\ ~put => fifo' = rest
  BY FifoStep
<1>2. /\ source \in SourceType
      /\ Len(fifo) \in Nat /\ Len(fifo) <= Depth
      /\ Ratio \in Nat /\ Depth \in Nat /\ MaxWords \in Nat
  BY Sizes DEF Typed
<1>3. /\ source' = IF tvalid THEN Offer(n) ELSE source
      /\ tvalid => source.word < MaxWords
  BY DEF Clock
<1>5. source.word \in 0 .. MaxWords
  BY <1>2 DEF SourceType
<1>4. /\ source'.word = source.word + (IF put THEN 1 ELSE 0)
      /\ source' \in SourceType
  <2>1. CASE tvalid
    BY <1>3, <2>1, OfferFacts
  <2>2. CASE ~tvalid
    BY <1>2, <1>3, <1>5, <2>2
  <2> QED
    BY <2>1, <2>2
<1> HIDE DEF rest, get
<1>6. CASE put
  <2>1. fifo' = rest \o <<source.word + 1>> /\ source'.word = source.word + 1
    BY <1>1, <1>4, <1>6
  <2>2. /\ fifo' \in Seq(Nat) /\ Len(fifo') = Len(rest) + 1
        /\ \A i \in 1 .. Len(rest) : fifo'[i] = rest[i]
        /\ fifo'[Len(rest) + 1] = source.word + 1
        /\ DOMAIN fifo' = 1 .. Len(rest) + 1 /\ Len(rest) \in Nat
    <3>1. PICK x \in Nat : x = source.word + 1
      BY <1>5
    <3>2. PICK r \in Seq(Nat) : r = rest
      BY <1>1
    <3>3. LET f == r \o <<x>>
          IN  /\ f \in Seq(Nat) /\ Len(f) = Len(r) + 1
              /\ \A i \in 1 .. Len(r) : f[i] = r[i]
              /\ f[Len(r) + 1] = x
              /\ DOMAIN f = 1 .. Len(r) + 1 /\ Len(r) \in Nat
      OBVIOUS
    <3> QED
      BY <2>1, <3>1, <3>2, <3>3
  <2>3. ASSUME NEW i \in DOMAIN fifo' PROVE fifo'[i] \in 1 .. source'.word
    <3>1. CASE i = Len(rest) + 1
      BY <1>5, <2>1, <2>2, <3>1
    <3>2. CASE i # Len(rest) + 1
      <4>1. i \in 1 .. Len(rest)
        BY <2>2, <3>2
      <4>2. fifo'[i] \in 1 .. source.word
        BY <1>1, <2>2, <4>1
      <4> QED
        BY <1>5, <2>1, <4>2
    <3> QED
      BY <3>1, <3>2
  <2>4. /\ Len(fifo') = Len(fifo) - (IF get THEN Ratio ELSE 0) + 1
        /\ Len(fifo') <= Depth
    BY <1>1, <1>2, <1>6, <2>2
  <2> QED
    BY <1>4, <1>6, <2>2, <2>3, <2>4 DEF get
<1>7. CASE ~put
  <2>1. fifo' = rest
    BY <1>1, <1>7
  <2>2. DOMAIN fifo' = 1 .. Len(rest)
    BY <1>1, <2>1
  <2>3. ASSUME NEW i \in DOMAIN fifo' PROVE fifo'[i] \in 1 .. source'.word
    <3>1. fifo'[i] \in 1 .. source.word
      BY <1>1, <2>1, <2>2
    <3> QED
      BY <1>4, <1>5, <3>1
  <2>4. /\ Len(fifo') = Len(fifo) - (IF get THEN Ratio ELSE 0) + 0
        /\ Len(fifo') <= Depth
    BY <1>1, <1>2, <2>1
  <2>5. fifo' \in Seq(Nat)
    BY <1>1, <2>1
  <2> QED
    BY <1>4, <1>7, <2>3, <2>4, <2>5 DEF get
<1> QED
  BY <1>6, <1>7

\* What the burst under way has yet to read.
LEMMA RemainingStep ==
    ASSUME Whole, NEW tvalid \in BOOLEAN, NEW awready \in BOOLEAN,
           NEW wready \in BOOLEAN, NEW n \in Series,
           Clock(tvalid, n, awready, wready)
    PROVE  LET rden == int_wvalid_wire /\ (~buf_1.valid \/ wready)
           IN  Remaining' = Remaining + (IF int_valid_wire THEN B ELSE 0)
                                      - (IF rden THEN 1 ELSE 0)
<1> DEFINE begin == int_valid_wire
           rden == int_wvalid_wire /\ (~buf_1.valid \/ wready)
<1>1. /\ int_cntr_reg' = IF rden THEN NextBeat(int_cntr_reg) ELSE int_cntr_reg
      /\ int_wvalid_reg' = (int_wvalid_wire /\ ~(rden /\ int_cntr_reg = B - 1))
  BY ClockStep
<1>2. int_cntr_reg \in 0 .. B - 1 /\ int_wvalid_reg \in BOOLEAN
  BY DEF Whole, Typed
<1>3. NextBeat(int_cntr_reg) = IF int_cntr_reg = B - 1 THEN 0 ELSE int_cntr_reg + 1
  BY <1>2, BeatAfter
<1>4. begin => int_cntr_reg = 0 /\ ~int_wvalid_reg
  BY AddressHasRoom DEF int_valid_wire
<1>5. int_wvalid_wire <=> begin \/ int_wvalid_reg
  BY DEF int_wvalid_wire
<1> HIDE DEF begin
<1>6. CASE rden /\ int_cntr_reg = B - 1
  <2>1. ~begin
    BY <1>4, <1>6, Sizes
  <2>2. ~int_wvalid_reg' /\ int_wvalid_reg
    BY <1>1, <1>5, <1>6, <2>1
  <2> QED
    BY <1>6, <2>1, <2>2, Sizes DEF Remaining, begin
<1>7. CASE rden /\ int_cntr_reg # B - 1
  <2>1. int_wvalid_reg' /\ int_cntr_reg' = int_cntr_reg + 1
    BY <1>1, <1>3, <1>7
  <2>2. CASE begin
    <3>1. Remaining' = B - 1 /\ Remaining = 0
      BY <1>4, <2>1, <2>2, Sizes DEF Remaining
    <3> QED
      BY <1>7, <2>2, <3>1, Sizes DEF begin
  <2>3. CASE ~begin
    <3>1. Remaining' = B - (int_cntr_reg + 1) /\ Remaining = B - int_cntr_reg
      BY <1>5, <1>7, <2>1, <2>3 DEF Remaining
    <3> QED
      BY <1>2, <1>7, <2>3, <3>1, Sizes DEF begin
  <2> QED
    BY <2>2, <2>3
<1>8. CASE ~rden
  <2>1. int_wvalid_reg' = int_wvalid_wire /\ int_cntr_reg' = int_cntr_reg
    BY <1>1, <1>2, <1>5, <1>8 DEF int_valid_wire, begin
  <2>2. CASE begin
    <3>1. Remaining' = B /\ Remaining = 0
      BY <1>4, <1>5, <2>1, <2>2, Sizes DEF Remaining
    <3> QED
      BY <1>8, <2>2, <3>1, Sizes DEF begin
  <2>3. CASE ~begin
    <3>1. Remaining' = Remaining
      BY <1>5, <2>1, <2>3 DEF Remaining
    <3>2. Remaining \in Nat
      BY RemainingFacts DEF Whole
    <3> QED
      BY <1>8, <2>3, <3>1, <3>2 DEF begin
  <2> QED
    BY <2>2, <2>3
<1> QED
  BY <1>6, <1>7, <1>8

\* What the FIFO holds beyond it: a burst that begins takes its words, a word
\* of the stream adds one.
LEMMA SpareStep ==
    ASSUME Whole, NEW tvalid \in BOOLEAN, NEW awready \in BOOLEAN,
           NEW wready \in BOOLEAN, NEW n \in Series,
           Clock(tvalid, n, awready, wready)
    PROVE  Spare' = Spare - (IF int_valid_wire THEN B * Ratio ELSE 0)
                          + (IF tvalid /\ Len(fifo) # Depth THEN 1 ELSE 0)
<1> DEFINE begin == int_valid_wire
           rden == int_wvalid_wire /\ (~buf_1.valid \/ wready)
           put == tvalid /\ Len(fifo) # Depth
           f == Len(fifo)
           r == Remaining
           f1 == Len(fifo')
           r1 == Remaining'
           p == IF begin THEN B ELSE 0
           q == IF rden THEN 1 ELSE 0
           x == IF put THEN 1 ELSE 0
<1>1. f1 = f - (IF rden THEN Ratio ELSE 0) + x
  <2>1. rden => int_count_wire > 0
    BY BurstBegins
  <2>2. f1 = f - (IF rden /\ int_count_wire > 0 THEN Ratio ELSE 0) + x
    BY FifoKept DEF Whole
  <2> QED
    BY <2>1, <2>2
<1>2. r1 = r + p - q
  BY RemainingStep
<1>3. f \in Nat /\ r \in Nat /\ p \in Nat /\ q \in Nat /\ x \in Nat
      /\ Ratio \in Nat /\ B \in Nat
  BY Sizes, CountFacts, RemainingFacts DEF Whole
<1>4. (IF rden THEN Ratio ELSE 0) = Ratio * q
  BY Sizes
<1>5. (IF begin THEN B * Ratio ELSE 0) = Ratio * p
  BY Sizes
<1>6. Spare = f - Ratio * r /\ Spare' = f1 - Ratio * r1
  BY DEF Spare
<1> HIDE DEF f, r, f1, r1, p, q, x, rden, begin
<1>7. f1 = f - Ratio * q + x
  BY <1>1, <1>4
<1>8. Ratio * r1 = Ratio * r + Ratio * p - Ratio * q
  BY <1>2, <1>3
<1>9. Spare' = Spare - Ratio * p + x
  BY <1>3, <1>6, <1>7, <1>8
<1> QED
  BY <1>5, <1>9 DEF begin, x

LEMMA ClockKeepsCover ==
    ASSUME Whole, NEW tvalid \in BOOLEAN, NEW awready \in BOOLEAN,
           NEW wready \in BOOLEAN, NEW n \in Series,
           Clock(tvalid, n, awready, wready), ~source'.ragged
    PROVE  BurstsCovered'
<1> DEFINE begin == int_valid_wire
           put == tvalid /\ Len(fifo) # Depth
           x == IF put THEN 1 ELSE 0
           burst == B * Ratio
           a == Spare
           b == Spare'
           u == source.word
           v == source'.word
<1>1. b = a - (IF begin THEN burst ELSE 0) + x
  BY SpareStep
<1>2. /\ a \in Int /\ a >= 0 /\ u \in Nat /\ (u - a) % burst = 0
      /\ tlast_pending_reg => a >= burst
      /\ tlast_pending_reg \in BOOLEAN
  BY RemainingFacts DEF Whole, Typed, SourceType, BurstsCovered
<1>3. burst \in Nat \ {0}
  BY Sizes
<1>4. begin => a >= burst
  BY BurstBegins, RemainingFacts DEF Whole, int_valid_wire
<1>5. v = u + x
  BY FifoKept DEF Whole
<1>6. tlast_pending_reg' => /\ ~begin
                            /\ \/ tlast_pending_reg
                               \/ tvalid /\ Offer(n).left = 0
  BY ClockStep
<1>7. tvalid /\ Offer(n).left = 0 => v % burst = 0
  BY OfferFacts DEF Whole, Clock
<1>8. tvalid /\ ~put /\ ~begin => a > 0
  <2> SUFFICES ASSUME Len(fifo) = Depth PROVE a > 0
    OBVIOUS
  <2>1. Remaining \in Nat /\ Remaining <= B
    BY Sizes DEF Remaining, Whole, Typed
  <2>2. Ratio * (B - Remaining) >= 0
        /\ Ratio * (B - Remaining) = B * Ratio - Ratio * Remaining
    BY <2>1, Sizes
  <2>3. Ratio * Remaining \in Nat
    BY <2>1, Sizes
  <2> QED
    BY <2>1, <2>2, <2>3, Sizes DEF Spare
<1> HIDE DEF begin, put, burst, a, b, u, v
<1>9. b \in Nat /\ x \in {0, 1}
  BY <1>1, <1>2, <1>3, <1>4
<1> HIDE DEF x
<1>10. (v - b) % burst = 0
  <2>1. CASE begin
    <3>1. PICK z \in Int : z = u - a
      BY <1>2
    <3>2. v - b = z + burst
      BY <1>1, <1>2, <1>3, <1>5, <1>9, <2>1, <3>1
    <3>3. z % burst = 0 /\ burst \in Int
      BY <1>2, <1>3, <3>1
    <3>4. burst % burst = 0
      <4>1. burst = burst * 1 + 0 /\ 0 \in 0 .. burst - 1
        BY <1>3
      <4>2. (burst * 1 + 0) % burst = 0
        BY <1>3, <4>1, RemainderUnique
      <4> QED
        BY <4>1, <4>2
    <3>5. (z + burst) % burst = 0
      BY <1>3, <3>3, <3>4, SumOfMultiples
    <3> QED
      BY <3>2, <3>5
  <2>2. CASE ~begin
    <3>1. v - b = u - a
      BY <1>1, <1>2, <1>5, <1>9, <2>2
    <3> QED
      BY <1>2, <3>1
  <2> QED
    BY <2>1, <2>2
<1>11. ASSUME tlast_pending_reg' PROVE b >= burst
  <2>1. ~begin /\ b = a + x
    BY <1>1, <1>2, <1>6, <1>9, <1>11
  <2>2. CASE tlast_pending_reg
    BY <1>2, <1>3, <1>9, <2>1, <2>2
  <2>3. CASE tvalid /\ Offer(n).left = 0
    <3>1. b > 0
      BY <1>2, <1>8, <2>1, <2>3 DEF x
    <3>2. v % burst = 0
      BY <1>7, <2>3
    <3>3. b % burst = 0
      <4>1. PICK p \in Int : v = burst * p
        BY <1>2, <1>3, <1>5, <1>9, <3>2, Quotient
      <4>2. PICK q \in Int : v - b = burst * q
        <5>1. v - b \in Int
          BY <1>2, <1>5, <1>9
        <5> QED
          BY <1>3, <1>10, <5>1, Quotient
      <4>3. b = burst * (p - q) + 0
        BY <1>2, <1>3, <1>5, <1>9, <4>1, <4>2
      <4>4. (burst * (p - q) + 0) % burst = 0
        BY <1>3, RemainderUnique
      <4> QED
        BY <4>3, <4>4
    <3> QED
      BY <1>3, <1>9, <3>1, <3>3, PositiveMultiple
  <2> QED
    BY <1>6, <1>11, <2>2, <2>3
<1> QED
  BY <1>9, <1>10, <1>11 DEF BurstsCovered, b, burst, v

LEMMA ClockKeepsLine ==
    ASSUME Typed, Linked, NEW tvalid \in BOOLEAN, NEW awready \in BOOLEAN,
           NEW wready \in BOOLEAN, NEW n \in Series,
           Clock(tvalid, n, awready, wready)
    PROVE  Linked' /\ slave'.word \in Nat
<1> DEFINE rden == int_wvalid_wire /\ (~buf_1.valid \/ wready)
           get == /\ int_wvalid_wire /\ (~buf_1.valid \/ wready)
                  /\ int_count_wire > 0
           w == buf_1.valid /\ wready
           put == tvalid /\ Len(fifo) # Depth
           rest == IF get THEN SubSeq(fifo, Ratio + 1, Len(fifo)) ELSE fifo
           held == IF w THEN <<>> ELSE OnPort
           e == source.word + 1
           a == slave.word
           a1 == slave'.word
<1>1. Counting(Line(a, OnPort, fifo, e))
  BY DEF Linked, Way
<1>2. /\ OnPort \in Seq(Nat) /\ fifo \in Seq(Nat) /\ e \in Nat /\ a \in Nat
      /\ buf_1.valid => OnPort = buf_1.data.words
      /\ ~buf_1.valid => OnPort = <<>>
  <2>1. <<>> \in Seq(Nat)
    OBVIOUS
  <2>2. /\ buf_1.data.words \in Seq(Nat) /\ fifo \in Seq(Nat)
        /\ source.word \in Nat /\ slave.word \in Nat
    BY Sizes DEF Typed, SourceType
  <2>3. e \in Nat
    BY <2>2
  <2> QED
    BY <2>1, <2>2, <2>3 DEF OnPort
<1>3. /\ a1 \in Nat /\ held \in Seq(Nat)
      /\ Counting(Line(a1, held, fifo, e))
  <2>1. a1 = IF w /\ buf_1.data.words # <<>> THEN Last(buf_1.data.words) ELSE a
    BY DEF Clock, Take, Junk
  <2>2. CASE w /\ buf_1.data.words # <<>>
    <3>1. a1 = Last(OnPort) /\ held = <<>> /\ OnPort # <<>>
      BY <1>2, <2>1, <2>2
    <3>2. /\ Last(OnPort) \in Nat
          /\ Counting(Line(a, OnPort, fifo, e))
               => Counting(Line(Last(OnPort), <<>>, fifo, e))
      BY <1>2, <3>1, LineTaken
    <3>3. <<>> \in Seq(Nat)
      OBVIOUS
    <3> HIDE DEF held, a1, a, e
    <3> QED
      BY <1>1, <3>1, <3>2, <3>3
  <2>3. CASE ~(w /\ buf_1.data.words # <<>>)
    <3>1. a1 = a /\ held = OnPort
      BY <1>2, <2>1, <2>3
    <3> HIDE DEF held, a1, a, e
    <3> QED
      BY <1>1, <1>2, <3>1
  <2> QED
    BY <2>2, <2>3
<1>4. rden => held = <<>>
  BY <1>2
<1>5. /\ get => Len(fifo) >= Ratio
      /\ rest \in Seq(Nat)
      /\ put => fifo' = rest \o <<e>>
      /\ ~put => fifo' = rest
  BY FifoStep
<1>6. OnPort' \in Seq(Nat)
      /\ Line(a1, OnPort', rest, e) = Line(a1, held, fifo, e)
  <2>1. /\ rden => buf_1' = [valid |-> TRUE,
                             data |-> [last |-> int_wlast_wire,
                                       words |-> int_wdata_wire]]
        /\ ~rden => /\ buf_1'.valid = (buf_1.valid /\ ~wready)
                    /\ buf_1.valid /\ ~wready => buf_1' = buf_1
    BY PortStep
  <2>2. CASE get
    <3>1. OnPort' = SubSeq(fifo, 1, Ratio)
      BY <2>1, <2>2 DEF OnPort, int_wdata_wire
    <3>2. SubSeq(fifo, 1, Ratio) \in Seq(Nat)
      <4>1. fifo \in Seq(Nat) /\ Len(fifo) >= Ratio
        BY <1>2, <1>5, <2>2
      <4> QED
        BY <4>1, Sizes
    <3>3. rest = SubSeq(fifo, Ratio + 1, Len(fifo)) /\ held = <<>>
      BY <1>4, <2>2
    <3> HIDE DEF rest, held, a1, e
    <3>4. Line(a1, SubSeq(fifo, 1, Ratio), SubSeq(fifo, Ratio + 1, Len(fifo)), e)
            = Line(a1, <<>>, fifo, e)
      BY <1>2, <1>3, <1>5, <2>2, Sizes, LineLoaded
    <3> QED
      BY <3>1, <3>2, <3>3, <3>4
  <2>3. CASE ~get
    <3>1. OnPort' = held
      <4>1. CASE rden
        <5>1. OnPort' = <<>>
          BY <2>1, <2>3, <4>1 DEF OnPort, int_wdata_wire, Junk
        <5> QED
          BY <1>4, <4>1, <5>1
      <4>2. CASE ~rden /\ buf_1.valid /\ ~wready
        BY <2>1, <4>2 DEF OnPort
      <4>3. CASE ~rden /\ ~(buf_1.valid /\ ~wready)
        <5>1. buf_1'.valid = FALSE
          BY <2>1, <4>3
        <5> QED
          BY <4>3, <5>1 DEF OnPort
      <4> QED
        BY <4>1, <4>2, <4>3
    <3>2. rest = fifo
      BY <2>3
    <3> HIDE DEF rest, held
    <3> QED
      BY <1>3, <3>1, <3>2
  <2> QED
    BY <2>2, <2>3
<1>7. source'.word = source.word + (IF put THEN 1 ELSE 0)
  BY FifoKept
<1> DEFINE w1 == OnPort'
<1> HIDE DEF rest, held, a1, e, get, w1
<1>9. Counting(Line(a1, w1, rest, e)) /\ w1 \in Seq(Nat)
  BY <1>3, <1>6 DEF w1
<1>10. Way' = Line(a1, w1, fifo', source'.word + 1)
  BY DEF Way, a1, w1
<1>11. CASE put
  <2>1. fifo' = rest \o <<e>> /\ source'.word + 1 = e + 1
    BY <1>5, <1>7, <1>11 DEF e
  <2>2. Counting(Line(a1, w1, rest, e)) => Counting(Line(a1, w1, rest \o <<e>>, e + 1))
    BY <1>2, <1>3, <1>5, <1>9, LineOffered
  <2> QED
    BY <1>3, <1>9, <1>10, <2>1, <2>2 DEF Linked, a1
<1>12. CASE ~put
  <2>1. fifo' = rest /\ source'.word + 1 = e
    <3>1. source.word + 0 = source.word
      BY Sizes DEF Typed, SourceType
    <3> QED
      BY <1>5, <1>7, <1>12, <3>1 DEF e
  <2> QED
    BY <1>3, <1>9, <1>10, <2>1 DEF Linked, a1
<1> QED
  BY <1>11, <1>12

LEMMA ClockKeepsTypes ==
    ASSUME Typed, Linked, NEW tvalid \in BOOLEAN, NEW awready \in BOOLEAN,
           NEW wready \in BOOLEAN, NEW n \in Series,
           Clock(tvalid, n, awready, wready)
    PROVE  Typed'
<1> DEFINE sent == int_awvalid_wire /\ OutputReady(buf_0, awready)
           rden == int_wvalid_wire /\ OutputReady(buf_1, wready)
<1>1. /\ int_awvalid_reg' = (int_awvalid_wire /\ ~sent)
      /\ int_addr_reg' = IF sent THEN NextSlot(int_addr_reg) ELSE int_addr_reg
      /\ tlast_pending_reg' = ((tlast_pending_reg
                                  \/ (tvalid /\ Offer(n).left = 0)) /\ ~sent)
      /\ awlen_reg' = IF sent THEN Awlen ELSE awlen_reg
      /\ buf_0' = OutputEdge(buf_0, int_awvalid_wire, int_addr_reg, awready)
  BY DEF Clock, AddressEdge
<1>2. /\ int_cntr_reg' = IF rden THEN NextBeat(int_cntr_reg)
                         ELSE IF sent THEN 0 ELSE int_cntr_reg
      /\ int_wvalid_reg' = (int_wvalid_wire
                              /\ ~(OutputReady(buf_1, wready) /\ int_wlast_wire))
      /\ buf_1' = OutputEdge(buf_1, int_wvalid_wire,
                    [last |-> int_wlast_wire, words |-> int_wdata_wire], wready)
  BY DEF Clock, DataEdge
<1>3. /\ int_cntr_reg \in 0 .. B - 1 /\ int_addr_reg \in 0 .. MaxAddr
      /\ awlen_reg \in 0 .. B - 1 /\ fifo \in Seq(Nat)
      /\ buf_0 \in [valid : BOOLEAN, data : 0 .. MaxAddr]
      /\ buf_1 \in [valid : BOOLEAN, data : [last : BOOLEAN, words : Seq(Nat)]]
      /\ buf_1.data.words = Junk \/ Len(buf_1.data.words) = Ratio
      /\ int_wvalid_wire \in BOOLEAN /\ int_awvalid_wire \in BOOLEAN
      /\ int_wlast_wire \in BOOLEAN
  BY DEF Typed, int_wvalid_wire, int_awvalid_wire, int_valid_wire, int_wlast_wire
<1>4. NextBeat(int_cntr_reg) = IF int_cntr_reg = B - 1 THEN 0 ELSE int_cntr_reg + 1
  BY <1>3, BeatAfter
<1>5. /\ int_cntr_reg' \in 0 .. B - 1 /\ int_addr_reg' \in 0 .. MaxAddr
      /\ int_awvalid_reg' \in BOOLEAN /\ int_wvalid_reg' \in BOOLEAN
      /\ tlast_pending_reg' \in BOOLEAN
  BY <1>1, <1>2, <1>3, <1>4, Sizes DEF NextSlot
<1>6. awlen_reg' \in 0 .. B - 1
  <2>1. int_count_wire \in Nat
    BY CountFacts
  <2>2. Awlen \in 0 .. B - 1
    BY <2>1, Sizes DEF Awlen, MAX_AWLEN
  <2> QED
    BY <1>1, <1>3, <2>2
<1>7. buf_0' \in [valid : BOOLEAN, data : 0 .. MaxAddr]
  BY <1>1, <1>3 DEF OutputEdge, OutputLoad
<1>8. /\ buf_1' \in [valid : BOOLEAN, data : [last : BOOLEAN, words : Seq(Nat)]]
      /\ buf_1'.data.words = Junk \/ Len(buf_1'.data.words) = Ratio
  <2>1. /\ int_wdata_wire \in Seq(Nat)
        /\ int_wdata_wire = Junk \/ Len(int_wdata_wire) = Ratio
    <3>1. CASE int_count_wire > 0
      <4>1. Len(fifo) >= Ratio
        BY <3>1, CountFacts
      <4>2. SubSeq(fifo, 1, Ratio) \in Seq(Nat) /\ Len(SubSeq(fifo, 1, Ratio)) = Ratio
        BY <1>3, <4>1, Sizes
      <4> QED
        BY <3>1, <4>2 DEF int_wdata_wire
    <3>2. CASE ~(int_count_wire > 0)
      BY <3>2 DEF int_wdata_wire, Junk
    <3> QED
      BY <3>1, <3>2
  <2>4. CASE OutputReady(buf_1, wready)
    <3>1. buf_1' = [valid |-> int_wvalid_wire,
                    data |-> [last |-> int_wlast_wire, words |-> int_wdata_wire]]
      BY <1>2, <2>4 DEF OutputEdge, OutputLoad
    <3> QED
      BY <1>3, <2>1, <3>1
  <2>5. CASE ~OutputReady(buf_1, wready)
    <3>1. buf_1' = buf_1
      BY <1>2, <1>3, <2>5 DEF OutputEdge, OutputLoad
    <3> QED
      BY <1>3, <3>1
  <2> QED
    BY <2>4, <2>5
<1>9. /\ fifo' \in Seq(Nat) /\ Len(fifo') <= Depth
      /\ \A i \in DOMAIN fifo' : fifo'[i] \in 1 .. source'.word
      /\ source' \in SourceType
  BY FifoKept
<1>10. slave'.word \in Nat
  BY ClockKeepsLine
<1> QED
  BY <1>5, <1>6, <1>7, <1>8, <1>9, <1>10 DEF Typed, Junk

LEMMA ClockKeepsSlave ==
    ASSUME Whole, NEW tvalid \in BOOLEAN, NEW awready \in BOOLEAN,
           NEW wready \in BOOLEAN, NEW n \in Series,
           Clock(tvalid, n, awready, wready)
    PROVE  SlaveTyped'
<1>1. /\ slave'.lens \in Seq({B})
      /\ slave'.addr = IF buf_0.valid /\ awready THEN buf_0.data ELSE slave.addr
      /\ slave'.beats = slave.beats + One(buf_1.valid /\ wready)
      /\ slave' = [lens |-> slave'.lens, addr |-> slave'.addr,
                   beat |-> slave'.beat, beats |-> slave'.beats,
                   word |-> slave'.word]
  BY SlaveStep
<1>2. slave'.addr \in 0 .. MaxAddr
  BY <1>1 DEF Whole, Typed, SlaveTyped
<1>3. slave'.beats \in Nat
  BY <1>1 DEF Whole, SlaveTyped, One
<1>4. slave'.beat \in 0 .. B - 1 /\ slave'.word \in Nat
  BY ClockKeepsBeats, ClockKeepsLine DEF Whole
<1> QED
  BY <1>1, <1>2, <1>3, <1>4 DEF SlaveTyped

-----------------------------------------------------------------------------

LEMMA NoWords ==
    /\ <<>> \in Seq(Nat) /\ <<>> \in Seq({B}) /\ Len(<<>>) = 0
    /\ \A i \in DOMAIN <<>> : FALSE
  OBVIOUS

LEMMA NoMultiple == (0 - 0) % (B * Ratio) = 0
<1>1. (B * Ratio) * 0 + 0 = 0 - 0 /\ 0 \in 0 .. (B * Ratio) - 1
  BY Sizes
<1>2. ((B * Ratio) * 0 + 0) % (B * Ratio) = 0
  BY <1>1, Sizes, RemainderUnique
<1> QED
  BY <1>1, <1>2

LEMMA InitIInv == Init => IInv
<1> SUFFICES ASSUME Init PROVE Whole
  BY DEF IInv, Whole
<1> USE Sizes DEF Init, Junk, Nothing, NoSeries
<1>1. Typed
  <2>1. /\ <<>> \in Seq(Nat) /\ <<>> \in Seq({B}) /\ Len(<<>>) = 0
        /\ \A i \in DOMAIN <<>> : FALSE
    BY NoWords
  <2>2. /\ int_awvalid_reg \in BOOLEAN /\ int_wvalid_reg \in BOOLEAN
        /\ tlast_pending_reg \in BOOLEAN
    OBVIOUS
  <2>6. int_cntr_reg \in 0 .. B - 1 /\ int_addr_reg \in 0 .. MaxAddr
    OBVIOUS
  <2>8. awlen_reg \in 0 .. B - 1
    <3>1. awlen_reg = B - 1
      BY DEF MAX_AWLEN
    <3> HIDE DEF Init
    <3> QED
      BY <3>1
  <2>3. buf_0 \in [valid : BOOLEAN, data : 0 .. MaxAddr]
    OBVIOUS
  <2>4. /\ buf_1 \in [valid : BOOLEAN, data : [last : BOOLEAN, words : Seq(Nat)]]
        /\ buf_1.data.words = Junk
    BY <2>1
  <2>5. source \in SourceType /\ slave.word \in Nat
    BY DEF SourceType
  <2>7. fifo \in Seq(Nat) /\ Len(fifo) <= Depth
        /\ \A i \in DOMAIN fifo : fifo[i] \in 1 .. source.word
    BY <2>1
  <2> QED
    BY <2>2, <2>3, <2>4, <2>5, <2>6, <2>7, <2>8 DEF Typed
<1>2. HandedOver /\ SlaveTyped
  BY NoWords DEF HandedOver, NextSlot, SlaveTyped
<1>3. OneAddressPerBurst /\ BeatsCounted
  BY DEF OneAddressPerBurst, BeatsCounted, One, LastBuffered
<1>4. BurstsCovered
  <2>1. Spare = 0 /\ source.word = 0 /\ tlast_pending_reg = FALSE
    BY <1>1, RemainingFacts
  <2> QED
    BY <2>1, NoMultiple DEF BurstsCovered
<1>5. Linked
  <2>1. Way = Line(0, <<>>, <<>>, 1)
    BY DEF Way, OnPort
  <2> QED
    BY <2>1, LineFirst DEF Linked
<1> QED
  BY <1>1, <1>2, <1>3, <1>4, <1>5 DEF Whole

LEMMA ResetMakesWhole ==
    ASSUME Typed, Reset
    PROVE  Whole'
<1> USE Sizes DEF Junk, Nothing, NoSeries
<1>1. /\ int_awvalid_reg' = FALSE /\ int_wvalid_reg' = FALSE
      /\ int_cntr_reg' = 0 /\ int_addr_reg' = 0
      /\ tlast_pending_reg' = FALSE /\ awlen_reg' = MAX_AWLEN
      /\ buf_0'.valid = FALSE /\ buf_1'.valid = FALSE
      /\ fifo' = <<>> /\ source' = [word |-> 0, left |-> 0, tail |-> 0,
                                   lost |-> FALSE, ragged |-> FALSE]
      /\ slave' = [lens |-> <<>>, addr |-> MaxAddr, beat |-> 0, beats |-> 0,
                   word |-> 0]
  BY DEF Reset, OutputReset
<1>2. Typed'
  <2>1. /\ <<>> \in Seq(Nat) /\ <<>> \in Seq({B}) /\ Len(<<>>) = 0
        /\ \A i \in DOMAIN <<>> : FALSE
    BY NoWords
  <2>2. buf_0' \in [valid : BOOLEAN, data : 0 .. MaxAddr]
    BY DEF Reset, OutputReset, OutputLoad, Typed
  <2>3. buf_1' = [valid |-> FALSE,
                  data |-> IF ~buf_1.valid
                             THEN [last |-> int_wlast_wire, words |-> int_wdata_wire]
                             ELSE buf_1.data]
    BY DEF Reset, OutputReset, OutputLoad, OutputReady
  <2>4. /\ int_wdata_wire \in Seq(Nat)
        /\ int_wdata_wire = Junk \/ Len(int_wdata_wire) = Ratio
    <3>1. CASE int_count_wire > 0
      <4>1. Len(fifo) >= Ratio /\ fifo \in Seq(Nat)
        BY <3>1, CountFacts DEF Typed
      <4>2. SubSeq(fifo, 1, Ratio) \in Seq(Nat) /\ Len(SubSeq(fifo, 1, Ratio)) = Ratio
        BY <4>1
      <4> QED
        BY <3>1, <4>2 DEF int_wdata_wire
    <3>2. CASE ~(int_count_wire > 0)
      BY <2>1, <3>2 DEF int_wdata_wire
    <3> QED
      BY <3>1, <3>2
  <2>5. /\ buf_1' \in [valid : BOOLEAN, data : [last : BOOLEAN, words : Seq(Nat)]]
        /\ buf_1'.data.words = Junk \/ Len(buf_1'.data.words) = Ratio
    <3>1. int_wlast_wire \in BOOLEAN
      BY DEF int_wlast_wire
    <3>2. /\ buf_1.data \in [last : BOOLEAN, words : Seq(Nat)]
          /\ buf_1.data.words = Junk \/ Len(buf_1.data.words) = Ratio
      BY DEF Typed
    <3> QED
      BY <2>3, <2>4, <3>1, <3>2
  <2>6. source' \in SourceType /\ slave'.word \in Nat
    BY <1>1 DEF SourceType
  <2>8. fifo' \in Seq(Nat) /\ Len(fifo') <= Depth
        /\ \A i \in DOMAIN fifo' : fifo'[i] \in 1 .. source'.word
    BY <1>1, <2>1
  <2> QED
    <3>1. /\ int_wvalid_reg' \in BOOLEAN /\ tlast_pending_reg' \in BOOLEAN
          /\ int_awvalid_reg' \in BOOLEAN
      BY <1>1
    <3>3. awlen_reg' \in 0 .. B - 1
      <4>1. awlen_reg' = B - 1
        BY <1>1 DEF MAX_AWLEN
      <4> QED
        BY <4>1
    <3>2. int_cntr_reg' \in 0 .. B - 1 /\ int_addr_reg' \in 0 .. MaxAddr
      BY <1>1
    <3> QED
      BY <1>1, <2>2, <2>5, <2>6, <2>8, <3>1, <3>2, <3>3 DEF Typed
<1>3. HandedOver' /\ SlaveTyped'
  BY <1>1, NoWords DEF HandedOver, NextSlot, MAX_AWLEN, SlaveTyped
<1>4. OneAddressPerBurst' /\ BeatsCounted'
  BY <1>1 DEF OneAddressPerBurst, BeatsCounted, One, LastBuffered
<1>5. BurstsCovered'
  <2>1. Remaining' = 0 /\ Len(fifo') = 0 /\ source'.word = 0
    BY <1>1 DEF Remaining
  <2>2. Spare' = 0
    BY <2>1 DEF Spare
  <2> QED
    BY <1>1, <2>1, <2>2, NoMultiple DEF BurstsCovered
<1>6. Linked'
  <2>1. Way' = Line(0, <<>>, <<>>, 1)
    BY <1>1 DEF Way, OnPort
  <2> QED
    BY <2>1, LineFirst DEF Linked
<1> QED
  BY <1>2, <1>3, <1>4, <1>5, <1>6 DEF Whole

LEMMA StillKeepsIInv ==
    ASSUME IInv, UNCHANGED vars
    PROVE  IInv'
<1> USE DEF vars
<1>1. Typed' = Typed /\ HandedOver' = HandedOver /\ SlaveTyped' = SlaveTyped
      /\ OneAddressPerBurst' = OneAddressPerBurst /\ BeatsCounted' = BeatsCounted
  BY DEF Typed, SlaveTyped, HandedOver, OneAddressPerBurst, BeatsCounted,
         LastBuffered
<1>2. BurstsCovered' = BurstsCovered /\ Linked' = Linked
      /\ source'.ragged = source.ragged
  BY DEF BurstsCovered, Linked, Spare, Remaining, Way, OnPort
<1> QED
  BY <1>1, <1>2 DEF IInv, Whole

-----------------------------------------------------------------------------
\* A clock edge keeps the invariant.  A series that ends ragged is not taken
\* back by an edge, so what was in step after the edge was before it.
LEMMA ClockKeepsIInv ==
    ASSUME IInv, NEW tvalid \in BOOLEAN, NEW awready \in BOOLEAN,
           NEW wready \in BOOLEAN, NEW n \in Series,
           Clock(tvalid, n, awready, wready)
    PROVE  IInv'
<1>1. Typed /\ Linked
  BY DEF IInv
<1>2. Typed' /\ Linked'
  BY <1>1, ClockKeepsTypes, ClockKeepsLine
<1>3. ASSUME ~source'.ragged PROVE Whole'
  <2>1. ~source.ragged
    BY <1>1, <1>3, OfferFacts DEF Clock
  <2>2. Whole
    BY <2>1 DEF IInv
  <2> QED
    BY <1>2, <1>3, <2>2, ClockKeepsSlots, ClockKeepsAddresses, ClockKeepsBeats,
       ClockKeepsCover, ClockKeepsSlave DEF Whole
<1> QED
  BY <1>2, <1>3 DEF IInv

\* The words stay in line, and until a series ends ragged the beats, the
\* bursts and the addresses stay in step with them: the strengthened invariant.
THEOREM IInvTheorem == Spec => []IInv
<1>1. IInv /\ [Next]_vars => IInv'
  <2> SUFFICES ASSUME IInv, [Next]_vars PROVE IInv'
    OBVIOUS
  <2>1. CASE Reset
    BY <2>1, ResetMakesWhole DEF IInv, Whole
  <2>2. CASE UNCHANGED vars
    BY <2>2, StillKeepsIInv
  <2> QED
    BY <2>1, <2>2, ClockKeepsIInv DEF Next
<1> QED
  BY <1>1, InitIInv, PTL DEF Spec

\* Whatever the slave stalls and whatever the stream loses before the FIFO,
\* every word the FIFO took reaches memory once and in its place, the FIFO
\* stays within its depth, and every beat carries words until a series ends
\* ragged.
THEOREM WordsTheorem == Spec => []WordsKept
<1>1. IInv => WordsKept
  <2> SUFFICES ASSUME IInv PROVE WordsKept
    OBVIOUS
  <2>1. TypeOK
    <3>1. /\ buf_1.valid \in BOOLEAN /\ buf_1.data.last \in BOOLEAN
          /\ source.word \in 0 .. MaxWords
      BY DEF IInv, Typed, SourceType
    <3> QED
      BY <3>1 DEF IInv, Typed, TypeOK
  <2>2. NothingLost
    <3>1. OnTheWay = OnPort \o fifo
      BY DEF OnTheWay, OnPort
    <3>2. Counting(<<slave.word>> \o OnTheWay \o <<source.word + 1>>)
      BY <3>1 DEF IInv, Linked, Way, Line
    <3> QED
      BY <3>2 DEF NothingLost, Counting
  <2>3. NoJunk
    BY DEF NoJunk, IInv, Whole, BeatsCounted
  <2> QED
    BY <2>1, <2>2, <2>3 DEF WordsKept
<1> QED
  BY <1>1, IInvTheorem, PTL

\* The AWLEN the slave was given and the beats it gets agree, and no burst is
\* cut short, until a series has ended with words that do not fill their burst.
THEOREM BurstsTheorem == Spec => []BurstsWhole
<1>1. IInv => BurstsWhole
  <2> SUFFICES ASSUME Whole PROVE LengthAsAnnounced /\ OnlyFullBursts
    BY DEF IInv, BurstsWhole
  <2>1. /\ slave.lens \in Seq({B}) /\ slave.beat \in 0 .. B - 1
        /\ \A i \in DOMAIN slave.lens : slave.lens[i] = B
    BY DEF Whole, SlaveTyped
  <2>2. LengthAsAnnounced
    <3> SUFFICES ASSUME buf_1.valid, slave.lens # <<>>
                 PROVE  buf_1.data.last <=> slave.beat + 1 = Head(slave.lens)
      BY DEF LengthAsAnnounced
    <3>1. Head(slave.lens) = B
      BY <2>1
    <3>2. buf_1.data.last <=> slave.beat = B - 1
      BY DEF Whole, BeatsCounted
    <3> QED
      BY <2>1, <3>1, <3>2, Sizes
  <2>3. tlast_pending_reg /\ ~int_wvalid_reg => int_count_wire >= B
    <3> SUFFICES ASSUME tlast_pending_reg, ~int_wvalid_reg
                 PROVE  int_count_wire >= B
      OBVIOUS
    <3>1. Typed
      BY DEF Whole
    <3>2. Len(fifo) >= B * Ratio
      BY <3>1, RemainingFacts DEF Whole, BurstsCovered
    <3> QED
      BY <3>1, <3>2, CountFacts
  <2> QED
    BY <2>1, <2>2, <2>3 DEF OnlyFullBursts
<1> QED
  BY <1>1, IInvTheorem, PTL

OpenBound == Len(slave.lens) \in 0 .. 2

LEMMA OpenBounded ==
    ASSUME SlaveTyped, OneAddressPerBurst
    PROVE  OpenBound
<1> DEFINE o == Len(slave.lens)
           a == One(buf_0.valid)
           b == One(int_wvalid_reg)
           c == One(LastBuffered)
<1>1. /\ o \in Nat /\ o + a = b + c
      /\ a \in {0, 1} /\ b \in {0, 1} /\ c \in {0, 1}
  BY DEF SlaveTyped, OneAddressPerBurst, One
<1> HIDE DEF o, a, b, c
<1>2. o \in 0 .. 2
  BY <1>1
<1> QED
  BY <1>2 DEF o, OpenBound

LEMMA OpenBoundedNext ==
    ASSUME SlaveTyped', OneAddressPerBurst'
    PROVE  OpenBound'
<1> DEFINE o == Len(slave'.lens)
           a == One(buf_0'.valid)
           b == One(int_wvalid_reg')
           c == One(LastBuffered')
<1>1. /\ o \in Nat /\ o + a = b + c
      /\ a \in {0, 1} /\ b \in {0, 1} /\ c \in {0, 1}
  BY DEF SlaveTyped, OneAddressPerBurst, One, LastBuffered
<1> HIDE DEF o, a, b, c
<1>2. o \in 0 .. 2
  BY <1>1
<1> QED
  BY <1>2 DEF o, OpenBound

\* While all is in step, each step on the port takes the next slot of the ring,
\* the next beat, both or neither, and the address is at most two bursts ahead.
LEMMA ClockStreams ==
    ASSUME Whole, NEW tvalid \in BOOLEAN, NEW awready \in BOOLEAN,
           NEW wready \in BOOLEAN, NEW n \in Series,
           Clock(tvalid, n, awready, wready)
    PROVE  [Stream!Next]_(Stream!vars)
<1> USE DEF Stream!Next, Stream!vars
<1> DEFINE o == Len(slave.lens)
           o1 == Len(slave'.lens)
<1>0. o \in 0 .. 2 /\ o1 \in 0 .. 2
  BY OpenBounded, OpenBoundedNext, ClockKeepsSlave, ClockKeepsAddresses
     DEF Whole, OpenBound
<1> DEFINE aw == buf_0.valid /\ awready
           w == buf_1.valid /\ wready
           last == w /\ buf_1.data.last
<1>1. /\ o1 = o + One(aw) - One(last)
      /\ slave'.addr = IF aw THEN buf_0.data ELSE slave.addr
      /\ slave'.beat = IF last THEN 0 ELSE slave.beat + One(w)
      /\ slave'.beats = slave.beats + One(w)
  BY SlaveStep
<1>2. /\ aw => slave'.addr = Stream!NextSlot(slave.addr)
      /\ ~aw => slave'.addr = slave.addr
  BY <1>1 DEF Whole, HandedOver, NextSlot, Stream!NextSlot
<1>3. slave.beat \in 0 .. B - 1 /\ B \in Nat /\ slave.beats \in Nat
  BY Sizes DEF Whole, SlaveTyped
<1>4. w => /\ slave'.beats = slave.beats + 1
           /\ last <=> Stream!Last
           /\ slave'.beat = IF Stream!Last THEN 0 ELSE slave.beat + 1
  BY <1>1, <1>3 DEF Whole, BeatsCounted, Stream!Last, One
<1>5. ~w => slave'.beats = slave.beats /\ slave'.beat = slave.beat
  BY <1>1, <1>3 DEF One
<1>6. o1 = IF aw THEN IF last THEN o ELSE o + 1
                 ELSE IF last THEN o - 1 ELSE o
  <2>1. o1 = o + One(aw) - One(last) /\ o \in Int
    BY <1>0, <1>1
  <2> HIDE DEF o, o1
  <2>2. CASE aw /\ last
    BY <2>1, <2>2 DEF One
  <2>3. CASE aw /\ ~last
    BY <2>1, <2>3 DEF One
  <2>4. CASE ~aw /\ last
    BY <2>1, <2>4 DEF One
  <2>5. CASE ~aw /\ ~last
    BY <2>1, <2>5 DEF One
  <2> QED
    BY <2>2, <2>3, <2>4, <2>5
<1> QED
  BY <1>0, <1>2, <1>4, <1>5, <1>6
     DEF Stream!Address, Stream!Data, Stream!Both, Stream!TakeAddress,
         Stream!KeepAddress, Stream!TakeBeat, Stream!KeepBeat

\* The fork keeps what axis_ram_writer promises: the words, slots and bursts
\* come in its order until a series ends ragged, and again from the next reset.
THEOREM StreamTheorem == Spec => StreamSpec
<1>1. Init => Stream!Init
  BY Sizes DEF Init, Stream!Init, Nothing
<1>2. IInv /\ [Next]_vars
        => [Stream!Next \/ (source.ragged /\ source'.ragged)]_(Stream!vars)
  <2> SUFFICES ASSUME IInv, [Next]_vars
               PROVE  [Stream!Next \/ (source.ragged /\ source'.ragged)]_(Stream!vars)
    OBVIOUS
  <2>1. ASSUME NEW tvalid \in BOOLEAN, NEW awready \in BOOLEAN,
               NEW wready \in BOOLEAN, NEW n \in Series,
               Clock(tvalid, n, awready, wready)
        PROVE  [Stream!Next \/ (source.ragged /\ source'.ragged)]_(Stream!vars)
    <3>1. CASE ~source.ragged
      <4>1. Whole
        BY <3>1 DEF IInv
      <4> QED
        BY <2>1, <4>1, ClockStreams
    <3>2. CASE source.ragged
      <4>1. source'.ragged
        <5>1. Typed
          BY DEF IInv
        <5> QED
          BY <2>1, <3>2, <5>1, OfferFacts DEF Clock
      <4> QED
        BY <3>2, <4>1
    <3> QED
      BY <3>1, <3>2
  <2>2. CASE Reset
    <3>1. slave' = [lens |-> <<>>, addr |-> MaxAddr, beat |-> 0,
                    beats |-> 0, word |-> 0]
      BY <2>2 DEF Reset, Nothing
    <3>2. /\ Len(slave'.lens) = 0 /\ slave'.addr = MaxAddr
          /\ slave'.beats = 0 /\ slave'.beat = 0
      BY <3>1
    <3> QED
      BY <3>2 DEF Stream!Next, Stream!vars, Stream!Restart
  <2>3. CASE UNCHANGED vars
    BY <2>3 DEF vars, Stream!vars
  <2> QED
    BY <2>1, <2>2, <2>3 DEF Next
<1> QED
  BY <1>1, <1>2, IInvTheorem, PTL DEF Spec, StreamSpec
=============================================================================
