---------------------------- MODULE AdcAppProofs ----------------------------
(* Proofs about adc.c and the cores it drives: for any length of the series *)
(* that divides the ring, any FIFO and any number of runs, with Ctrl-C and  *)
(* failing calls anywhere, a run that run.sh has started cuts no burst, has *)
(* its memory to itself and writes one series of its own to the file.       *)
EXTENDS AdcApp, TLAPS

\* Where the program is before it releases the trigger, and after that.
Before == {"alloc", "adc_low", "writer_low", "configure", "adc_high",
           "writer_high", "trigger_low", "trigger_high"}
After == {"poll", "settle", "dump"}
Unconfigured == {"alloc", "adc_low", "writer_low", "configure"}

UnderWay == [burst : Bursts, slot : Slots]

Typed == /\ StateTyped /\ series \in Nat
         /\ fifo \in Seq(Bursts) /\ writing \in Seq(UnderWay) /\ csv \in Seq(Bursts)
         /\ left > 0 => series > 0

\* No burst is newer than the newest series.
Past(burst) == burst[1] <= series
NothingNewer == /\ \A s \in Slots : Past(mem[s])
                /\ \A i \in DOMAIN fifo : Past(fifo[i])
                /\ writing # <<>> => Past(writing[1].burst)

\* How the bits go with the program.
Bits == /\ pc \in {"writer_low", "configure"} => ~rx_rst[ADC]
        /\ pc = "configure" => ~rx_rst[WRITER]
        /\ pc \in {"writer_high", "trigger_low", "trigger_high"} \cup After => rx_rst[ADC]
        /\ pc \in {"trigger_low", "trigger_high"} \cup After => rx_rst[WRITER]
        /\ pc \in After => rx_rst[TRIGGER]

\* After the bitstream nothing moves before the trigger is released.
Quiet == loaded /\ pc \in Before =>
            /\ writing = <<>> /\ fifo = <<>> /\ left = 0 /\ ~stuck
            /\ slot = 0 /\ position = 0 /\ ~rx_rst[TRIGGER]

\* Whose memory the writer writes to.
Owner == /\ pc \in Unconfigured /\ ~loaded => rx_addr # run
         /\ pc \notin Unconfigured \cup {"off"} => rx_addr = run
         /\ pc = "off" => cma = 0

\* Unless the last run was abandoned the writer rests between two runs.
Resting == {"off", "alloc", "adc_low", "writer_low"}
Idle == /\ ~Abandoned /\ pc \in Resting => writing = <<>> /\ ~rx_rst[WRITER]
        /\ pc = "configure" => writing = <<>>

\* The stream between the ADC and the memory, when the trigger was released on
\* cores at rest: every burst is on its way to its place ...
Place(s) == (s % SeriesLen) + 1
Succ(k) == IF k = SeriesLen THEN 1 ELSE k + 1
NextSent == IF left = 0 THEN 1 ELSE SeriesLen - left + 1

InPlace ==
    /\ fifo = <<>> => NextSent = Place(slot)
    /\ fifo # <<>> => fifo[1][2] = Place(slot) /\ NextSent = Succ(fifo[Len(fifo)][2])
    /\ \A i \in 1 .. Len(fifo) - 1 : fifo[i + 1][2] = Succ(fifo[i][2])
    /\ writing # <<>> => writing[1].burst[2] = Place(writing[1].slot)
    /\ \A s \in Slots : mem[s][1] <= armed \/ mem[s][2] = Place(s)

\* ... from a series of this run ...
Fresh == /\ \A i \in DOMAIN fifo : fifo[i][1] > armed
         /\ writing # <<>> => writing[1].burst[1] > armed

\* ... and those of the first series go to the first slots.
FirstLap ==
    /\ series = armed => /\ slot = 0 /\ fifo = <<>> /\ writing = <<>> /\ left = 0
                         /\ position = 0
    /\ \A i \in DOMAIN fifo : fifo[i][1] = armed + 1 => slot + i = fifo[i][2]
    /\ writing # <<>> /\ writing[1].burst[1] = armed + 1
            => writing[1].slot + 1 = writing[1].burst[2]
    /\ series = armed + 1 /\ left > 0 => slot + Len(fifo) = SeriesLen - left

\* The k-th burst of the first series has landed, or is still to come.
Unsent(k) == series = armed \/ (series = armed + 1 /\ left > 0 /\ k >= SeriesLen - left)
Landed(k) ==
    \/ mem[k][1] > armed
    \/ Unsent(k)
    \/ \E i \in DOMAIN fifo : fifo[i] = <<armed + 1, k + 1>>
    \/ writing # <<>> /\ writing[1].burst = <<armed + 1, k + 1>>

Seen == /\ pc = "settle" => due > armed
        /\ pc = "dump" /\ ~interrupted => \A k \in 0 .. SeriesLen - 1 : mem[k][1] > armed

Flowing == InPlace /\ Fresh /\ FirstLap /\ \A k \in 0 .. SeriesLen - 1 : Landed(k)
Flow == loaded /\ pc \in After => Flowing /\ Seen

\* The file is written last.
Empty == pc \notin {"dump", "off"} => csv = <<>>

Control == Bits /\ Quiet /\ Owner /\ Idle /\ Empty
IInv == /\ Typed /\ NothingNewer /\ Control /\ Flow
        /\ loaded /\ ~interrupted => CaptureAfterTrigger

-----------------------------------------------------------------------------
LEMMA Sizes ==
    /\ SeriesLen \in Nat \ {0} /\ Depth \in Nat \ {0} /\ Ring \in Nat \ {0}
    /\ Ring > SeriesLen /\ Ring % SeriesLen = 0 /\ Loads \subseteq BOOLEAN
    /\ MaxSeries \in Nat /\ MaxReplays \in Nat /\ MaxRuns \in Nat
    /\ ADC # WRITER /\ ADC # TRIGGER /\ WRITER # TRIGGER
  BY AppAssumption DEF ADC, WRITER, TRIGGER

LEMMA BurstFacts ==
    /\ \A b \in Bursts : b[1] \in Nat /\ b[2] \in Nat
    /\ \A n \in 1 .. MaxSeries, k \in 1 .. SeriesLen : <<n, k>> \in Bursts
    /\ Old \in Bursts /\ Replay \in Bursts /\ Old[1] = 0 /\ Replay[1] = 0
  BY DEF Bursts, Old, Replay

LEMMA BurstPlace == \A b \in Bursts : b[2] <= SeriesLen
BY Sizes DEF Bursts, Old, Replay

LEMMA AppendFacts ==
  ASSUME NEW S, NEW f \in Seq(S), NEW b \in S
  PROVE  /\ Append(f, b) \in Seq(S) /\ Len(Append(f, b)) = Len(f) + 1 /\ Len(f) \in Nat
         /\ Append(f, b)[Len(f) + 1] = b /\ Append(f, b) # <<>>
         /\ \A i \in 1 .. Len(f) : Append(f, b)[i] = f[i]
  OBVIOUS

LEMMA TailFacts ==
  ASSUME NEW S, NEW f \in Seq(S), f # <<>>
  PROVE  /\ Tail(f) \in Seq(S) /\ Len(Tail(f)) = Len(f) - 1 /\ Len(f) \in Nat \ {0}
         /\ Head(f) = f[1] /\ f[1] \in S
         /\ \A i \in 1 .. Len(f) - 1 : Tail(f)[i] = f[i + 1]
  OBVIOUS

LEMMA ModUnique ==
  ASSUME NEW q \in Int, NEW m \in Nat \ {0}, NEW r \in 0 .. m - 1
  PROVE  (m * q + r) % m = r
  OBVIOUS

\* The ring holds whole series, so the place in a series goes round with it.
LEMMA PlaceNext ==
  ASSUME NEW s \in Slots
  PROVE  /\ NextSlot(s) \in Slots /\ Place(NextSlot(s)) = Succ(Place(s))
         /\ Place(0) = 1 /\ Place(s) \in 1 .. SeriesLen
         /\ s < SeriesLen => Place(s) = s + 1
<1> DEFINE m == SeriesLen
           q == s \div m
           r == s % m
<1>1. m \in Nat \ {0} /\ s \in Nat /\ Ring \in Nat \ {0} /\ s <= Ring - 1
  BY Sizes DEF Slots
<1>2. q \in Int /\ r \in 0 .. m - 1 /\ s = m * q + r
  BY <1>1
<1>3. Place(s) = r + 1 /\ 0 \in 0 .. m - 1
  BY <1>1 DEF Place
<1>4. 0 % m = 0
  <2>1. (m * 0 + 0) % m = 0
    BY <1>1, <1>3, ModUnique
  <2>2. m * 0 + 0 = 0
    BY <1>1
  <2> QED
    BY <2>1, <2>2
<1>5. s < m => r = s
  BY <1>1
<1> HIDE DEF q, r
<1>6. (s + 1) % m = IF r + 1 = m THEN 0 ELSE r + 1
  <2>1. CASE r + 1 = m
    <3>1. s + 1 = m * (q + 1) + 0 /\ q + 1 \in Int
      BY <1>1, <1>2, <2>1
    <3>2. (m * (q + 1) + 0) % m = 0
      BY <1>1, <1>3, <3>1, ModUnique
    <3> QED
      BY <2>1, <3>1, <3>2
  <2>2. CASE r + 1 # m
    <3>1. s + 1 = m * q + (r + 1) /\ r + 1 \in 0 .. m - 1
      BY <1>1, <1>2, <2>2
    <3>2. (m * q + (r + 1)) % m = r + 1
      BY <1>1, <1>2, <3>1, ModUnique
    <3> QED
      BY <2>2, <3>1, <3>2
  <2> QED
    BY <2>1, <2>2
<1>7. NextSlot(s) \in Slots /\ NextSlot(s) % m = (s + 1) % m
  <2>1. CASE s < Ring - 1
    BY <1>1, <2>1 DEF NextSlot, Slots
  <2>2. CASE s = Ring - 1
    <3>1. s + 1 = Ring /\ NextSlot(s) = 0 /\ 0 \in Slots
      BY <1>1, <2>2 DEF NextSlot, Slots
    <3> QED
      BY <1>4, <3>1, Sizes
  <2> QED
    BY <1>1, <2>1, <2>2
<1>8. Place(NextSlot(s)) = Succ(Place(s))
  BY <1>1, <1>2, <1>3, <1>6, <1>7 DEF Place, Succ
<1>9. Place(0) = 1
  BY <1>4 DEF Place
<1> QED
  BY <1>1, <1>2, <1>3, <1>5, <1>7, <1>8, <1>9

-----------------------------------------------------------------------------
LEMMA InitIInv == Init => IInv
<1> SUFFICES ASSUME Init PROVE IInv
  OBVIOUS
<1>1. /\ pc = "off" /\ run = 0 /\ loaded = FALSE /\ interrupted = FALSE
      /\ prev_position = 0 /\ position = 0 /\ due = 0 /\ csv = <<>> /\ ended = "none"
      /\ cma = 0 /\ rx_rst = AllLow /\ rx_addr = 0
      /\ series = 0 /\ left = 0 /\ stuck = FALSE /\ replays = 0
      /\ fifo = <<>> /\ writing = <<>>
      /\ slot = 0 /\ mem = [s \in Slots |-> Old] /\ armed = 0
  BY DEF Init
<1>2. Typed
  <2>1. /\ Len(fifo) = 0 /\ Len(writing) = 0 /\ Len(csv) = 0
        /\ fifo \in Seq(Bursts) /\ writing \in Seq(UnderWay) /\ csv \in Seq(Bursts)
    BY <1>1
  <2>2. Len(fifo) <= Depth /\ Len(writing) <= 1 /\ Len(csv) <= SeriesLen + 1
    BY <2>1, Sizes
  <2>3. /\ run \in 0 .. MaxRuns /\ cma \in {0, run} /\ rx_addr \in 0 .. run
        /\ {position, prev_position, slot} \subseteq Slots
        /\ {armed, due} \subseteq 0 .. series /\ series <= MaxSeries /\ left \in 0 .. SeriesLen
        /\ replays \in 0 .. MaxReplays /\ series \in Nat /\ ~(left > 0)
    BY <1>1, Sizes DEF Slots
  <2>4. rx_rst \in [{ADC, WRITER, TRIGGER} -> BOOLEAN] /\ mem \in [Slots -> Bursts]
    BY <1>1, BurstFacts DEF AllLow
  <2> QED
    BY <1>1, <2>1, <2>2, <2>3, <2>4 DEF Typed, StateTyped
<1>3. NothingNewer
  BY <1>1, BurstFacts DEF NothingNewer, Past
<1>4. Control
  BY <1>1 DEF Control, Bits, Quiet, Owner, Idle, Resting, Abandoned, Empty, Before, After, Unconfigured, AllLow, WRITER
<1>5. Flow /\ (loaded /\ ~interrupted => CaptureAfterTrigger)
  BY <1>1 DEF Flow
<1> QED
  BY <1>2, <1>3, <1>4, <1>5 DEF IInv

-----------------------------------------------------------------------------
\* The cores: the program stays where it is.
LEMMA TypeFacts ==
  ASSUME IInv
  PROVE  /\ series \in Nat /\ series <= MaxSeries /\ armed \in 0 .. series /\ due \in 0 .. series
         /\ left \in 0 .. SeriesLen /\ (left > 0 => series > 0) /\ slot \in Slots
         /\ position \in Slots /\ prev_position \in Slots
         /\ fifo \in Seq(Bursts) /\ Len(fifo) <= Depth /\ Len(fifo) \in Nat
         /\ writing \in Seq(UnderWay) /\ Len(writing) <= 1
         /\ mem \in [Slots -> Bursts] /\ replays \in 0 .. MaxReplays
         /\ csv \in Seq(Bursts) /\ Len(csv) <= SeriesLen + 1 /\ Len(csv) \in Nat
         /\ rx_rst \in [{ADC, WRITER, TRIGGER} -> BOOLEAN]
         /\ run \in 0 .. MaxRuns /\ rx_addr \in 0 .. run /\ cma \in {0, run}
  BY DEF IInv, Typed, StateTyped

LEMMA Numbers ==
  ASSUME IInv
  PROVE  /\ SeriesLen \in Nat /\ SeriesLen >= 1 /\ Ring \in Nat /\ Ring > SeriesLen
         /\ series \in Nat /\ series <= MaxSeries /\ MaxSeries \in Nat
         /\ armed \in Nat /\ armed <= series /\ due \in Nat /\ due <= series
         /\ left \in Nat /\ left <= SeriesLen /\ (left > 0 => series > 0)
         /\ slot \in Nat /\ slot <= Ring - 1
<1>1. /\ series \in Nat /\ series <= MaxSeries
      /\ armed \in 0 .. series /\ due \in 0 .. series /\ left \in 0 .. SeriesLen
      /\ (left > 0 => series > 0) /\ slot \in 0 .. Ring - 1
  BY TypeFacts DEF Slots
<1>2. SeriesLen \in Nat \ {0} /\ Ring \in Nat \ {0} /\ Ring > SeriesLen /\ MaxSeries \in Nat
  BY Sizes
<1> QED
  BY <1>1, <1>2

LEMMA Older ==
  ASSUME NEW b \in Bursts, NEW n \in Nat, NEW m \in Nat, n <= m, b[1] <= n
  PROVE  b[1] <= m
BY BurstFacts

LEMMA AtMostOne ==
  ASSUME NEW S, NEW f \in Seq(S), f # <<>>, Len(f) <= 1
  PROVE  Len(f) = 1 /\ f[1] \in S
<1>1. Len(f) \in Nat /\ Len(f) # 0
  OBVIOUS
<1>2. Len(f) = 1
  BY <1>1
<1> QED
  BY <1>2

LEMMA Members ==
  ASSUME IInv
  PROVE  /\ \A s \in Slots : mem[s] \in Bursts
         /\ \A i \in DOMAIN fifo : fifo[i] \in Bursts
         /\ writing # <<>> => /\ writing[1].burst \in Bursts /\ writing[1].slot \in Slots
                              /\ Len(writing) = 1 /\ writing[1] \in UnderWay
<1>1. fifo \in Seq(Bursts) /\ writing \in Seq(UnderWay) /\ mem \in [Slots -> Bursts]
      /\ Len(writing) <= 1
  BY TypeFacts
<1>2. \A i \in DOMAIN fifo : fifo[i] \in Bursts
  BY <1>1
<1>3. writing # <<>> => Len(writing) = 1 /\ writing[1] \in UnderWay
  BY <1>1, AtMostOne
<1> QED
  BY <1>1, <1>2, <1>3 DEF UnderWay

\* What the cores change has its type.
LEMMA CoresTyped ==
  ASSUME IInv, UNCHANGED <<program, cma, registers, armed>>,
         series' \in {series, series + 1}, series' <= MaxSeries,
         left' \in 0 .. SeriesLen, left' > 0 => series' > 0,
         stuck' \in BOOLEAN, replays' \in 0 .. MaxReplays, slot' \in Slots,
         fifo' \in Seq(Bursts), Len(fifo') <= Depth,
         writing' \in Seq(UnderWay), Len(writing') <= 1, mem' \in [Slots -> Bursts]
  PROVE  Typed'
<1>1. series' \in Nat /\ {armed', due'} \subseteq 0 .. series'
  BY TypeFacts DEF program
<1> QED
  BY <1>1 DEF IInv, Typed, StateTyped, program, registers

LEMMA FireKeeps ==
  ASSUME IInv, TriggerFires
  PROVE  IInv'
<1> USE TypeFacts, Sizes
<1>1. /\ rx_rst[TRIGGER] /\ left = 0 /\ series' = series + 1 /\ left' = SeriesLen
      /\ series + 1 <= MaxSeries
      /\ UNCHANGED <<program, cma, registers, stuck, replays, writer, armed>>
  BY DEF TriggerFires
<1>2. Typed'
  <2>1. left' \in 0 .. SeriesLen /\ series' > 0 /\ series' <= MaxSeries
    BY <1>1
  <2>2. /\ stuck' \in BOOLEAN
        /\ UNCHANGED <<replays, slot, fifo, writing, mem>>
    BY <1>1 DEF IInv, Typed, StateTyped, writer
  <2> QED
    BY <1>1, <2>1, <2>2, CoresTyped
<1>3. NothingNewer'
  <2>1. UNCHANGED <<mem, fifo, writing>>
    BY <1>1 DEF writer
  <2>2. \A b \in Bursts : b[1] <= series => b[1] <= series'
    BY <1>1, Older
  <2> QED
    BY <2>1, <2>2, Members DEF IInv, NothingNewer, Past
<1>4. Control'
  <2>1. ~(loaded /\ pc \in Before)
    BY <1>1 DEF IInv, Control, Quiet
  <2> QED
    BY <1>1, <2>1 DEF IInv, Control, Bits, Quiet, Owner, Idle, Resting, Abandoned, Empty, program, registers, writer
<1>5. Flow'
  <2> SUFFICES ASSUME loaded, pc \in After PROVE Flowing' /\ Seen'
    BY <1>1 DEF Flow, program
  <2>1. Flowing /\ Seen
    BY DEF IInv, Flow
  <2>2. InPlace'
    <3>1. NextSent' = NextSent
      BY <1>1 DEF NextSent
    <3> QED
      BY <1>1, <2>1, <3>1 DEF Flowing, InPlace, writer, Place, Succ
  <2>3. Fresh' /\ Seen'
    BY <1>1, <2>1 DEF Flowing, Fresh, Seen, program, writer
  <2>4. FirstLap'
    <3>1. series' # armed /\ (series' = armed + 1 => series = armed)
      BY <1>1
    <3>2. series = armed => slot + Len(fifo) = 0
      BY <2>1 DEF Flowing, FirstLap
    <3> QED
      BY <1>1, <2>1, <3>1, <3>2 DEF Flowing, FirstLap, writer
  <2>5. ASSUME NEW k \in 0 .. SeriesLen - 1 PROVE Landed(k)'
    <3>1. Landed(k)
      BY <2>1 DEF Flowing
    <3>2. Unsent(k) => Unsent(k)'
      BY <1>1 DEF Unsent
    <3> QED
      BY <1>1, <3>1, <3>2 DEF Landed, writer
  <2> QED
    BY <2>2, <2>3, <2>4, <2>5 DEF Flowing
<1>6. loaded' /\ ~interrupted' => CaptureAfterTrigger'
  BY <1>1 DEF IInv, CaptureAfterTrigger, program
<1> QED
  BY <1>2, <1>3, <1>4, <1>5, <1>6 DEF IInv

\* What the cores do leaves the bits alone, and they move only once the trigger
\* was released or the bitstream was not loaded.
LEMMA CoresControl ==
  ASSUME IInv, UNCHANGED <<program, cma, registers>>,
         loaded /\ pc \in Before => FALSE,
         writing' = <<>> \/ writing' = writing \/ rx_rst[WRITER]
  PROVE  Control'
<1>1. Bits' /\ Empty'
  BY DEF IInv, Control, Bits, Empty, program, registers
<1>2. Quiet'
  BY DEF Quiet, program
<1>3. Owner'
  BY DEF IInv, Control, Owner, program, registers
<1>4. Idle'
  BY DEF IInv, Control, Bits, Idle, Resting, Abandoned, program, registers
<1> QED
  BY <1>1, <1>2, <1>3, <1>4 DEF Control

LEMMA SendKeeps ==
  ASSUME IInv, SendBurst
  PROVE  IInv'
<1> DEFINE b == <<series, SeriesLen - left + 1>>
           n == Len(fifo)
<1>1. /\ rx_rst[TRIGGER] /\ left > 0 /\ left' = left - 1 /\ Push(b)
      /\ UNCHANGED <<program, cma, registers, series, stuck, replays,
                     writing, slot, mem, history, armed>>
  BY DEF SendBurst
<1>0. left > 0 /\ left' = left - 1 /\ series' = series
  BY <1>1
<1>2. b \in Bursts /\ b[1] = series /\ b[2] = SeriesLen - left + 1 /\ n \in Nat
  <2>1. series \in 1 .. MaxSeries /\ SeriesLen - left + 1 \in 1 .. SeriesLen
    BY <1>0, Numbers
  <2> QED
    BY <2>1, BurstFacts, TypeFacts
<1>3. \/ rx_rst[WRITER] /\ n < Depth /\ fifo' = Append(fifo, b)
      \/ ~rx_rst[WRITER] /\ fifo' = fifo
  BY <1>1 DEF Push
<1> HIDE DEF b, n
<1>4. fifo' = Append(fifo, b) => /\ fifo' \in Seq(Bursts) /\ Len(fifo') = n + 1
                                 /\ fifo'[n + 1] = b /\ fifo' # <<>>
                                 /\ \A i \in 1 .. n : fifo'[i] = fifo[i]
  <2>1. fifo \in Seq(Bursts) /\ b \in Bursts
    BY <1>2, TypeFacts
  <2> QED
    BY <2>1, AppendFacts DEF n
<1>5. Typed'
  <2>1. fifo' \in Seq(Bursts) /\ Len(fifo') <= Depth
    <3>1. CASE fifo' = fifo
      BY <3>1, TypeFacts
    <3>2. CASE n < Depth /\ fifo' = Append(fifo, b)
      <4>1. fifo' \in Seq(Bursts) /\ Len(fifo') = n + 1 /\ Depth \in Nat /\ n < Depth /\ n \in Nat
        BY <1>2, <1>4, <3>2, Sizes
      <4> QED
        BY <4>1
    <3> QED
      BY <1>3, <3>1, <3>2
  <2>2. stuck' \in BOOLEAN
    BY <1>1 DEF IInv, Typed, StateTyped
  <2>3. left' \in 0 .. SeriesLen /\ series' = series /\ series' <= MaxSeries /\ series' > 0
    BY <1>0, Numbers
  <2> QED
    BY <1>1, <2>1, <2>2, <2>3, CoresTyped, TypeFacts
<1>6. NothingNewer'
  <2>1. \A i \in DOMAIN fifo' : fifo'[i][1] <= series
    <3>1. CASE fifo' = fifo
      BY <3>1 DEF IInv, NothingNewer, Past
    <3>2. CASE fifo' = Append(fifo, b)
      <4>1. DOMAIN fifo' = 1 .. n + 1 /\ DOMAIN fifo = 1 .. n
        BY <1>2, <1>4, <3>2 DEF n
      <4>2. \A i \in 1 .. n : fifo'[i][1] <= series
        BY <1>4, <3>2, <4>1 DEF IInv, NothingNewer, Past
      <4>3. fifo'[n + 1][1] <= series
        <5>1. fifo'[n + 1][1] = series
          BY <1>2, <1>4, <3>2
        <5> QED
          BY <5>1, Numbers
      <4>4. \A i \in 1 .. n + 1 : i \in 1 .. n \/ i = n + 1
        BY <1>2
      <4> QED
        BY <4>1, <4>2, <4>3, <4>4
    <3> QED
      BY <1>3, <3>1, <3>2
  <2> QED
    BY <1>1, <2>1 DEF IInv, NothingNewer, Past
<1>7. Control'
  <2>1. ~(loaded /\ pc \in Before)
    BY <1>1 DEF IInv, Control, Quiet
  <2> QED
    BY <1>1, <2>1, CoresControl
<1>8. Flow'
  <2> SUFFICES ASSUME loaded, pc \in After PROVE Flowing' /\ Seen'
    BY <1>1 DEF Flow, program
  <2>1. InPlace /\ Fresh /\ FirstLap /\ Seen /\ \A k \in 0 .. SeriesLen - 1 : Landed(k)
    BY DEF IInv, Flow, Flowing
  <2>2. fifo' = Append(fifo, b)
    BY <1>3 DEF IInv, Control, Bits
  <2>3. series # armed /\ series > armed /\ b[1] > armed
    <3>1. series # armed
      <4>1. series = armed => left = 0
        BY <2>1 DEF FirstLap
      <4> QED
        BY <1>0, <4>1
    <3> QED
      BY <1>2, <3>1, Numbers
  <2>4. DOMAIN fifo' = 1 .. n + 1 /\ DOMAIN fifo = 1 .. n /\ (fifo = <<>> <=> n = 0)
    BY <1>2, <1>4, <2>2 DEF n
  <2>10. Len(fifo') = n + 1
    BY <1>4, <2>2
  <2>5. InPlace'
    <3>1. NextSent = b[2] /\ NextSent' = Succ(b[2])
      BY <1>0, <1>2, Numbers DEF NextSent, Succ
    <3>2. fifo'[1][2] = Place(slot)
      <4>1. CASE n = 0
        <5>1. fifo'[1] = b
          BY <1>4, <2>2, <4>1
        <5> QED
          BY <2>1, <2>4, <3>1, <4>1, <5>1 DEF InPlace
      <4>2. CASE n # 0
        BY <1>2, <1>4, <2>1, <2>2, <2>4, <4>2 DEF InPlace
      <4> QED
        BY <4>1, <4>2
    <3>3. ASSUME NEW i \in 1 .. Len(fifo') - 1
          PROVE  fifo'[i + 1][2] = Succ(fifo'[i][2])
      <4>1. CASE i < n
        <5>1. i \in 1 .. n - 1 /\ i + 1 \in 1 .. n /\ i \in 1 .. n
          BY <1>2, <2>10, <4>1
        <5>2. fifo[i + 1][2] = Succ(fifo[i][2])
          BY <2>1, <5>1 DEF InPlace, n
        <5> QED
          BY <1>4, <2>2, <5>1, <5>2
      <4>2. CASE i >= n
        <5>1. i = n /\ n # 0 /\ n \in 1 .. n
          BY <1>2, <2>10, <4>2
        <5>2. NextSent = Succ(fifo[n][2])
          BY <2>1, <2>4, <5>1 DEF InPlace, n
        <5> QED
          BY <1>4, <2>2, <3>1, <5>1, <5>2
      <4> QED
        BY <1>2, <4>1, <4>2
    <3>4. NextSent' = Succ(fifo'[Len(fifo')][2])
      BY <1>4, <2>2, <3>1
    <3>5. fifo' # <<>>
      BY <1>4, <2>2
    <3>6. /\ writing' # <<>> => writing'[1].burst[2] = Place(writing'[1].slot)
          /\ \A s \in Slots : mem'[s][1] <= armed' \/ mem'[s][2] = Place(s)
          /\ slot' = slot
      BY <1>1, <2>1 DEF InPlace
    <3> QED
      BY <3>2, <3>3, <3>4, <3>5, <3>6 DEF InPlace, Place, Succ
  <2>6. Fresh'
    <3>1. \A i \in 1 .. n + 1 : i \in 1 .. n \/ i = n + 1
      BY <1>2
    <3>2. \A i \in 1 .. n + 1 : fifo'[i][1] > armed
      BY <1>4, <2>1, <2>2, <2>3, <2>4, <3>1 DEF Fresh
    <3> QED
      BY <1>1, <2>1, <2>4, <3>2 DEF Fresh
  <2>7. FirstLap'
    <3>1. \A i \in 1 .. n : fifo'[i][1] = armed + 1 => slot + i = fifo'[i][2]
      BY <1>4, <2>1, <2>2, <2>4 DEF FirstLap
    <3>2. series = armed + 1 => slot + n = SeriesLen - left
      BY <1>0, <2>1 DEF FirstLap, n
    <3>3. fifo'[n + 1][1] = armed + 1 => slot + (n + 1) = fifo'[n + 1][2]
      <4>1. fifo'[n + 1][1] = series /\ fifo'[n + 1][2] = SeriesLen - left + 1
        BY <1>2, <1>4, <2>2
      <4> QED
        BY <1>2, <3>2, <4>1, Numbers
    <3>4. \A i \in 1 .. n + 1 : i \in 1 .. n \/ i = n + 1
      BY <1>2
    <3>5. \A i \in DOMAIN fifo' : fifo'[i][1] = armed + 1 => slot + i = fifo'[i][2]
      BY <2>4, <3>1, <3>3, <3>4
    <3>6. series = armed + 1 /\ left' > 0 => slot + Len(fifo') = SeriesLen - left'
      BY <1>0, <1>2, <2>10, <3>2, Numbers
    <3>7. writing # <<>> /\ writing[1].burst[1] = armed + 1
              => writing[1].slot + 1 = writing[1].burst[2]
      BY <2>1 DEF FirstLap
    <3> QED
      BY <1>1, <2>3, <3>5, <3>6, <3>7 DEF FirstLap, program
  <2>8. ASSUME NEW k \in 0 .. SeriesLen - 1 PROVE Landed(k)'
    <3>1. CASE mem[k][1] > armed
      BY <1>1, <3>1 DEF Landed
    <3>2. CASE Unsent(k)
      <4>1. series = armed + 1 /\ k >= SeriesLen - left
        BY <2>3, <3>2 DEF Unsent
      <4>2. CASE k = SeriesLen - left
        <5>1. fifo'[n + 1] = <<armed + 1, k + 1>>
          BY <1>4, <2>2, <4>1, <4>2 DEF b
        <5>2. n + 1 \in DOMAIN fifo'
          BY <1>2, <2>4
        <5>3. \E i \in DOMAIN fifo' : fifo'[i] = <<armed' + 1, k + 1>>
          BY <1>1, <5>1, <5>2
        <5> QED
          BY <5>3 DEF Landed
      <4>3. CASE k # SeriesLen - left
        <5>1. left' > 0 /\ k >= SeriesLen - left'
          BY <1>0, <4>1, <4>3, Numbers
        <5> QED
          BY <1>1, <4>1, <5>1 DEF Landed, Unsent
      <4> QED
        BY <4>2, <4>3
    <3>3. ASSUME NEW i \in DOMAIN fifo, fifo[i] = <<armed + 1, k + 1>> PROVE Landed(k)'
      <4>1. i \in DOMAIN fifo' /\ fifo'[i] = fifo[i]
        <5>1. i \in 1 .. n /\ i \in 1 .. n + 1
          BY <1>2, <2>4
        <5> QED
          BY <1>4, <2>2, <2>4, <5>1
      <4> QED
        BY <1>1, <3>3, <4>1 DEF Landed
    <3>4. CASE writing # <<>> /\ writing[1].burst = <<armed + 1, k + 1>>
      BY <1>1, <3>4 DEF Landed
    <3> QED
      BY <2>1, <3>1, <3>2, <3>3, <3>4 DEF Landed
  <2>9. Seen'
    BY <1>1, <2>1 DEF Seen, program
  <2> QED
    BY <2>5, <2>6, <2>7, <2>8, <2>9 DEF Flowing
<1>9. loaded' /\ ~interrupted' => CaptureAfterTrigger'
  BY <1>1 DEF IInv, CaptureAfterTrigger, program
<1> QED
  BY <1>5, <1>6, <1>7, <1>8, <1>9 DEF IInv

\* Only on cores that were not at rest does a word go out while the trigger is
\* held.
LEMMA ReplayKeeps ==
  ASSUME IInv, SendReplay
  PROVE  IInv'
<1> DEFINE n == Len(fifo)
<1>1. /\ ~rx_rst[TRIGGER] /\ stuck /\ replays < MaxReplays /\ replays' = replays + 1
      /\ Push(Replay)
      /\ UNCHANGED <<program, cma, registers, series, left, stuck,
                     writing, slot, mem, history, armed>>
  BY DEF SendReplay
<1>2. ~(loaded /\ pc \in Before) /\ ~(pc \in After)
  BY <1>1 DEF IInv, Control, Quiet, Bits
<1>3. fifo' = fifo \/ (n < Depth /\ fifo' = Append(fifo, Replay))
  BY <1>1 DEF Push
<1>4. fifo \in Seq(Bursts) /\ Replay \in Bursts /\ n \in Nat /\ n <= Depth
  BY BurstFacts, TypeFacts
<1> HIDE DEF n
<1>5. fifo' = Append(fifo, Replay) =>
          /\ fifo' \in Seq(Bursts) /\ Len(fifo') = n + 1 /\ fifo'[n + 1] = Replay
          /\ \A i \in 1 .. n : fifo'[i] = fifo[i]
  BY <1>4, AppendFacts DEF n
<1>6. Typed'
  <2>1. fifo' \in Seq(Bursts) /\ Len(fifo') <= Depth
    <3>1. CASE fifo' = fifo
      BY <3>1, TypeFacts
    <3>2. CASE n < Depth /\ fifo' = Append(fifo, Replay)
      <4>1. fifo' \in Seq(Bursts) /\ Len(fifo') = n + 1 /\ Depth \in Nat /\ n < Depth
        BY <1>5, <3>2, Sizes
      <4> QED
        BY <1>4, <4>1
    <3> QED
      BY <1>3, <3>1, <3>2
  <2>2. stuck' \in BOOLEAN
    BY <1>1 DEF IInv, Typed, StateTyped
  <2>3. replays' \in 0 .. MaxReplays
    <3>1. replays \in 0 .. MaxReplays /\ replays < MaxReplays /\ replays' = replays + 1 /\ MaxReplays \in Nat
      BY <1>1, TypeFacts, Sizes
    <3> QED
      BY <3>1
  <2> QED
    BY <1>1, <2>1, <2>2, <2>3, CoresTyped, TypeFacts
<1>7. NothingNewer'
  <2>1. \A i \in DOMAIN fifo' : fifo'[i][1] <= series
    <3>1. CASE fifo' = fifo
      BY <3>1 DEF IInv, NothingNewer, Past
    <3>2. CASE fifo' = Append(fifo, Replay)
      <4>1. DOMAIN fifo' = 1 .. n + 1 /\ DOMAIN fifo = 1 .. n
        BY <1>4, <1>5, <3>2 DEF n
      <4>2. \A i \in 1 .. n : fifo'[i][1] <= series
        BY <1>5, <3>2, <4>1 DEF IInv, NothingNewer, Past
      <4>3. fifo'[n + 1][1] <= series
        <5>1. fifo'[n + 1][1] = 0
          BY <1>5, <3>2, BurstFacts
        <5> QED
          BY <5>1, Numbers
      <4>4. \A i \in 1 .. n + 1 : i \in 1 .. n \/ i = n + 1
        BY <1>4
      <4> QED
        BY <4>1, <4>2, <4>3, <4>4
    <3> QED
      BY <1>3, <3>1, <3>2
  <2> QED
    BY <1>1, <2>1 DEF IInv, NothingNewer, Past
<1>8. Control'
  BY <1>1, <1>2, CoresControl
<1>9. Flow'
  BY <1>1, <1>2 DEF Flow, program
<1>10. loaded' /\ ~interrupted' => CaptureAfterTrigger'
  BY <1>1 DEF IInv, CaptureAfterTrigger, program
<1> QED
  BY <1>6, <1>7, <1>8, <1>9, <1>10 DEF IInv

LEMMA StartKeeps ==
  ASSUME IInv, StartBurst
  PROVE  IInv'
<1> DEFINE n == Len(fifo)
<1>1. /\ rx_rst[WRITER] /\ fifo # <<>> /\ writing = <<>>
      /\ writing' = <<[burst |-> Head(fifo), slot |-> slot]>>
      /\ fifo' = Tail(fifo) /\ slot' = NextSlot(slot)
      /\ UNCHANGED <<program, cma, registers, adc, mem, armed, lapped>>
  BY DEF StartBurst
<1>2. fifo \in Seq(Bursts) /\ fifo # <<>> /\ n <= Depth
  BY <1>1, TypeFacts
<1>3. /\ fifo' \in Seq(Bursts) /\ Len(fifo') = n - 1 /\ n \in Nat \ {0}
      /\ Head(fifo) = fifo[1] /\ fifo[1] \in Bursts
      /\ \A i \in 1 .. n - 1 : fifo'[i] = fifo[i + 1]
  BY <1>1, <1>2, TailFacts DEF n
<1>4. DOMAIN fifo = 1 .. n /\ DOMAIN fifo' = 1 .. n - 1 /\ 1 \in DOMAIN fifo
  BY <1>2, <1>3 DEF n
<1> HIDE DEF n
<1>5. /\ writing' # <<>> /\ writing'[1].burst = fifo[1] /\ writing'[1].slot = slot
      /\ Len(writing') = 1
  BY <1>1, <1>3
<1>6. slot \in Slots /\ slot' \in Slots /\ Place(slot') = Succ(Place(slot))
  BY <1>1, TypeFacts, PlaceNext
<1>7. Typed'
  <2>1. Len(fifo') <= Depth
    <3>1. Len(fifo') = n - 1 /\ n \in Nat /\ n <= Depth /\ Depth \in Nat
      BY <1>2, <1>3, Sizes
    <3> QED
      BY <3>1
  <2>2. stuck' \in BOOLEAN
    BY <1>1 DEF IInv, Typed, StateTyped, adc
  <2>3. writing' \in Seq(UnderWay)
    <3>1. [burst |-> Head(fifo), slot |-> slot] \in UnderWay
      BY <1>3, <1>6 DEF UnderWay
    <3> QED
      BY <1>1, <3>1
  <2>4. UNCHANGED <<series, left, replays, mem>> /\ Len(writing') <= 1
    BY <1>1, <1>5 DEF adc
  <2> QED
    BY <1>1, <1>3, <1>6, <2>1, <2>2, <2>3, <2>4, CoresTyped, TypeFacts
<1>8. NothingNewer'
  <2>1. \A i \in 1 .. n - 1 : i + 1 \in 1 .. n
    BY <1>3
  <2>2. \A i \in DOMAIN fifo' : fifo'[i][1] <= series
    BY <1>3, <1>4, <2>1 DEF IInv, NothingNewer, Past
  <2>3. writing'[1].burst[1] <= series
    BY <1>4, <1>5 DEF IInv, NothingNewer, Past
  <2> QED
    BY <1>1, <2>2, <2>3 DEF IInv, NothingNewer, Past, adc
<1>9. Control'
  <2>1. ~(loaded /\ pc \in Before)
    BY <1>1 DEF IInv, Control, Quiet
  <2> QED
    BY <1>1, <2>1, CoresControl
<1>10. Flow'
  <2> SUFFICES ASSUME loaded, pc \in After PROVE Flowing' /\ Seen'
    BY <1>1 DEF Flow, program
  <2>1. InPlace /\ Fresh /\ FirstLap /\ Seen /\ \A k \in 0 .. SeriesLen - 1 : Landed(k)
    BY DEF IInv, Flow, Flowing
  <2>2. UNCHANGED <<series, left, armed, mem>>
    BY <1>1 DEF adc
  <2>3. \A i \in 1 .. n - 1 : i \in 1 .. n /\ i + 1 \in 1 .. n
    BY <1>3
  <2>4. InPlace'
    <3>1. NextSent' = NextSent
      BY <2>2 DEF NextSent
    <3>2. fifo[1][2] = Place(slot) /\ NextSent = Succ(fifo[n][2])
      BY <1>1, <2>1 DEF InPlace, n
    <3>3. \A i \in 1 .. n - 1 : fifo[i + 1][2] = Succ(fifo[i][2])
      BY <2>1 DEF InPlace, n
    <3>4. CASE n = 1
      <4>1. fifo' = <<>> /\ Len(fifo') = 0
        BY <1>3, <3>4
      <4>2. NextSent' = Place(slot')
        BY <1>6, <3>1, <3>2, <3>4
      <4>3. 1 .. Len(fifo') - 1 = {}
        BY <4>1
      <4> QED
        BY <1>5, <2>1, <2>2, <3>2, <4>1, <4>2, <4>3 DEF InPlace, Place
    <3>5. CASE n # 1
      <4>1. n - 1 \in 1 .. n - 1 /\ 1 \in 1 .. n - 1 /\ (n - 1) + 1 = n /\ 1 + 1 = 2 /\ fifo' # <<>>
        BY <1>3, <3>5
      <4>2. fifo'[1][2] = Place(slot')
        BY <1>3, <1>6, <3>2, <3>3, <4>1
      <4>3. NextSent' = Succ(fifo'[Len(fifo')][2])
        BY <1>3, <3>1, <3>2, <4>1
      <4>4. ASSUME NEW i \in 1 .. Len(fifo') - 1
            PROVE  fifo'[i + 1][2] = Succ(fifo'[i][2])
        <5>1. i \in 1 .. n - 1 /\ i + 1 \in 1 .. n - 1
          BY <1>3
        <5> QED
          BY <1>3, <3>3, <5>1
      <4> QED
        BY <1>5, <2>1, <2>2, <3>2, <4>1, <4>2, <4>3, <4>4 DEF InPlace, Place
    <3> QED
      BY <3>4, <3>5
  <2>5. Fresh'
    BY <1>3, <1>4, <1>5, <2>1, <2>2, <2>3 DEF Fresh
  <2>6. FirstLap'
    <3>1. series # armed
      BY <1>1, <2>1 DEF FirstLap
    <3>2. \A i \in 1 .. n : fifo[i][1] = armed + 1 => slot + i = fifo[i][2]
      BY <1>4, <2>1 DEF FirstLap
    <3>3. \A i \in 1 .. n : fifo[i][2] <= SeriesLen
      BY <1>4, Members, BurstPlace
    <3>4. ASSUME NEW i \in 1 .. n - 1, fifo'[i][1] = armed + 1
          PROVE  slot' + i = fifo'[i][2]
      <4>1. i \in Nat /\ i >= 1 /\ i + 1 \in 1 .. n /\ fifo'[i] = fifo[i + 1]
        BY <1>3, <2>3
      <4>2. slot + (i + 1) = fifo[i + 1][2] /\ fifo[i + 1][2] <= SeriesLen
        BY <3>2, <3>3, <3>4, <4>1
      <4>3. slot' = slot + 1
        <5>1. slot < Ring - 1
          BY <4>1, <4>2, Numbers
        <5> QED
          BY <1>1, <5>1 DEF NextSlot
      <4> QED
        BY <4>1, <4>2, <4>3, Numbers
    <3>5. fifo[1][1] = armed + 1 => slot + 1 = fifo[1][2]
      BY <1>4, <3>2
    <3>6. series = armed + 1 /\ left > 0 => slot' + Len(fifo') = SeriesLen - left
      <4> SUFFICES ASSUME series = armed + 1, left > 0
                   PROVE  slot' + Len(fifo') = SeriesLen - left
        OBVIOUS
      <4>1. slot + n = SeriesLen - left
        BY <2>1 DEF FirstLap, n
      <4>2. slot' = slot + 1
        <5>1. slot < Ring - 1
          BY <1>3, <4>1, Numbers
        <5> QED
          BY <1>1, <5>1 DEF NextSlot
      <4> QED
        BY <1>3, <4>1, <4>2, Numbers
    <3> QED
      BY <1>4, <1>5, <2>2, <3>1, <3>4, <3>5, <3>6 DEF FirstLap
  <2>7. ASSUME NEW k \in 0 .. SeriesLen - 1 PROVE Landed(k)'
    <3>1. CASE mem[k][1] > armed \/ Unsent(k)
      BY <2>2, <3>1 DEF Landed, Unsent
    <3>2. ASSUME NEW i \in DOMAIN fifo, fifo[i] = <<armed + 1, k + 1>> PROVE Landed(k)'
      <4>1. CASE i = 1
        BY <1>5, <2>2, <3>2, <4>1 DEF Landed
      <4>2. CASE i # 1
        <5>1. i - 1 \in 1 .. n - 1 /\ (i - 1) + 1 = i
          BY <1>3, <1>4, <4>2
        <5>2. i - 1 \in DOMAIN fifo' /\ fifo'[i - 1] = <<armed' + 1, k + 1>>
          BY <1>3, <1>4, <2>2, <3>2, <5>1
        <5> QED
          BY <5>2 DEF Landed
      <4> QED
        BY <4>1, <4>2
    <3> QED
      BY <1>1, <2>1, <3>1, <3>2 DEF Landed
  <2>8. Seen'
    BY <1>1, <2>1 DEF Seen, program
  <2> QED
    BY <2>4, <2>5, <2>6, <2>7, <2>8 DEF Flowing
<1>11. loaded' /\ ~interrupted' => CaptureAfterTrigger'
  BY <1>1 DEF IInv, CaptureAfterTrigger, program
<1> QED
  BY <1>7, <1>8, <1>9, <1>10, <1>11 DEF IInv

LEMMA LandKeeps ==
  ASSUME IInv, LandBurst
  PROVE  IInv'
<1> DEFINE w == writing[1]
<1>1. /\ writing # <<>> /\ mem' = [mem EXCEPT ![w.slot] = w.burst] /\ writing' = <<>>
      /\ UNCHANGED <<program, cma, registers, adc, fifo, slot, history, armed>>
  BY DEF LandBurst
<1>2. w.slot \in Slots /\ w.burst \in Bursts /\ mem \in [Slots -> Bursts]
  BY <1>1, Members, TypeFacts
<1>3. /\ mem' \in [Slots -> Bursts] /\ mem'[w.slot] = w.burst
      /\ \A s \in Slots : s # w.slot => mem'[s] = mem[s]
  BY <1>1, <1>2
<1>4. UNCHANGED <<series, left, replays>>
  BY <1>1 DEF adc
<1>5. Typed'
  <2>1. stuck' \in BOOLEAN
    BY <1>1 DEF IInv, Typed, StateTyped, adc
  <2>2. writing' \in Seq(UnderWay) /\ Len(writing') <= 1
    BY <1>1
  <2> QED
    BY <1>1, <1>3, <1>4, <2>1, <2>2, CoresTyped, TypeFacts
<1>6. NothingNewer'
  BY <1>1, <1>3, <1>4 DEF IInv, NothingNewer, Past
<1>7. Control'
  <2>1. ~(loaded /\ pc \in Before)
    BY <1>1 DEF IInv, Control, Quiet
  <2> QED
    BY <1>1, <2>1, CoresControl
<1>8. Flow'
  <2> SUFFICES ASSUME loaded, pc \in After PROVE Flowing' /\ Seen'
    BY <1>1 DEF Flow, program
  <2>1. InPlace /\ Fresh /\ FirstLap /\ Seen /\ \A k \in 0 .. SeriesLen - 1 : Landed(k)
    BY DEF IInv, Flow, Flowing
  <2>2. w.burst[1] > armed /\ w.burst[2] = Place(w.slot)
    BY <1>1, <2>1 DEF Fresh, InPlace
  <2>3. InPlace'
    <3>1. NextSent' = NextSent
      BY <1>4 DEF NextSent
    <3>2. \A s \in Slots : mem'[s][1] <= armed \/ mem'[s][2] = Place(s)
      BY <1>3, <2>1, <2>2 DEF InPlace
    <3> QED
      BY <1>1, <2>1, <3>1, <3>2 DEF InPlace, Place, Succ
  <2>4. Fresh'
    BY <1>1, <2>1 DEF Fresh
  <2>5. FirstLap'
    BY <1>1, <1>4, <2>1 DEF FirstLap, program
  <2>6. \A s \in Slots : mem[s][1] > armed => mem'[s][1] > armed
    BY <1>3, <2>2
  <2>7. ASSUME NEW k \in 0 .. SeriesLen - 1 PROVE Landed(k)'
    <3>1. k \in Slots
      BY Numbers DEF Slots
    <3>2. CASE mem[k][1] > armed
      BY <1>1, <2>6, <3>1, <3>2 DEF Landed
    <3>3. CASE Unsent(k)
      BY <1>1, <1>4, <3>3 DEF Landed, Unsent
    <3>4. CASE \E i \in DOMAIN fifo : fifo[i] = <<armed + 1, k + 1>>
      BY <1>1, <3>4 DEF Landed
    <3>5. CASE w.burst = <<armed + 1, k + 1>>
      <4>1. w.burst[1] = armed + 1 /\ w.burst[2] = k + 1
        BY <3>5
      <4>2. w.slot + 1 = k + 1
        BY <1>1, <2>1, <4>1 DEF FirstLap
      <4>3. w.slot = k
        BY <1>2, <3>1, <4>2 DEF Slots
      <4>4. mem'[k][1] > armed
        BY <1>3, <2>2, <4>3
      <4> QED
        BY <1>1, <4>4 DEF Landed
    <3> QED
      BY <2>1, <3>2, <3>3, <3>4, <3>5 DEF Landed
  <2>8. Seen'
    <3>1. \A k \in 0 .. SeriesLen - 1 : k \in Slots
      BY Numbers DEF Slots
    <3> QED
      BY <1>1, <2>1, <2>6, <3>1 DEF Seen, program
  <2> QED
    BY <2>3, <2>4, <2>5, <2>7, <2>8 DEF Flowing
<1>9. loaded' /\ ~interrupted' => CaptureAfterTrigger'
  BY <1>1 DEF IInv, CaptureAfterTrigger, program
<1> QED
  BY <1>5, <1>6, <1>7, <1>8, <1>9 DEF IInv

-----------------------------------------------------------------------------
\* The program: series and memory stay, the rest of the cores may be cleared.
LEMMA Truths ==
  ASSUME IInv
  PROVE  /\ loaded \in BOOLEAN /\ interrupted \in BOOLEAN /\ stuck \in BOOLEAN
         /\ ended \in {"none", "failed", "killed", "interrupted", "captured"}
         /\ pc \in {"off", "leave", "drain"} \cup Before \cup After
         /\ pc \notin {"off", "alloc"} => cma = run
  BY DEF IInv, Typed, StateTyped, Before, After

LEMMA ProgramTyped ==
  ASSUME IInv, pc' \in {"off", "leave", "drain"} \cup Before \cup After,
         ended' \in {"none", "failed", "killed", "interrupted", "captured"},
         run' \in 0 .. MaxRuns, cma' \in {0, run'}, rx_addr' \in 0 .. run',
         pc' \notin {"off", "alloc"} => cma' = run',
         loaded' \in BOOLEAN, interrupted' \in BOOLEAN, stuck' \in BOOLEAN,
         rx_rst' \in [{ADC, WRITER, TRIGGER} -> BOOLEAN],
         position' \in Slots, prev_position' \in Slots, slot' \in Slots,
         armed' \in 0 .. series, due' \in 0 .. series,
         UNCHANGED <<series, replays, mem>>,
         left' \in {0, left}, fifo' \in {fifo, <<>>}, writing' \in {writing, <<>>},
         csv' \in Seq(Bursts), Len(csv') <= SeriesLen + 1
  PROVE  Typed'
<1>1. fifo' \in Seq(Bursts) /\ Len(fifo') <= Depth
  <2>1. CASE fifo' = fifo
    BY <2>1, TypeFacts
  <2>2. CASE fifo' = <<>>
    <3>1. fifo' \in Seq(Bursts) /\ Len(fifo') = 0 /\ Depth \in Nat
      BY <2>2, Sizes
    <3> QED
      BY <3>1
  <2> QED
    BY <2>1, <2>2
<1>2. writing' \in Seq(UnderWay) /\ Len(writing') <= 1
  <2>1. CASE writing' = writing
    BY <2>1, TypeFacts
  <2>2. CASE writing' = <<>>
    BY <2>2
  <2> QED
    BY <2>1, <2>2
<1>3. left' \in 0 .. SeriesLen /\ (left' > 0 => series > 0)
  BY Numbers
<1>4. /\ replays' \in 0 .. MaxReplays /\ mem' \in [Slots -> Bursts]
      /\ series' = series /\ series \in Nat /\ series <= MaxSeries
  BY TypeFacts
<1> QED
  BY <1>1, <1>2, <1>3, <1>4 DEF Typed, StateTyped, Before, After

\* Bursts that were there, or none.
LEMMA StillOld ==
  ASSUME IInv, UNCHANGED <<series, mem>>, fifo' \in {fifo, <<>>}, writing' \in {writing, <<>>}
  PROVE  NothingNewer'
<1>1. \A i \in DOMAIN fifo' : Past(fifo'[i])
  <2>1. CASE fifo' = fifo
    BY <2>1 DEF IInv, NothingNewer
  <2>2. CASE fifo' = <<>>
    BY <2>2
  <2> QED
    BY <2>1, <2>2
<1>2. writing' # <<>> => Past(writing'[1].burst)
  <2>1. CASE writing' = writing
    BY <2>1 DEF IInv, NothingNewer
  <2> QED
    BY <2>1
<1> QED
  BY <1>1, <1>2 DEF IInv, NothingNewer, Past

\* A step of the setting up, before the trigger is released.
LEMMA SettingKeeps ==
  ASSUME IInv, pc \in Before, pc' \in Before \ {"alloc"}, cma' = run,
         UNCHANGED <<data, armed, series, replays, mem>>,
         rx_rst' \in [{ADC, WRITER, TRIGGER} -> BOOLEAN], rx_rst'[TRIGGER] => rx_rst[TRIGGER],
         stuck' \in BOOLEAN, stuck' => stuck \/ left > 0,
         left' \in {0, left}, fifo' \in {fifo, <<>>}, writing' \in {writing, <<>>},
         slot' \in {slot, 0}, Bits', Idle',
         pc' \in Unconfigured => pc \in Unconfigured /\ rx_addr' = rx_addr,
         pc' \notin Unconfigured => rx_addr' = run
  PROVE  IInv'
<1>1. Typed'
  <2>1. slot' \in Slots /\ rx_addr' \in 0 .. run /\ run \in 0 .. MaxRuns
    <3>1. 0 \in Slots /\ run \in 0 .. run /\ run \in 0 .. MaxRuns
      <4>1. run \in Nat /\ Ring \in Nat /\ Ring >= 1 /\ run \in 0 .. MaxRuns
        BY TypeFacts, Sizes
      <4> QED
        BY <4>1 DEF Slots
    <3>2. slot \in Slots /\ rx_addr \in 0 .. run
      BY TypeFacts
    <3>3. rx_addr' \in {rx_addr, run}
      OBVIOUS
    <3> QED
      BY <3>1, <3>2, <3>3
  <2>2. /\ position \in Slots /\ prev_position \in Slots /\ armed \in 0 .. series
        /\ due \in 0 .. series /\ csv \in Seq(Bursts) /\ Len(csv) <= SeriesLen + 1
    BY TypeFacts
  <2> QED
    BY <2>1, <2>2, Truths, ProgramTyped DEF data
<1>2. NothingNewer'
  BY StillOld
<1>3. Quiet'
  <2> SUFFICES ASSUME loaded
               PROVE  /\ writing' = <<>> /\ fifo' = <<>> /\ left' = 0 /\ ~stuck'
                      /\ slot' = 0 /\ position' = 0 /\ ~rx_rst'[TRIGGER]
    BY DEF Quiet, data
  <2>1. /\ writing = <<>> /\ fifo = <<>> /\ left = 0 /\ ~stuck
        /\ slot = 0 /\ position = 0 /\ ~rx_rst[TRIGGER]
    BY DEF IInv, Control, Quiet
  <2>2. ~stuck'
    <3>1. ~(left > 0)
      BY <2>1
    <3> QED
      BY <2>1, <3>1
  <2> QED
    BY <2>1, <2>2 DEF data
<1>4. Owner'
  BY DEF IInv, Control, Owner, data, Unconfigured, Before
<1>5. Empty'
  BY DEF IInv, Control, Empty, data, Before
<1>6. Flow'
  BY DEF Flow, Before, After
<1>7. loaded' /\ ~interrupted' => CaptureAfterTrigger'
  BY DEF IInv, CaptureAfterTrigger, data
<1> QED
  BY <1>1, <1>2, <1>3, <1>4, <1>5, <1>6, <1>7 DEF IInv, Control

LEMMA Bit ==
  ASSUME IInv, NEW b \in {ADC, WRITER, TRIGGER}
  PROVE  /\ Set(b) => /\ rx_rst' \in [{ADC, WRITER, TRIGGER} -> BOOLEAN] /\ rx_rst'[b]
                      /\ \A c \in {ADC, WRITER, TRIGGER} \ {b} : rx_rst'[c] = rx_rst[c]
         /\ Clear(b) => /\ rx_rst' \in [{ADC, WRITER, TRIGGER} -> BOOLEAN] /\ ~rx_rst'[b]
                        /\ \A c \in {ADC, WRITER, TRIGGER} \ {b} : rx_rst'[c] = rx_rst[c]
BY TypeFacts DEF Set, Clear

\* The registers as they are.
LEMMA Registers ==
  ASSUME IInv
  PROVE  /\ ADC \in {ADC, WRITER, TRIGGER} /\ WRITER \in {ADC, WRITER, TRIGGER}
         /\ TRIGGER \in {ADC, WRITER, TRIGGER}
         /\ ADC # WRITER /\ ADC # TRIGGER /\ WRITER # TRIGGER
         /\ rx_rst \in [{ADC, WRITER, TRIGGER} -> BOOLEAN]
         /\ pc \in Before \ Unconfigured => rx_addr = run
BY Sizes, TypeFacts DEF IInv, Control, Owner, Before, Unconfigured

LEMMA ResetAdcKeeps ==
  ASSUME IInv, ResetAdc
  PROVE  IInv'
<1>1. /\ pc = "adc_low" /\ pc' = "writer_low" /\ Clear(ADC) /\ HoldAdc
      /\ UNCHANGED <<data, cma, rx_addr, writer, armed>>
  BY DEF ResetAdc, Goto
<1>2. /\ rx_rst' \in [{ADC, WRITER, TRIGGER} -> BOOLEAN] /\ ~rx_rst'[ADC]
      /\ rx_rst'[TRIGGER] = rx_rst[TRIGGER]
  BY <1>1, Bit, Registers
<1>3. stuck' = FALSE /\ left' = 0 /\ UNCHANGED <<series, replays, mem, fifo, writing, slot>>
  BY <1>1 DEF HoldAdc, writer
<1>4. Bits' /\ Idle'
  <2>1. rx_rst'[WRITER] = rx_rst[WRITER]
    BY <1>1, Bit, Registers
  <2> QED
    BY <1>1, <1>2, <1>3, <2>1 DEF IInv, Control, Idle, Resting, Abandoned, data, Bits, After
<1>5. pc \in Before /\ pc' \in Before \ {"alloc"} /\ pc' \in Unconfigured /\ pc \in Unconfigured
  BY <1>1 DEF Before, Unconfigured
<1>6. cma' = run
  BY <1>1, Truths
<1> QED
  BY <1>1, <1>2, <1>3, <1>4, <1>5, <1>6, Truths, SettingKeeps

LEMMA ResetWriterKeeps ==
  ASSUME IInv, ResetWriter
  PROVE  IInv'
<1>1. /\ pc = "writer_low" /\ pc' = "configure" /\ Clear(WRITER) /\ HoldWriter
      /\ UNCHANGED <<data, cma, rx_addr, adc, armed>>
  BY DEF ResetWriter, Goto
<1>2. /\ rx_rst' \in [{ADC, WRITER, TRIGGER} -> BOOLEAN] /\ ~rx_rst'[WRITER]
      /\ rx_rst'[TRIGGER] = rx_rst[TRIGGER] /\ rx_rst'[ADC] = rx_rst[ADC]
  BY <1>1, Bit, Registers
<1>3. fifo' = <<>> /\ writing' = <<>> /\ slot' = 0 /\ mem' = mem
  BY <1>1 DEF HoldWriter
<1>4. Bits' /\ Idle'
  BY <1>1, <1>2, <1>3 DEF IInv, Control, Bits, After, Idle, Resting
<1>5. pc \in Before /\ pc' \in Before \ {"alloc"} /\ pc' \in Unconfigured /\ pc \in Unconfigured
  BY <1>1 DEF Before, Unconfigured
<1>6. cma' = run /\ UNCHANGED <<series, left, stuck, replays>>
  BY <1>1, Truths DEF adc
<1> QED
  BY <1>1, <1>2, <1>3, <1>4, <1>5, <1>6, Truths, SettingKeeps

LEMMA ConfigureKeeps ==
  ASSUME IInv, Configure
  PROVE  IInv'
<1>1. /\ pc = "configure" /\ pc' = "adc_high" /\ rx_addr' = run
      /\ UNCHANGED <<data, cma, rx_rst, adc, writer, armed>>
  BY DEF Configure, Goto
<1>2. Bits' /\ Idle'
  BY <1>1 DEF Bits, After, Idle, Resting
<1>3. pc \in Before /\ pc' \in Before \ {"alloc"} /\ pc' \notin Unconfigured
  BY <1>1 DEF Before, Unconfigured
<1>4. /\ cma' = run /\ UNCHANGED <<series, left, stuck, replays>>
      /\ UNCHANGED <<fifo, writing, slot, mem>>
  BY <1>1, Truths DEF adc, writer
<1> QED
  BY <1>1, <1>2, <1>3, <1>4, Truths, Registers, SettingKeeps

LEMMA ReleaseAdcKeeps ==
  ASSUME IInv, ReleaseAdc
  PROVE  IInv'
<1>1. /\ pc = "adc_high" /\ pc' = "writer_high" /\ Set(ADC)
      /\ UNCHANGED <<data, cma, rx_addr, adc, writer, armed>>
  BY DEF ReleaseAdc, Goto
<1>2. /\ rx_rst' \in [{ADC, WRITER, TRIGGER} -> BOOLEAN] /\ rx_rst'[ADC]
      /\ rx_rst'[TRIGGER] = rx_rst[TRIGGER]
  BY <1>1, Bit, Registers
<1>3. Bits' /\ Idle'
  BY <1>1, <1>2 DEF Bits, After, Idle, Resting
<1>4. pc \in Before \ Unconfigured /\ pc' \in Before \ {"alloc"} /\ pc' \notin Unconfigured
  BY <1>1 DEF Before, Unconfigured
<1>5. /\ cma' = run /\ rx_addr' = run /\ UNCHANGED <<series, left, stuck, replays>>
      /\ UNCHANGED <<fifo, writing, slot, mem>>
  BY <1>1, <1>4, Truths, Registers DEF adc, writer
<1> QED
  BY <1>1, <1>2, <1>3, <1>4, <1>5, Truths, SettingKeeps

LEMMA ReleaseWriterKeeps ==
  ASSUME IInv, ReleaseWriter
  PROVE  IInv'
<1>1. /\ pc = "writer_high" /\ pc' = "trigger_low" /\ Set(WRITER)
      /\ UNCHANGED <<data, cma, rx_addr, adc, writer, armed>>
  BY DEF ReleaseWriter, Goto
<1>2. /\ rx_rst' \in [{ADC, WRITER, TRIGGER} -> BOOLEAN] /\ rx_rst'[WRITER]
      /\ rx_rst'[TRIGGER] = rx_rst[TRIGGER] /\ rx_rst'[ADC] = rx_rst[ADC]
  BY <1>1, Bit, Registers
<1>3. Bits' /\ Idle'
  BY <1>1, <1>2 DEF IInv, Control, Bits, After, Idle, Resting
<1>4. pc \in Before \ Unconfigured /\ pc' \in Before \ {"alloc"} /\ pc' \notin Unconfigured
  BY <1>1 DEF Before, Unconfigured
<1>5. /\ cma' = run /\ rx_addr' = run /\ UNCHANGED <<series, left, stuck, replays>>
      /\ UNCHANGED <<fifo, writing, slot, mem>>
  BY <1>1, <1>4, Truths, Registers DEF adc, writer
<1> QED
  BY <1>1, <1>2, <1>3, <1>4, <1>5, Truths, SettingKeeps

LEMMA ResetTriggerKeeps ==
  ASSUME IInv, ResetTrigger
  PROVE  IInv'
<1>1. /\ pc = "trigger_low" /\ pc' = "trigger_high" /\ Clear(TRIGGER) /\ HoldTrigger
      /\ UNCHANGED <<data, cma, rx_addr, writer, armed>>
  BY DEF ResetTrigger, Goto
<1>2. /\ rx_rst' \in [{ADC, WRITER, TRIGGER} -> BOOLEAN] /\ ~rx_rst'[TRIGGER]
      /\ rx_rst'[WRITER] = rx_rst[WRITER] /\ rx_rst'[ADC] = rx_rst[ADC]
  BY <1>1, Bit, Registers
<1>3. Bits' /\ Idle'
  BY <1>1, <1>2 DEF IInv, Control, Bits, After, Idle, Resting
<1>4. pc \in Before \ Unconfigured /\ pc' \in Before \ {"alloc"} /\ pc' \notin Unconfigured
  BY <1>1 DEF Before, Unconfigured
<1>5. cma' = run /\ rx_addr' = run /\ UNCHANGED <<fifo, writing, slot, mem>>
  BY <1>1, <1>4, Truths, Registers DEF writer
<1>6. /\ left' = 0 /\ stuck' \in BOOLEAN /\ (stuck' => stuck \/ left > 0)
      /\ UNCHANGED <<series, replays>>
  <2>1. left' = 0 /\ stuck' = (left > 0) /\ UNCHANGED <<series, replays>>
    BY <1>1 DEF HoldTrigger
  <2>2. stuck' \in BOOLEAN /\ (stuck' => left > 0)
    <3>1. stuck' \in BOOLEAN
      <4>1. left \in Nat
        BY Numbers
      <4> QED
        BY <2>1, <4>1, SMT
    <3>2. stuck' => left > 0
      BY <2>1, Zenon
    <3> QED
      BY <3>1, <3>2
  <2> QED
    BY <2>1, <2>2
<1> QED
  BY <1>1, <1>2, <1>3, <1>4, <1>5, <1>6, Truths, SettingKeeps

\* The trigger is released on cores at rest: from now on every burst that the
\* ADC sends belongs to this run.
LEMMA ReleaseTriggerKeeps ==
  ASSUME IInv, ReleaseTrigger
  PROVE  IInv'
<1>1. /\ pc = "trigger_high" /\ pc' = "poll" /\ Set(TRIGGER) /\ stuck' = FALSE /\ armed' = series
      /\ UNCHANGED <<data, cma, rx_addr, series, left, replays, writer>>
  BY DEF ReleaseTrigger, Goto
<1>2. /\ rx_rst' \in [{ADC, WRITER, TRIGGER} -> BOOLEAN] /\ rx_rst'[TRIGGER]
      /\ rx_rst'[WRITER] = rx_rst[WRITER] /\ rx_rst'[ADC] = rx_rst[ADC]
  BY <1>1, Bit, Registers
<1>3. pc \in Before \ Unconfigured /\ pc' \notin Before /\ pc' \notin Unconfigured
  BY <1>1 DEF Before, Unconfigured
<1>4. UNCHANGED <<fifo, writing, slot, mem>>
  BY <1>1 DEF writer
<1>5. Typed'
  <2>1. pc' \in {"off", "leave", "drain"} \cup Before \cup After /\ cma' = run
    BY <1>1, Truths DEF After
  <2>2. armed' \in 0 .. series /\ rx_addr' \in 0 .. run' /\ run' \in 0 .. MaxRuns
    <3>1. series \in 0 .. series
      BY Numbers
    <3> QED
      BY <1>1, <3>1, TypeFacts DEF data
  <2>3. /\ position' \in Slots /\ prev_position' \in Slots /\ slot' \in Slots
        /\ due' \in 0 .. series /\ csv' \in Seq(Bursts) /\ Len(csv') <= SeriesLen + 1
    BY <1>1, <1>4, TypeFacts DEF data
  <2> QED
    BY <1>1, <1>2, <1>4, <2>1, <2>2, <2>3, Truths, ProgramTyped DEF data
<1>6. NothingNewer'
  BY <1>1, <1>4, StillOld
<1>7. Control'
  <2>1. Bits'
    BY <1>1, <1>2 DEF IInv, Control, Bits, After
  <2>2. Owner'
    BY <1>1, <1>3, Registers DEF IInv, Control, Owner, data, Unconfigured
  <2>3. Quiet' /\ Empty' /\ Idle'
    BY <1>1, <1>3 DEF IInv, Control, Quiet, Empty, Idle, Resting, data
  <2> QED
    BY <2>1, <2>2, <2>3 DEF Control
<1>8. Flow'
  <2> SUFFICES ASSUME loaded PROVE Flowing' /\ Seen'
    BY <1>1 DEF Flow, data
  <2>1. writing = <<>> /\ fifo = <<>> /\ left = 0 /\ slot = 0 /\ position = 0
    BY <1>3 DEF IInv, Control, Quiet
  <2>2. writing' = <<>> /\ fifo' = <<>> /\ left' = 0 /\ slot' = 0 /\ position' = 0
        /\ series' = series /\ mem' = mem
    BY <1>1, <1>4, <2>1 DEF data
  <2>3. DOMAIN fifo' = {} /\ 1 .. Len(fifo') - 1 = {} /\ ~(left' > 0)
    BY <2>2
  <2>4. Place(0) = 1
    <3>1. 0 \in Slots
      BY <2>1, TypeFacts
    <3> QED
      BY <3>1, PlaceNext
  <2>5. InPlace'
    <3>1. \A s \in Slots : mem'[s][1] <= armed'
      BY <1>1, <2>2 DEF IInv, NothingNewer, Past
    <3>2. NextSent' = Place(slot')
      BY <2>2, <2>4 DEF NextSent
    <3> QED
      BY <2>2, <2>3, <3>1, <3>2 DEF InPlace, Place
  <2>6. Fresh'
    BY <2>2, <2>3 DEF Fresh
  <2>7. FirstLap'
    BY <2>2, <2>3 DEF FirstLap
  <2>8. \A k \in 0 .. SeriesLen - 1 : Landed(k)'
    BY <1>1, <2>2 DEF Landed, Unsent
  <2>9. Seen'
    BY <1>1 DEF Seen
  <2> QED
    BY <2>5, <2>6, <2>7, <2>8, <2>9 DEF Flowing
<1>9. loaded' /\ ~interrupted' => CaptureAfterTrigger'
  <2>1. csv' = <<>>
    BY <1>1 DEF IInv, Control, Empty, data
  <2> QED
    BY <2>1 DEF CaptureAfterTrigger
<1> QED
  BY <1>5, <1>6, <1>7, <1>8, <1>9 DEF IInv

\* The process is gone, the cores are as they were, and so is the file.
LEMMA ExitKeeps ==
  ASSUME IInv, NEW how \in {"failed", "killed", "captured"}, Exit(how),
         UNCHANGED <<registers, adc, writer, armed>>
  PROVE  IInv'
<1>1. /\ pc' = "off" /\ ended' = how /\ cma' = 0
      /\ UNCHANGED <<run, loaded, interrupted, prev_position, position, due, csv>>
  BY DEF Exit
<1>2. UNCHANGED <<rx_rst, rx_addr, series, left, stuck, replays, fifo, writing, slot, mem>>
  BY DEF registers, adc, writer
<1>3. Typed'
  BY <1>1, <1>2, TypeFacts, Truths, ProgramTyped
<1>4. NothingNewer'
  BY <1>2, StillOld
<1>5. Control'
  BY <1>1 DEF Control, Bits, Quiet, Owner, Idle, Resting, Abandoned, Empty, Before, After, Unconfigured
<1>6. Flow'
  BY <1>1 DEF Flow, After
<1>7. loaded' /\ ~interrupted' => CaptureAfterTrigger'
  BY <1>1 DEF IInv, CaptureAfterTrigger
<1> QED
  BY <1>3, <1>4, <1>5, <1>6, <1>7 DEF IInv

LEMMA AllocKeeps ==
  ASSUME IInv, Alloc
  PROVE  IInv'
<1>1. CASE pc' = "adc_low" /\ cma' = run /\ UNCHANGED data
  <2>1. pc = "alloc" /\ UNCHANGED <<registers, adc, writer, armed>>
    BY DEF Alloc
  <2>2. UNCHANGED <<rx_rst, rx_addr, series, left, stuck, replays, fifo, writing, slot, mem>>
    BY <2>1 DEF registers, adc, writer
  <2>3. /\ pc \in Before /\ pc' \in Before \ {"alloc"}
        /\ pc \in Unconfigured /\ pc' \in Unconfigured
    BY <1>1, <2>1 DEF Before, Unconfigured
  <2>4. Bits' /\ Idle'
    BY <1>1, <2>1, <2>2 DEF Bits, After, IInv, Control, Idle, Resting, Abandoned, data
  <2> QED
    BY <1>1, <2>1, <2>2, <2>3, <2>4, Truths, Registers, SettingKeeps
<1>2. CASE Exit("failed")
  BY <1>2, ExitKeeps DEF Alloc
<1> QED
  BY <1>1, <1>2 DEF Alloc

\* The process is gone, and the writer with it.
LEMMA FinishKeeps ==
  ASSUME IInv, Finish
  PROVE  IInv'
<1>1. /\ pc' = "off" /\ ended' = "interrupted" /\ cma' = 0 /\ Clear(WRITER) /\ HoldWriter
      /\ UNCHANGED <<run, loaded, interrupted, prev_position, position, due, csv>>
      /\ UNCHANGED <<rx_addr, adc, armed>>
  BY DEF Finish, Exit
<1>2. /\ fifo' = <<>> /\ writing' = <<>> /\ slot' = 0
      /\ UNCHANGED <<series, left, stuck, replays, mem>>
  BY <1>1 DEF HoldWriter, adc
<1>3. rx_rst' \in [{ADC, WRITER, TRIGGER} -> BOOLEAN] /\ ~rx_rst'[WRITER]
  BY <1>1, Bit, Registers
<1>4. Typed'
  <2>1. 0 \in Slots
    BY Numbers DEF Slots
  <2> QED
    BY <1>1, <1>2, <1>3, <2>1, TypeFacts, Truths, ProgramTyped
<1>5. NothingNewer'
  BY <1>2, StillOld
<1>6. Control'
  BY <1>1, <1>2, <1>3 DEF Control, Bits, Quiet, Owner, Idle, Resting, Abandoned, Empty, Before, After, Unconfigured
<1>7. Flow'
  BY <1>1 DEF Flow, After
<1>8. loaded' /\ ~interrupted' => CaptureAfterTrigger'
  BY <1>1 DEF IInv, CaptureAfterTrigger
<1> QED
  BY <1>4, <1>5, <1>6, <1>7, <1>8 DEF IInv

LEMMA LeavingKeeps ==
  ASSUME IInv, pc \in {"poll", "leave"}, pc' \in {"leave", "drain"},
         rx_rst' \in [{ADC, WRITER, TRIGGER} -> BOOLEAN],
         left' \in {0, left}, stuck' \in {FALSE, stuck}, UNCHANGED <<series, replays>>,
         UNCHANGED <<data, cma, rx_addr, fifo, writing, slot, mem, armed>>
  PROVE  IInv'
<1>1. Typed'
  <2>1. stuck' \in BOOLEAN /\ pc' \in {"off", "leave", "drain"} \cup Before \cup After
    BY Truths
  <2>2. cma' \in {0, run'} /\ cma' = run'
    BY Truths DEF data
  <2> QED
    BY <2>1, <2>2, TypeFacts, Truths, ProgramTyped DEF data
<1>2. NothingNewer'
  BY StillOld
<1>3. Control'
  <2>1. Bits' /\ Quiet' /\ Idle'
    BY DEF Bits, Quiet, Idle, Resting, Before, After
  <2>2. Owner'
    BY DEF IInv, Control, Owner, Unconfigured, data
  <2>3. Empty'
    BY DEF IInv, Control, Empty, data
  <2> QED
    BY <2>1, <2>2, <2>3 DEF Control
<1>4. Flow'
  BY DEF Flow, After
<1>5. loaded' /\ ~interrupted' => CaptureAfterTrigger'
  BY DEF IInv, CaptureAfterTrigger, data
<1> QED
  BY <1>1, <1>2, <1>3, <1>4, <1>5 DEF IInv

LEMMA StopKeeps ==
  ASSUME IInv, Stop
  PROVE  IInv'
<1>1. /\ pc = "poll" /\ pc' = "leave"
      /\ UNCHANGED <<data, cma, registers, adc, writer, armed>>
  BY DEF Stop, Goto
<1> QED
  BY <1>1, Registers, LeavingKeeps DEF registers, adc, writer

LEMMA StopAdcKeeps ==
  ASSUME IInv, StopAdc
  PROVE  IInv'
<1>1. /\ pc = "leave" /\ pc' = "drain" /\ Clear(ADC) /\ HoldAdc
      /\ UNCHANGED <<data, cma, rx_addr, writer, armed>>
  BY DEF StopAdc, Goto
<1>2. rx_rst' \in [{ADC, WRITER, TRIGGER} -> BOOLEAN]
  BY <1>1, Bit, Registers
<1> QED
  BY <1>1, <1>2, LeavingKeeps DEF HoldAdc, writer

\* A new run: with the bitstream everything is at rest; without it the writer
\* still points to the buffer of an earlier run.
LEMMA NewRunKeeps ==
  ASSUME IInv, NewRun
  PROVE  IInv'
<1>1. /\ pc = "off" /\ run < MaxRuns /\ pc' = "alloc" /\ run' = run + 1 /\ loaded' \in Loads
      /\ interrupted' = FALSE /\ prev_position' = 0 /\ position' = 0 /\ due' = 0
      /\ csv' = <<>> /\ UNCHANGED <<cma, armed>>
      /\ IF loaded' THEN LoadBitstream /\ ended' = "none"
                    ELSE UNCHANGED <<registers, adc, writer, ended>>
  BY DEF NewRun
<1>2. \/ /\ loaded' /\ rx_rst' = AllLow /\ rx_addr' = 0 /\ left' = 0 /\ stuck' = FALSE
         /\ fifo' = <<>> /\ writing' = <<>> /\ slot' = 0 /\ ended' = "none"
         /\ UNCHANGED <<series, replays, mem>>
      \/ /\ ~loaded' /\ ended' = ended
         /\ UNCHANGED <<rx_rst, rx_addr, series, left, stuck, replays, fifo, writing, slot, mem>>
  BY <1>1 DEF LoadBitstream, HoldAdc, HoldWriter, registers, adc, writer
<1>3. UNCHANGED <<series, replays, mem>>
  BY <1>2
<1>4. rx_addr \in 0 .. run /\ run \in Nat /\ MaxRuns \in Nat /\ run' = run + 1 /\ run < MaxRuns
  BY <1>1, TypeFacts, Sizes
<1>5. Typed'
  <2>1. rx_addr' \in {0, rx_addr}
    BY <1>2
  <2>2. run' \in 0 .. MaxRuns /\ rx_addr' \in 0 .. run'
    BY <1>4, <2>1
  <2>3. cma' \in {0, run'}
    <3>1. cma = 0
      <4>1. pc = "off" => cma = 0
        BY DEF IInv, Control, Owner
      <4> QED
        BY <1>1, <4>1
    <3> QED
      BY <1>1, <3>1
  <2>4. rx_rst' \in [{ADC, WRITER, TRIGGER} -> BOOLEAN] /\ stuck' \in BOOLEAN
    BY <1>2, TypeFacts, Truths DEF AllLow
  <2>5. 0 \in Slots /\ 0 \in 0 .. series
    BY Numbers DEF Slots
  <2>6. slot' \in Slots /\ left' \in {0, left} /\ fifo' \in {fifo, <<>>} /\ writing' \in {writing, <<>>}
    BY <1>2, <2>5, TypeFacts
  <2>7. csv' \in Seq(Bursts) /\ Len(csv') <= SeriesLen + 1
    BY <1>1, Sizes
  <2>8. /\ loaded' \in BOOLEAN /\ pc' \in {"off", "leave", "drain"} \cup Before \cup After
        /\ ended' \in {"none", "failed", "killed", "interrupted", "captured"}
    BY <1>1, <1>2, Sizes, Truths DEF Before
  <2> QED
    BY <1>1, <1>3, <2>2, <2>3, <2>4, <2>5, <2>6, <2>7, <2>8, TypeFacts, ProgramTyped
<1>6. NothingNewer'
  <2>1. fifo' \in {fifo, <<>>} /\ writing' \in {writing, <<>>}
    BY <1>2
  <2> QED
    BY <1>3, <2>1, StillOld
<1>7. Control'
  <2>1. Bits' /\ Empty'
    BY <1>1 DEF Bits, Empty, After
  <2>2. Quiet'
    BY <1>1, <1>2 DEF Quiet, AllLow, TRIGGER
  <2>3. ~loaded' => rx_addr' # run'
    <3>1. rx_addr # run + 1
      BY <1>4
    <3> QED
      BY <1>2, <1>4, <3>1
  <2>4. Owner'
    BY <1>1, <2>3 DEF Owner, Unconfigured
  <2>5. Idle'
    BY <1>1, <1>2 DEF IInv, Control, Idle, Resting, Abandoned, AllLow, WRITER
  <2> QED
    BY <2>1, <2>2, <2>4, <2>5 DEF Control
<1>8. Flow'
  BY <1>1 DEF Flow, After
<1>9. loaded' /\ ~interrupted' => CaptureAfterTrigger'
  BY <1>1 DEF CaptureAfterTrigger
<1> QED
  BY <1>5, <1>6, <1>7, <1>8, <1>9 DEF IInv

\* The program looks on: the cores, the registers and the run stay.
LEMMA LookingKeeps ==
  ASSUME IInv, UNCHANGED <<cma, registers, adc, fifo, writing, slot, mem, armed, run, loaded, ended>>,
         pc' = pc \/ pc \in After, pc' \in {pc} \cup After, pc' # "off",
         interrupted' \in BOOLEAN, position' \in Slots, prev_position' \in Slots,
         due' \in 0 .. series, csv' \in Seq(Bursts), Len(csv') <= SeriesLen + 1,
         pc \in Before => position' = position,
         csv' = <<>> \/ pc' = "dump",
         loaded /\ pc \in After /\ Flowing /\ Seen
            => Seen' /\ (series = armed => position' = 0)
                     /\ (interrupted' \/ CaptureAfterTrigger'),
         pc \notin After => csv' = <<>>
  PROVE  IInv'
<1>1. UNCHANGED <<rx_rst, rx_addr, series, left, stuck, replays, fifo, writing, slot, mem>>
  BY DEF registers, adc
<1>2. pc # "off" /\ cma' = cma
  BY DEF After
<1>3. Typed'
  <2>1. pc' \in {"off", "leave", "drain"} \cup Before \cup After
    BY Truths
  <2>2. cma' \in {0, run'} /\ (pc' \notin {"off", "alloc"} => cma' = run')
    BY <1>2, TypeFacts, Truths DEF After
  <2> QED
    BY <1>1, <2>1, <2>2, TypeFacts, Truths, ProgramTyped
<1>4. NothingNewer'
  BY <1>1, StillOld
<1>5. Control'
  <2>1. Bits'
    BY <1>1 DEF IInv, Control, Bits, After
  <2>2. Quiet'
    BY <1>1 DEF IInv, Control, Quiet, Before, After
  <2>3. Owner'
    BY <1>1 DEF IInv, Control, Owner, Unconfigured, After
  <2>4. Empty'
    BY DEF Empty
  <2>5. Idle'
    BY <1>1 DEF IInv, Control, Idle, Resting, Abandoned, After
  <2> QED
    BY <2>1, <2>2, <2>3, <2>4, <2>5 DEF Control
<1>6. ASSUME loaded', pc' \in After PROVE pc \in After /\ Flowing /\ Seen
  BY <1>6 DEF IInv, Flow
<1>7. Flow'
  <2> SUFFICES ASSUME loaded', pc' \in After PROVE Flowing' /\ Seen'
    BY DEF Flow
  <2>1. Flowing /\ Seen' /\ (series = armed => position' = 0)
    BY <1>6
  <2>2. NextSent' = NextSent
    BY <1>1 DEF NextSent
  <2>3. InPlace'
    BY <1>1, <2>1, <2>2 DEF Flowing, InPlace, Place, Succ
  <2>4. Fresh'
    BY <1>1, <2>1 DEF Flowing, Fresh
  <2>5. FirstLap'
    BY <1>1, <2>1 DEF Flowing, FirstLap
  <2>6. ASSUME NEW k \in 0 .. SeriesLen - 1 PROVE Landed(k)'
    <3>1. Landed(k)
      BY <2>1 DEF Flowing
    <3> QED
      BY <1>1, <3>1 DEF Landed, Unsent
  <2> QED
    BY <2>1, <2>3, <2>4, <2>5, <2>6 DEF Flowing
<1>8. loaded' /\ ~interrupted' => CaptureAfterTrigger'
  <2>1. CASE csv' = <<>>
    BY <2>1 DEF CaptureAfterTrigger
  <2>2. CASE pc' = "dump"
    <3>1. ASSUME loaded' PROVE ~interrupted' => CaptureAfterTrigger'
      BY <1>6, <2>2, <3>1 DEF After
    <3> QED
      BY <3>1
  <2> QED
    BY <2>1, <2>2
<1> QED
  BY <1>3, <1>4, <1>5, <1>7, <1>8 DEF IInv

\* The file is as it should be so far.
LEMMA SoFar ==
  ASSUME IInv
  PROVE  /\ pc \notin {"dump", "off"} => csv = <<>>
         /\ loaded /\ ~interrupted => CaptureAfterTrigger
BY DEF IInv, Control, Empty

LEMMA PollKeeps ==
  ASSUME IInv, Poll
  PROVE  IInv'
<1>1. /\ pc = "poll" /\ prev_position' = position /\ position' = slot /\ due' = series
      /\ pc' = IF prev_position' # position' THEN "settle" ELSE "poll"
      /\ UNCHANGED <<run, loaded, interrupted, csv, ended, cma, registers, adc>>
      /\ UNCHANGED <<fifo, writing, slot, mem, armed>>
  BY DEF Poll
<1>2. /\ position' \in Slots /\ prev_position' \in Slots /\ due' \in 0 .. series
      /\ csv' \in Seq(Bursts) /\ Len(csv') <= SeriesLen + 1 /\ interrupted' \in BOOLEAN
  <2>1. series \in 0 .. series
    BY Numbers
  <2> QED
    BY <1>1, <2>1, TypeFacts, Truths
<1>3. csv' = <<>> /\ CaptureAfterTrigger'
  <2>1. csv' = <<>>
    BY <1>1, SoFar
  <2> QED
    BY <2>1 DEF CaptureAfterTrigger
<1>4. ASSUME FirstLap PROVE Seen' /\ (series = armed => position' = 0)
  <2>1. series = armed => slot = 0 /\ position = 0
    BY <1>4 DEF FirstLap
  <2>2. pc' = "settle" => due' > armed'
    <3>1. pc' = "settle" => series # armed
      BY <1>1, <2>1
    <3> QED
      BY <1>1, <3>1, Numbers
  <2>3. pc' # "dump"
    BY <1>1
  <2> QED
    BY <1>1, <2>1, <2>2, <2>3 DEF Seen
<1>5. pc \in After /\ pc \notin Before /\ pc' \in After /\ pc' # "off"
  BY <1>1 DEF Before, After
<1> QED
  BY <1>1, <1>2, <1>3, <1>4, <1>5, LookingKeeps DEF Flowing

\* After the wait the first series of this run lies in memory.
LEMMA SettleKeeps ==
  ASSUME IInv, Settle
  PROVE  IInv'
<1>1. CASE pc' = "dump" /\ cma' = cma /\ UNCHANGED data
  <2>1. /\ pc = "settle" /\ (interrupted \/ Settled)
        /\ UNCHANGED <<registers, adc, writer, armed>>
    BY DEF Settle
  <2>2. csv' = <<>> /\ CaptureAfterTrigger'
    <3>1. csv' = <<>>
      BY <1>1, <2>1, SoFar DEF data
    <3> QED
      BY <3>1 DEF CaptureAfterTrigger
  <2>3. ASSUME Flowing, Seen PROVE Seen'
    <3>1. CASE interrupted
      BY <1>1, <3>1 DEF Seen, data
    <3>2. CASE Settled
      <4>1. due > armed
        BY <2>1, <2>3 DEF Seen
      <4>2. series > armed
        BY <4>1, Numbers
      <4>3. ASSUME NEW k \in 0 .. SeriesLen - 1 PROVE mem[k][1] > armed
        <5>1. Landed(k)
          BY <2>3 DEF Flowing
        <5>2. ~Unsent(k)
          BY <3>2, <4>1, <4>2, Numbers DEF Unsent, Settled
        <5>3. ASSUME NEW i \in DOMAIN fifo, fifo[i] = <<armed + 1, k + 1>> PROVE FALSE
          <6>1. armed + 1 > due
            BY <3>2, <5>3 DEF Settled
          <6> QED
            BY <4>1, <6>1, Numbers
        <5>4. ASSUME writing # <<>>, writing[1].burst = <<armed + 1, k + 1>> PROVE FALSE
          <6>1. armed + 1 > due
            BY <3>2, <5>4 DEF Settled
          <6> QED
            BY <4>1, <6>1, Numbers
        <5> QED
          BY <5>1, <5>2, <5>3, <5>4 DEF Landed
      <4> QED
        BY <1>1, <2>1, <4>3 DEF Seen, writer
    <3> QED
      BY <2>1, <3>1, <3>2
  <2>4. series = armed /\ FirstLap => position' = 0
    BY <1>1 DEF FirstLap, data
  <2>5. pc \in After /\ pc \notin Before /\ pc' \in After /\ pc' # "off"
    BY <1>1, <2>1 DEF Before, After
  <2>6. UNCHANGED <<run, loaded, ended, interrupted, position, prev_position, due>>
    BY <1>1 DEF data
  <2>7. csv' \in Seq(Bursts) /\ Len(csv') <= SeriesLen + 1
    BY <1>1, TypeFacts DEF data
  <2> QED
    BY <1>1, <2>1, <2>2, <2>3, <2>4, <2>5, <2>6, <2>7, TypeFacts, Truths, LookingKeeps
       DEF Flowing, writer
<1>2. CASE Exit("failed")
  BY <1>2, ExitKeeps DEF Settle
<1> QED
  BY <1>1, <1>2 DEF Settle

LEMMA PlaceWrap == Place(SeriesLen) = 1
<1>1. SeriesLen \in Nat \ {0} /\ 0 \in 0 .. SeriesLen - 1 /\ 1 \in Int
  BY Sizes
<1>2. (SeriesLen * 1 + 0) % SeriesLen = 0
  BY <1>1, ModUnique
<1>3. SeriesLen * 1 + 0 = SeriesLen
  BY <1>1
<1> QED
  BY <1>2, <1>3 DEF Place

\* A file that was right stays right with one right burst more.
LEMMA FileGrows ==
  ASSUME IInv, loaded, ~interrupted, csv' \in Seq(Bursts), armed' = armed,
         NEW n, n = Len(csv), Len(csv') = n + 1,
         \A i \in 1 .. n : csv'[i] = csv[i],
         \/ csv'[n + 1][1] > armed /\ csv'[n + 1][2] = (IF n + 1 <= SeriesLen THEN n + 1 ELSE 1)
         \/ n + 1 = SeriesLen + 1 /\ csv'[n + 1][1] <= armed
  PROVE  CaptureAfterTrigger'
<1>1. n \in Nat /\ DOMAIN csv = 1 .. n /\ DOMAIN csv' = 1 .. n + 1
  BY TypeFacts
<1>2. \A k \in 1 .. n + 1 : k \in 1 .. n \/ k = n + 1
  BY <1>1
<1>3. CaptureAfterTrigger
  BY SoFar
<1> QED
  BY <1>1, <1>2, <1>3 DEF CaptureAfterTrigger

\* One more burst goes to the file.
LEMMA DumpKeeps ==
  ASSUME IInv, Dump
  PROVE  IInv'
<1> DEFINE n == Len(csv)
<1>1. /\ pc = "dump" /\ n < SeriesLen + 1 /\ csv' = Append(csv, mem[n])
      /\ UNCHANGED <<pc, run, loaded, interrupted, prev_position, position, due,
                     ended, cma, registers, adc, writer, armed>>
  BY DEF Dump
<1>2. n \in Nat /\ n \in 0 .. SeriesLen /\ n \in Slots /\ mem[n] \in Bursts
  <2>1. n \in Nat
    BY TypeFacts
  <2>2. n \in 0 .. SeriesLen /\ n \in Slots
    BY <1>1, <2>1, Numbers DEF Slots
  <2> QED
    BY <2>1, <2>2, Members
<1>3. /\ csv' \in Seq(Bursts) /\ Len(csv') = n + 1 /\ csv'[n + 1] = mem[n]
      /\ \A i \in 1 .. n : csv'[i] = csv[i]
  <2>1. csv \in Seq(Bursts)
    BY TypeFacts
  <2> QED
    BY <1>1, <1>2, <2>1, AppendFacts
<1>4. DOMAIN csv = 1 .. n /\ DOMAIN csv' = 1 .. n + 1
  <2>1. csv \in Seq(Bursts)
    BY TypeFacts
  <2> QED
    BY <1>2, <1>3, <2>1
<1>9. n = Len(csv) /\ armed' = armed
  BY <1>1
<1> HIDE DEF n
<1>5. Len(csv') <= SeriesLen + 1
  BY <1>1, <1>2, <1>3, Numbers
<1>6. ASSUME loaded, ~interrupted, Flowing, Seen
      PROVE  CaptureAfterTrigger'
  <2>1. mem[n][1] \in Nat /\ (mem[n][1] > armed => mem[n][2] = Place(n))
    <3>1. mem[n][1] \in Nat /\ armed \in Nat
      BY <1>2, BurstFacts, Numbers
    <3>2. mem[n][1] <= armed \/ mem[n][2] = Place(n)
      BY <1>2, <1>6 DEF Flowing, InPlace
    <3> QED
      BY <3>1, <3>2
  <2>2. CASE n < SeriesLen
    <3>1. mem[n][1] > armed
      <4>1. n \in 0 .. SeriesLen - 1
        BY <1>2, <2>2, Numbers
      <4> QED
        BY <1>1, <1>6, <4>1 DEF Seen
    <3>2. Place(n) = n + 1 /\ n + 1 <= SeriesLen
      BY <1>2, <2>2, PlaceNext, Numbers
    <3>3. csv'[n + 1][1] > armed /\ csv'[n + 1][2] = (IF n + 1 <= SeriesLen THEN n + 1 ELSE 1)
      BY <1>3, <2>1, <3>1, <3>2
    <3> QED
      BY <1>3, <1>6, <1>9, <3>3, FileGrows
  <2>3. CASE n = SeriesLen
    <3>1. Place(n) = 1 /\ ~(n + 1 <= SeriesLen)
      BY <2>3, PlaceWrap, Numbers
    <3>2. mem[n][1] > armed \/ mem[n][1] <= armed
      BY <2>1, Numbers
    <3>3. \/ csv'[n + 1][1] > armed /\ csv'[n + 1][2] = (IF n + 1 <= SeriesLen THEN n + 1 ELSE 1)
          \/ n + 1 = SeriesLen + 1 /\ csv'[n + 1][1] <= armed
      BY <1>3, <2>1, <2>3, <3>1, <3>2
    <3> QED
      BY <1>3, <1>6, <1>9, <3>3, FileGrows
  <2> QED
    BY <1>2, <2>2, <2>3, Numbers
<1>7. Seen /\ Flowing => Seen' /\ (series = armed => position' = 0)
  <2>1. UNCHANGED <<due, armed, mem, pc, position, interrupted>>
    BY <1>1 DEF writer
  <2> QED
    BY <2>1 DEF Seen, Flowing, FirstLap
<1>8. pc \in After /\ pc \notin Before /\ pc' = pc /\ pc' # "off" /\ pc' = "dump"
  BY <1>1 DEF Before, After
<1> QED
  BY <1>1, <1>3, <1>5, <1>6, <1>7, <1>8, TypeFacts, Truths, LookingKeeps DEF writer

\* Ctrl-C, handled or fatal.
LEMMA CtrlCKeeps ==
  ASSUME IInv, CtrlC
  PROVE  IInv'
<1>1. UNCHANGED <<registers, adc, writer, armed>> /\ pc # "off"
  BY DEF CtrlC
<1>2. CASE Handled
  <2>1. /\ interrupted' = TRUE
        /\ UNCHANGED <<pc, run, loaded, prev_position, position, due, csv, ended, cma>>
    BY <1>2 DEF CtrlC
  <2>2. pc # "dump" => csv' = <<>>
    BY <1>1, <2>1, SoFar
  <2>3. Seen /\ Flowing => Seen' /\ (series = armed => position' = 0)
    BY <1>1, <2>1 DEF Seen, Flowing, FirstLap, writer
  <2>4. interrupted' /\ UNCHANGED <<fifo, writing, slot, mem>>
    BY <1>1, <2>1 DEF writer
  <2>5. pc \notin After => pc # "dump"
    BY DEF After
  <2> QED
    BY <1>1, <2>1, <2>2, <2>3, <2>4, <2>5, TypeFacts, Truths, LookingKeeps
<1>3. CASE ~Handled
  <2>1. Exit("killed")
    BY <1>3 DEF CtrlC
  <2> QED
    BY <1>1, <2>1, ExitKeeps
<1> QED
  BY <1>2, <1>3

LEMMA StutterKeeps ==
  ASSUME IInv, UNCHANGED vars
  PROVE  IInv'
<1>1. /\ UNCHANGED <<pc, run, loaded, interrupted, prev_position, position, due, csv, ended>>
      /\ UNCHANGED <<cma, rx_rst, rx_addr, series, left, stuck, replays>>
      /\ UNCHANGED <<fifo, writing, slot, mem, armed>>
  BY DEF vars
<1>2. Typed'
  BY <1>1 DEF IInv, Typed, StateTyped
<1>3. NothingNewer'
  BY <1>1, StillOld
<1>4. Control'
  BY <1>1 DEF IInv, Control, Bits, Quiet, Owner, Idle, Resting, Abandoned, Empty
<1>5. Flow'
  <2>1. NextSent' = NextSent
    BY <1>1 DEF NextSent
  <2>2. InPlace => InPlace'
    BY <1>1, <2>1 DEF InPlace, Place, Succ
  <2>3. Fresh /\ FirstLap /\ Seen => Fresh' /\ FirstLap' /\ Seen'
    BY <1>1 DEF Fresh, FirstLap, Seen
  <2>4. \A k \in 0 .. SeriesLen - 1 : Landed(k) => Landed(k)'
    BY <1>1 DEF Landed, Unsent
  <2> QED
    BY <1>1, <2>2, <2>3, <2>4 DEF IInv, Flow, Flowing
<1>6. loaded' /\ ~interrupted' => CaptureAfterTrigger'
  BY <1>1 DEF IInv, CaptureAfterTrigger
<1> QED
  BY <1>2, <1>3, <1>4, <1>5, <1>6 DEF IInv

LEMMA CapturedKeeps ==
  ASSUME IInv, Captured
  PROVE  IInv'
BY ExitKeeps DEF Captured

LEMMA NextIInv == IInv /\ [Next]_vars => IInv'
<1> SUFFICES ASSUME IInv, [Next]_vars PROVE IInv'
  OBVIOUS
<1>1. CASE Cores
  BY <1>1, FireKeeps, SendKeeps, ReplayKeeps, StartKeeps, LandKeeps DEF Cores
<1>2. CASE Program
  BY <1>2, NewRunKeeps, AllocKeeps, ResetAdcKeeps, ResetWriterKeeps, ConfigureKeeps,
     ReleaseAdcKeeps, ReleaseWriterKeeps, ResetTriggerKeeps, ReleaseTriggerKeeps,
     PollKeeps, SettleKeeps, DumpKeeps, CapturedKeeps, StopKeeps, StopAdcKeeps, FinishKeeps DEF Program
<1>3. CASE CtrlC
  BY <1>3, CtrlCKeeps
<1>4. CASE UNCHANGED vars
  BY <1>4, StutterKeeps
<1> QED
  BY <1>1, <1>2, <1>3, <1>4 DEF Next

\* The inductive invariant: how the bits, the registers and the buffer go with
\* the program (projects/adc_test/adc.c:200-246), that the cores are at rest
\* from the bitstream to the trigger, and that from then on every burst is on
\* its way to its place in the series.
THEOREM IInvTheorem == Spec => []IInv
<1>1. Init => IInv
  BY InitIInv
<1>2. IInv /\ [Next]_vars => IInv'
  BY NextIInv
<1> QED
  BY <1>1, <1>2, PTL DEF Spec

\* What is remembered of the polls has its type.
LEMMA HistoryTheorem == Spec => []HistoryTyped
<1>0. 0 \in 0 .. Ring
  BY Sizes
<1>1. Init => HistoryTyped
  BY <1>0 DEF Init, HistoryTyped
<1>2. ASSUME HistoryTyped, [Next]_vars PROVE HistoryTyped'
  <2>1. CASE UNCHANGED history
    BY <1>2, <2>1 DEF HistoryTyped, history
  <2>2. CASE since' = 0 /\ filled' = FALSE /\ lapped' = FALSE
    BY <1>0, <2>2 DEF HistoryTyped
  <2>3. CASE StartBurst
    <3>1. since' = (since % Ring) + 1 /\ filled' = TRUE /\ lapped' = lapped
      BY <2>3 DEF StartBurst
    <3>2. since \in Nat /\ Ring \in Nat \ {0}
      BY <1>2, Sizes DEF HistoryTyped
    <3>3. (since % Ring) + 1 \in 0 .. Ring
      BY <3>2
    <3> QED
      BY <1>2, <3>1, <3>3 DEF HistoryTyped
  <2>4. CASE Poll
    <3>1. since' = 0 /\ lapped' = (lapped \/ since = Ring) /\ filled' = filled
      BY <2>4 DEF Poll, Look
    <3>3. lapped' \in BOOLEAN /\ filled' \in BOOLEAN
      BY <1>2, <3>1, Zenon DEF HistoryTyped
    <3> QED
      BY <1>0, <3>1, <3>3 DEF HistoryTyped
  <2>5. CASE TriggerFires \/ SendBurst \/ SendReplay \/ LandBurst
    BY <2>1, <2>5 DEF TriggerFires, SendBurst, SendReplay, LandBurst, writer
  <2>6. CASE NewRun \/ ResetWriter \/ Finish
    BY <2>1, <2>2, <2>6 DEF NewRun, LoadBitstream, ResetWriter, Finish, HoldWriter, writer
  <2>7. CASE Alloc \/ ResetAdc \/ Configure \/ ReleaseAdc \/ ReleaseWriter \/ ResetTrigger
    BY <2>1, <2>7 DEF Alloc, ResetAdc, Configure, ReleaseAdc, ReleaseWriter, ResetTrigger, writer
  <2>8. CASE ReleaseTrigger \/ Settle \/ Dump \/ Captured \/ Stop \/ StopAdc \/ CtrlC
    BY <2>1, <2>8 DEF ReleaseTrigger, Settle, Dump, Captured, Stop, StopAdc, CtrlC, writer
  <2>9. CASE UNCHANGED vars
    BY <2>1, <2>9 DEF vars, history
  <2> QED
    BY <1>2, <2>3, <2>4, <2>5, <2>6, <2>7, <2>8, <2>9 DEF Next, Cores, Program
<1> QED
  BY <1>1, <1>2, PTL DEF Spec

\* In the file of a run that run.sh has started each of the first SeriesLen
\* bursts is of a series of that run and at its place, and the words beyond
\* are old or the head of such a series (projects/adc_test/adc.c:312-353),
\* unless Ctrl-C cut the sleep before: whatever the length of the series and
\* of the FIFO, however often the ring wraps before the program looks, and
\* whatever earlier runs have left behind.
THEOREM CaptureTheorem == Spec => []CaptureAligned
<1>1. IInv /\ HistoryTyped => CaptureAligned
  BY DEF IInv, Typed, TypeOK, CaptureAligned
<1> QED
  BY <1>1, IInvTheorem, HistoryTheorem, PTL

LEMMA CutStep ==
  ASSUME IInv, [Next]_vars,
         pc # "off", writing # <<>>, rx_rst[WRITER], ~rx_rst'[WRITER]
  PROVE  ~loaded /\ Abandoned /\ rx_addr # run
<1>1. ResetWriter
  <2>1. ~Cores /\ ~CtrlC
    BY DEF Cores, TriggerFires, SendBurst, SendReplay, StartBurst, LandBurst, CtrlC, registers
  <2>2. ~NewRun /\ ~Finish
    BY DEF NewRun, Finish
  <2>3. ~(ResetAdc \/ ReleaseAdc \/ ReleaseWriter \/ ResetTrigger \/ ReleaseTrigger \/ StopAdc)
    BY Bit, Registers DEF ResetAdc, ReleaseAdc, ReleaseWriter, ResetTrigger, ReleaseTrigger, StopAdc
  <2>4. ~(Alloc \/ Configure \/ Poll \/ Settle \/ Dump \/ Captured \/ Stop)
    BY DEF Alloc, Configure, Poll, Settle, Dump, Captured, Stop, registers
  <2>5. ~UNCHANGED vars
    BY DEF vars
  <2> QED
    BY <2>1, <2>2, <2>3, <2>4, <2>5 DEF Next, Program
<1>2. pc = "writer_low"
  BY <1>1 DEF ResetWriter, Goto
<1>3. Abandoned
  BY <1>2 DEF IInv, Control, Idle, Resting
<1>4. ~loaded
  BY <1>2 DEF IInv, Control, Quiet, Before
<1>5. rx_addr # run
  BY <1>2, <1>4 DEF IInv, Control, Owner, Unconfigured
<1> QED
  BY <1>3, <1>4, <1>5

\* Neither a run that lasts, nor the end of one, nor the one after a run that
\* went through its reset mode resets the writer in the middle of a burst
\* (projects/adc_test/adc.c:202, 367): that takes a start by hand after an
\* abandoned run, and the burst is one of that run.
THEOREM CutTheorem == Spec => CutAfterAbandonment
<1>1. IInv /\ [Next]_vars
        => [pc # "off" /\ writing # <<>> /\ rx_rst[WRITER] /\ ~rx_rst'[WRITER]
              => ~loaded /\ Abandoned /\ rx_addr # run]_vars
  BY CutStep
<1> QED
  BY <1>1, IInvTheorem, PTL DEF CutAfterAbandonment, Spec

LEMMA ConfiguredStep ==
  ASSUME IInv, [Next]_vars, rx_addr' # rx_addr
  PROVE  ~rx_rst'[ADC] /\ ~rx_rst'[WRITER]
<1>1. NewRun \/ Configure
  <2>1. ~Cores
    BY DEF Cores, TriggerFires, SendBurst, SendReplay, StartBurst, LandBurst, registers
  <2>2. ~(Alloc \/ ResetAdc \/ ResetWriter \/ ReleaseAdc \/ ReleaseWriter \/ ResetTrigger)
    BY DEF Alloc, ResetAdc, ResetWriter, ReleaseAdc, ReleaseWriter, ResetTrigger, registers
  <2>3. ~(ReleaseTrigger \/ Poll \/ Settle \/ Dump \/ Captured)
    BY DEF ReleaseTrigger, Poll, Settle, Dump, Captured, registers
  <2>4. ~(Stop \/ StopAdc \/ Finish \/ CtrlC) /\ ~UNCHANGED vars
    BY DEF Stop, StopAdc, Finish, CtrlC, registers, vars
  <2> QED
    BY <2>1, <2>2, <2>3, <2>4 DEF Next, Program
<1>2. CASE NewRun
  <2>1. rx_rst' = AllLow
    BY <1>2 DEF NewRun, LoadBitstream, registers
  <2> QED
    BY <2>1 DEF AllLow, ADC, WRITER
<1>3. CASE Configure
  BY <1>3 DEF Configure, Goto, IInv, Control, Bits
<1> QED
  BY <1>1, <1>2, <1>3

LEMMA MemoryStep ==
  ASSUME IInv, [Next]_vars, mem' # mem
  PROVE  \/ rx_addr = cma
         \/ Abandoned /\ (pc = "off" \/ (rx_addr # run /\ ~loaded))
<1>1. LandBurst
  <2>1. ~(TriggerFires \/ SendBurst \/ SendReplay \/ StartBurst)
    BY DEF TriggerFires, SendBurst, SendReplay, StartBurst, writer
  <2>2. ~NewRun
    BY DEF NewRun, LoadBitstream, HoldWriter, writer
  <2>3. ~(Alloc \/ ResetAdc \/ Configure \/ ReleaseAdc \/ ReleaseWriter \/ ResetTrigger)
    BY DEF Alloc, ResetAdc, Configure, ReleaseAdc, ReleaseWriter, ResetTrigger, writer
  <2>4. ~(ReleaseTrigger \/ Poll \/ Settle \/ Dump \/ Captured \/ Stop \/ StopAdc \/ CtrlC)
    BY DEF ReleaseTrigger, Poll, Settle, Dump, Captured, Stop, StopAdc, CtrlC, writer
  <2>5. ~(ResetWriter \/ Finish)
    BY DEF ResetWriter, Finish, HoldWriter
  <2>6. ~UNCHANGED vars
    BY DEF vars
  <2> QED
    BY <2>1, <2>2, <2>3, <2>4, <2>5, <2>6 DEF Next, Program, Cores
<1>2. writing # <<>>
  BY <1>1 DEF LandBurst
<1>3. pc \in Resting => Abandoned
  BY <1>2 DEF IInv, Control, Idle
<1>4. pc # "configure"
  BY <1>2 DEF IInv, Control, Idle
<1>5. CASE pc = "off"
  BY <1>3, <1>5 DEF Resting
<1>6. CASE pc \in Unconfigured
  <2>1. ~loaded
    BY <1>2, <1>6 DEF IInv, Control, Quiet, Unconfigured, Before
  <2>2. rx_addr # run
    BY <1>6, <2>1 DEF IInv, Control, Owner
  <2> QED
    BY <1>3, <1>4, <1>6, <2>1, <2>2 DEF Unconfigured, Resting
<1>7. CASE pc \notin Unconfigured \cup {"off"}
  <2>1. rx_addr = run /\ cma = run
    BY <1>7, Truths DEF IInv, Control, Owner, Unconfigured
  <2> QED
    BY <2>1
<1> QED
  BY <1>5, <1>6, <1>7

\* The cores are configured only while they are held (adc.c:201-217), and
\* memory that is not the buffer of the run is written only after a run that
\* left without resetting the cores (adc.c:328, adc.c:353), until the
\* bitstream or the next configuration.
THEOREM OwnedTheorem == Spec => MemoryOwned
<1>1. IInv /\ [Next]_vars => [rx_addr' # rx_addr => ~rx_rst'[ADC] /\ ~rx_rst'[WRITER]]_vars
  BY ConfiguredStep
<1>2. IInv /\ [Next]_vars
        => [mem' # mem => \/ rx_addr = cma
                          \/ Abandoned /\ (pc = "off" \/ (rx_addr # run /\ ~loaded))]_vars
  BY MemoryStep
<1> QED
  BY <1>1, <1>2, IInvTheorem, PTL
     DEF MemoryOwned, ConfiguredInReset, OwnedUnlessAbandoned, Spec
=============================================================================
