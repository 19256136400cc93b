---------------------------- MODULE McphaProofs -----------------------------
(* Proofs about mcpha-server.c: for every spectrum, every size of the ring  *)
(* and of the generator's FIFO, and every window, the flags that two        *)
(* threads share without a lock keep it at one pulser, none is left to a    *)
(* client that did not ask for it, and the FIFO takes every pulse; what     *)
(* lower_bound() finds in the histogram is a bin with a weight; and a       *)
(* readout holds the samples round the trigger, each in its place.          *)
EXTENDS Mcpha, SequenceTheorems, WellFoundedInduction, TLAPS

Words2 == {"amplitude", "interval"}
Typed == TypeOK /\ gen \in Seq(Words2)

\* A pulser that is there, or was to be, is announced by active_thread; while
\* the main thread waits for it, it has been told to end.
PulserKnown ==
    /\ \A t \in Threads : pulser[t] # "none" => active_thread = 1
    /\ Joining => enable_thread = 0

\* A pulser looks at the FIFO before it draws: what it has found there only
\* grows less until it writes.
RoomKnown ==
    \A t \in Threads : /\ pulser[t] = "first" => Len(gen) = 0
                       /\ pulser[t] = "drawn" => Len(gen) <= Full
                       /\ pulser[t] = "second" => Len(gen) <= Full + 1

IInv == Typed /\ OnePulser /\ PulserKnown /\ RoomKnown /\ QuietForNext

-----------------------------------------------------------------------------
LEMMA Sizes ==
    /\ Bins \in Nat /\ RingSize \in Nat \ {0} /\ Rounding \in Nat \ {0} /\ Full \in Nat
    /\ Burst \in Nat \ {0} /\ Windows # {}
    /\ \A w \in Windows : w[1] \in Nat /\ w[2] \in Nat
  BY McphaAssumption

\* The FIFO of the generator with a word more, or a pulse less.
LEMMA FifoSteps ==
  ASSUME NEW f \in Seq(Words2), NEW w \in Words2
  PROVE  /\ Append(f, w) \in Seq(Words2) /\ Len(Append(f, w)) = Len(f) + 1
         /\ Len(f) \in Nat
         /\ <<>> \in Seq(Words2) /\ Len(<<>>) = 0
         /\ Len(f) >= 2 => /\ SubSeq(f, 3, Len(f)) \in Seq(Words2)
                           /\ Len(SubSeq(f, 3, Len(f))) = Len(f) - 2
<1>1. /\ Append(f, w) \in Seq(Words2) /\ Len(Append(f, w)) = Len(f) + 1
      /\ Len(f) \in Nat
  OBVIOUS
<1>2. <<>> \in Seq(Words2) /\ Len(<<>>) = 0
  OBVIOUS
<1>3. ASSUME Len(f) >= 2
      PROVE  /\ SubSeq(f, 3, Len(f)) \in Seq(Words2)
             /\ Len(SubSeq(f, 3, Len(f))) = Len(f) - 2
  <2>1. \A i \in 3 .. Len(f) : f[i] \in Words2
    BY <1>1
  <2>2. SubSeq(f, 3, Len(f)) \in Seq(Words2)
    BY <1>1, <1>3, <2>1, SubSeqProperties
  <2>3. CASE 3 <= Len(f)
    <3>1. Len(SubSeq(f, 3, Len(f))) = Len(f) - 3 + 1
      BY <1>1, <2>1, <2>3, SubSeqProperties
    <3> QED
      BY <1>1, <2>2, <3>1
  <2>4. CASE ~(3 <= Len(f))
    <3>0. \A n \in Nat : n >= 2 /\ ~(3 <= n) => n = 2
      OBVIOUS
    <3>1. Len(f) = 2
      BY <1>1, <1>3, <2>4, <3>0, Zenon
    <3>2. SubSeq(f, 3, 2) = <<>>
      BY SubSeqEmpty
    <3> QED
      BY <1>2, <2>2, <3>1, <3>2
  <2> QED
    BY <2>3, <2>4
<1> QED
  BY <1>1, <1>2, <1>3

LEMMA RingModulo ==
  ASSUME NEW n \in Int
  PROVE  n % RingSize \in Ring
  BY Sizes DEF Ring

LEMMA InitIInv == Init => IInv
<1> SUFFICES ASSUME Init PROVE IInv
  OBVIOUS
<1>1. gen \in Seq(Words2) /\ Len(gen) = 0 /\ \A t \in Threads : pulser[t] = "none"
  BY DEF Init
<1>2. Typed
  <2>1. window \in Windows
    BY Sizes DEF Init
  <2>2. scope = Idle /\ fifo = <<>> /\ position = 0 /\ number = 0 /\ proper = "no"
    BY DEF Init
  <2>6. ScopeTyped
    BY <2>1, <2>2, Sizes DEF ScopeTyped, Idle, Ring, Numbers
  <2>3. Len(gen) <= Full + 2
    BY <1>1, Sizes
  <2>4. pulser \in [Threads -> {"none", "failed", "first", "second", "test", "wait", "drawn"}]
    BY DEF Init
  <2>5. /\ pc = "accept" /\ keep_pulsing = FALSE /\ enable_thread = 0 /\ active_thread = 0
        /\ crossed = FALSE
    BY DEF Init
  <2> QED
    BY <1>1, <2>3, <2>4, <2>5, <2>6 DEF Typed, TypeOK
<1>3. OnePulser /\ PulserKnown /\ RoomKnown
  BY <1>1 DEF Init, OnePulser, PulserKnown, RoomKnown, Joining
<1>4. QuietForNext
  BY <1>1 DEF Init, QuietForNext
<1> QED
  BY <1>2, <1>3, <1>4 DEF IInv

-----------------------------------------------------------------------------
\* The types of what the threads change.
LEMMA ThreadsTyped ==
  ASSUME Typed, UNCHANGED oscilloscope,
         pc' \in {"accept", "recv", "restart", "stop", "leave"}, keep_pulsing' \in BOOLEAN,
         enable_thread' \in {0, 1}, active_thread' \in {0, 1},
         pulser' \in [Threads -> {"none", "failed", "first", "second", "test", "wait", "drawn"}],
         gen' \in Seq(Words2), Len(gen') <= Full + 2, crossed' \in BOOLEAN
  PROVE  Typed'
  BY DEF Typed, TypeOK, ScopeTyped, oscilloscope

\* A pulser's own step: it is the only one.
LEMMA PulserKeeps ==
  ASSUME IInv, NEW t \in Threads, Pulser(t)
  PROVE  IInv'
<1> DEFINE States == {"none", "failed", "first", "second", "test", "wait", "drawn"}
<1>1. /\ UNCHANGED <<pc, keep_pulsing, enable_thread, crossed, oscilloscope>>
      /\ pulser[t] # "none"
      /\ \E to \in States : pulser' = [pulser EXCEPT ![t] = to]
  BY DEF Pulser, WriteAmplitude, WriteInterval, TestEnabled, EndPulser, Draw, Move, generator
<1>2. pulser \in [Threads -> States] /\ gen \in Seq(Words2) /\ Len(gen) \in Nat
  BY DEF IInv, Typed, TypeOK
<1>3. /\ \A u \in Threads \ {t} : pulser[u] = "none" /\ pulser'[u] = "none"
      /\ pulser' \in [Threads -> States]
  BY <1>1, <1>2 DEF IInv, OnePulser
<1>4. active_thread = 1 /\ ~(pc = "accept" /\ ~keep_pulsing)
  BY <1>1 DEF IInv, PulserKnown, QuietForNext
<1>5. /\ gen' \in Seq(Words2) /\ Len(gen') <= Full + 2
      /\ pulser'[t] # "none" => active_thread' = 1
      /\ active_thread' \in {0, 1}
      /\ pulser'[t] # "first"
      /\ pulser'[t] = "drawn" => Len(gen') <= Full
      /\ pulser'[t] = "second" => Len(gen') <= Full + 1
  <2> USE <1>2, <1>4
  <2>1. CASE WriteAmplitude(t)
    <3>1. Len(gen) <= Full
      BY <2>1, Sizes DEF WriteAmplitude, Move, IInv, RoomKnown
    <3>2. gen' = Append(gen, "amplitude") /\ pulser'[t] = "second" /\ active_thread' = 1
      BY <2>1 DEF WriteAmplitude, Move
    <3> QED
      BY <3>1, <3>2, FifoSteps, Sizes DEF Words2
  <2>2. CASE WriteInterval(t)
    <3>1. Len(gen) <= Full + 1
      BY <2>2 DEF WriteInterval, Move, IInv, RoomKnown
    <3>2. gen' = Append(gen, "interval") /\ pulser'[t] = "test" /\ active_thread' = 1
      BY <2>2 DEF WriteInterval, Move
    <3> QED
      BY <3>1, <3>2, FifoSteps, Sizes DEF Words2
  <2>3. CASE TestEnabled(t) \/ EndPulser(t)
    <3>1. Len(gen) <= Full + 2
      BY DEF IInv, Typed, TypeOK
    <3> QED
      BY <2>3, <3>1 DEF TestEnabled, EndPulser, Move, generator
  <2>4. CASE Draw(t)
    BY <2>4, Sizes DEF Draw, Move, generator
  <2> QED
    BY <2>1, <2>2, <2>3, <2>4 DEF Pulser
<1>6. Typed'
  BY <1>1, <1>3, <1>5, ThreadsTyped DEF IInv, Typed, TypeOK
<1>7. OnePulser' /\ PulserKnown' /\ RoomKnown'
  BY <1>1, <1>3, <1>5 DEF IInv, OnePulser, PulserKnown, RoomKnown, Joining
<1>8. QuietForNext'
  BY <1>1, <1>4 DEF QuietForNext
<1> QED
  BY <1>6, <1>7, <1>8 DEF IInv

\* The generator takes a pulse.
LEMMA PulseKeeps ==
  ASSUME IInv, Pulse
  PROVE  IInv'
<1>1. /\ UNCHANGED <<pc, keep_pulsing, enable_thread, active_thread, pulser, crossed,
                     oscilloscope>>
      /\ Len(gen) >= 2 /\ gen' = SubSeq(gen, 3, Len(gen))
  BY DEF Pulse, threads
<1>2. gen' \in Seq(Words2) /\ Len(gen') = Len(gen) - 2 /\ Len(gen) \in Nat
      /\ Len(gen) <= Full + 2
  BY <1>1, FifoSteps DEF IInv, Typed, TypeOK
<1>3. Typed'
  BY <1>1, <1>2, Sizes, ThreadsTyped DEF IInv, Typed, TypeOK
<1>4. OnePulser' /\ PulserKnown' /\ RoomKnown'
  BY <1>1, <1>2, Sizes DEF IInv, OnePulser, PulserKnown, RoomKnown, Joining
<1>5. QuietForNext'
  <2>1. gen # <<>>
    BY <1>1
  <2> QED
    BY <1>1, <2>1 DEF IInv, QuietForNext
<1> QED
  BY <1>3, <1>4, <1>5 DEF IInv

-----------------------------------------------------------------------------
\* The main thread: its pulser, the FIFO and active_thread as they are.
LEMMA WaitingKeeps ==
  ASSUME IInv,
         UNCHANGED <<active_thread, pulser, gen, crossed, oscilloscope>>,
         pc' \in {"accept", "recv", "restart", "stop", "leave"},
         keep_pulsing' \in BOOLEAN, enable_thread' \in {0, 1},
         pc' \in {"restart", "stop", "leave"} => enable_thread' = 0,
         pc' = "accept" => \/ keep_pulsing'
                           \/ pc = "accept" /\ UNCHANGED <<keep_pulsing, enable_thread>>
  PROVE  IInv'
<1>1. Typed'
  BY ThreadsTyped DEF IInv, Typed, TypeOK
<1>2. OnePulser' /\ PulserKnown' /\ RoomKnown'
  BY DEF IInv, OnePulser, PulserKnown, RoomKnown, Joining
<1>3. QuietForNext'
  BY DEF IInv, QuietForNext
<1> QED
  BY <1>1, <1>2, <1>3 DEF IInv

\* Commands, and clients that come and go.
LEMMA ClientKeeps ==
  ASSUME IInv,
         Accept \/ SetSpectrum \/ StartPulser \/ StopPulser \/ Disconnect
  PROVE  IInv'
<1>1. /\ UNCHANGED <<active_thread, pulser, gen, crossed, oscilloscope>>
      /\ pc' \in {"accept", "recv", "restart", "stop", "leave"}
      /\ keep_pulsing' \in BOOLEAN /\ enable_thread' \in {0, 1}
      /\ pc' \in {"restart", "stop", "leave"} => enable_thread' = 0
      /\ pc' = "accept" => keep_pulsing'
  <2>1. keep_pulsing \in BOOLEAN /\ enable_thread \in {0, 1}
    BY DEF IInv, Typed, TypeOK
  <2> QED
    BY <2>1 DEF Accept, SetSpectrum, StartPulser, StopPulser, Disconnect, Command, Goto,
                threads, generator
<1> QED
  BY <1>1, WaitingKeeps

\* The wait has ended with active_thread low: no pulser is there to be lost.
LEMMA NobodyThere ==
  ASSUME IInv, active_thread = 0
  PROVE  \A t \in Threads : pulser[t] = "none"
  BY DEF IInv, PulserKnown

LEMMA StoppedKeeps ==
  ASSUME IInv, Stopped
  PROVE  IInv'
<1>1. /\ UNCHANGED <<keep_pulsing, enable_thread, active_thread, pulser, oscilloscope>>
      /\ gen' = <<>> /\ crossed' = FALSE /\ active_thread = 0 /\ enable_thread = 0
      /\ pc' \in {"recv", "accept"}
  BY DEF Stopped, ResetGenerator, Goto, threads, IInv, PulserKnown, Joining
<1>2. \A t \in Threads : pulser[t] = "none"
  BY <1>1, NobodyThere
<1>3. gen' \in Seq(Words2) /\ Len(gen') = 0
  BY <1>1
<1>4. Typed'
  <2>1. Len(gen') <= Full + 2
    BY <1>3, Sizes
  <2>2. Typed /\ keep_pulsing' \in BOOLEAN /\ enable_thread' \in {0, 1} /\ active_thread' \in {0, 1}
        /\ pulser' \in [Threads -> {"none", "failed", "first", "second", "test", "wait", "drawn"}]
    BY <1>1 DEF IInv, Typed, TypeOK
  <2> QED
    BY <1>1, <1>3, <2>1, <2>2, ThreadsTyped
<1>5. OnePulser' /\ PulserKnown' /\ RoomKnown' /\ QuietForNext'
  BY <1>1, <1>2 DEF OnePulser, PulserKnown, RoomKnown, QuietForNext, Joining
<1> QED
  BY <1>4, <1>5 DEF IInv

LEMMA StartedKeeps ==
  ASSUME IInv, Started
  PROVE  IInv'
<1> DEFINE States == {"none", "failed", "first", "second", "test", "wait", "drawn"}
<1>1. /\ UNCHANGED <<keep_pulsing, oscilloscope>>
      /\ gen' = <<>> /\ crossed' = FALSE /\ active_thread = 0 /\ pc' = "recv"
  BY DEF Started, ResetGenerator, Goto
<1>2. /\ \A t \in Threads : pulser[t] = "none"
      /\ pulser \in [Threads -> States] /\ enable_thread \in {0, 1}
  BY <1>1, NobodyThere DEF IInv, Typed, TypeOK
<1>3. gen' \in Seq(Words2) /\ Len(gen') = 0
  BY <1>1
<1>4. \/ UNCHANGED <<pulser, enable_thread, active_thread>>
      \/ /\ enable_thread' = 1 /\ active_thread' = 1
         /\ \E t \in Threads, to \in {"first", "failed"} : pulser' = [pulser EXCEPT ![t] = to]
  BY DEF Started, threads, Move
<1>5. /\ pulser' \in [Threads -> States]
      /\ enable_thread' \in {0, 1} /\ active_thread' \in {0, 1}
      /\ \A t \in Threads : pulser'[t] # "none" => active_thread' = 1
      /\ \A t \in Threads : pulser'[t] \in {"none", "first", "failed"}
      /\ OnePulser'
  BY <1>1, <1>2, <1>4 DEF OnePulser
<1>6. Typed'
  <2>1. Len(gen') <= Full + 2
    BY <1>3, Sizes
  <2>2. Typed /\ keep_pulsing' \in BOOLEAN
    BY <1>1 DEF IInv, Typed, TypeOK
  <2> QED
    BY <1>1, <1>3, <1>5, <2>1, <2>2, ThreadsTyped
<1>7. PulserKnown' /\ RoomKnown' /\ QuietForNext'
  BY <1>1, <1>3, <1>5 DEF PulserKnown, RoomKnown, QuietForNext, Joining
<1> QED
  BY <1>5, <1>6, <1>7 DEF IInv

\* Code 3 under a running pulser makes room.
LEMMA ResetKeeps ==
  ASSUME IInv, Reset
  PROVE  IInv'
<1>1. /\ UNCHANGED <<pc, keep_pulsing, enable_thread, active_thread, pulser, oscilloscope>>
      /\ gen' = <<>> /\ crossed' \in BOOLEAN /\ pc = "recv"
  BY DEF Reset, Command, threads
<1>2. gen' \in Seq(Words2) /\ Len(gen') = 0
  BY <1>1
<1>3. Typed'
  BY <1>1, <1>2, Sizes, ThreadsTyped DEF IInv, Typed, TypeOK
<1>4. OnePulser' /\ PulserKnown' /\ RoomKnown' /\ QuietForNext'
  BY <1>1, <1>2, Sizes DEF IInv, OnePulser, PulserKnown, RoomKnown, QuietForNext, Joining
<1> QED
  BY <1>3, <1>4 DEF IInv

-----------------------------------------------------------------------------
\* The oscilloscope shares nothing with the pulser.
LEMMA ScopeKeeps ==
  ASSUME IInv, ScopeTyped',
         UNCHANGED <<pc, keep_pulsing, enable_thread, active_thread, pulser, gen, crossed>>
  PROVE  IInv'
<1>1. Typed'
  BY DEF IInv, Typed, TypeOK
<1>2. OnePulser' /\ PulserKnown' /\ RoomKnown' /\ QuietForNext'
  BY DEF IInv, OnePulser, PulserKnown, RoomKnown, QuietForNext, Joining
<1> QED
  BY <1>1, <1>2 DEF IInv

Scopes == [run : BOOLEAN, pre : BOOLEAN, trg : BOOLEAN, tot : BOOLEAN, addr : Ring, cntr : Ring]

LEMMA ScopeTypes ==
  ASSUME ScopeTyped
  PROVE  /\ window \in Windows /\ window[1] \in Int /\ window[2] \in Int
         /\ scope \in Scopes /\ scope.addr \in Ring /\ scope.cntr \in Ring /\ position \in Ring
         /\ fifo \in Seq(Int) /\ Len(fifo) < Burst
         /\ number \in 0 .. Numbers - 1 /\ number \in Int
         /\ proper \in {"no", "reset", "yes"}
         /\ 0 \in Ring /\ 0 \in 0 .. Numbers - 1
<1>1. /\ window \in Windows /\ scope \in Scopes /\ position \in Ring
      /\ fifo \in Seq(Int) /\ Len(fifo) < Burst
      /\ number \in 0 .. Numbers - 1 /\ proper \in {"no", "reset", "yes"}
  BY DEF ScopeTyped, Scopes
<1>2. 0 \in Ring /\ 0 \in 0 .. Numbers - 1
  BY Sizes DEF Ring, Numbers
<1>3. window[1] \in Int /\ window[2] \in Int
  BY <1>1, Sizes
<1>4. number \in Int /\ scope.addr \in Ring /\ scope.cntr \in Ring
  BY <1>1 DEF Scopes
<1> QED
  BY <1>1, <1>2, <1>3, <1>4

LEMMA NumbersModulo ==
  ASSUME NEW n \in Int
  PROVE  n % Numbers \in 0 .. Numbers - 1
<1>1. Numbers \in Nat \ {0}
  BY Sizes DEF Numbers
<1> QED
  BY <1>1

\* The writer takes a word.
LEMMA WriteTyped ==
  ASSUME ScopeTyped, NEW word \in Int, Write(word)
  PROVE  fifo' \in Seq(Int) /\ Len(fifo') < Burst /\ position' \in Ring
<1>1. /\ fifo \in Seq(Int) /\ Len(fifo) < Burst /\ position \in Ring
      /\ Append(fifo, word) \in Seq(Int)
  BY ScopeTypes
<1>2. position \in Int /\ Burst \in Nat \ {0}
  BY <1>1, Sizes DEF Ring
<1>3. CASE Len(Append(fifo, word)) < Burst
  BY <1>1, <1>3 DEF Write
<1>4. CASE ~(Len(Append(fifo, word)) < Burst)
  <2>1. fifo' = <<>> /\ position' = (position + Burst) % RingSize
    BY <1>4 DEF Write
  <2>2. position' \in Ring
    BY <1>2, <2>1, RingModulo
  <2> QED
    BY <1>2, <2>1, <2>2
<1> QED
  BY <1>3, <1>4

LEMMA SampleKeeps ==
  ASSUME IInv, Sample
  PROVE  IInv'
<1>1. ScopeTyped
  BY DEF IInv, Typed, TypeOK
<1>2. /\ UNCHANGED <<pc, keep_pulsing, enable_thread, active_thread, pulser, gen, crossed,
                     window, proper>>
      /\ Write(number) /\ number' = (number + 1) % Numbers
  BY DEF Sample, threads, generator
<1> DEFINE mark == ~scope.tot /\ scope.trg
           stop == scope.tot /\ scope.cntr = window[2] - 1
           cntr == (IF mark THEN window[1] - 1 + (scope.cntr % Rounding)
                      ELSE scope.cntr + 1) % RingSize
           addr == IF mark THEN scope.cntr ELSE scope.addr
           pre == scope.pre \/ scope.cntr = window[1] - 1
           tot == scope.tot \/ mark
           run == ~stop
<1>3. scope' = [scope EXCEPT !.run = run, !.pre = pre, !.tot = tot, !.addr = addr, !.cntr = cntr]
  BY DEF Sample
<1>4. cntr \in Ring
  <2>1. scope.cntr \in Int /\ scope.cntr % Rounding \in Int
    BY <1>1, ScopeTypes, Sizes DEF Ring
  <2>2. window[1] - 1 + (scope.cntr % Rounding) \in Int /\ scope.cntr + 1 \in Int
    BY <1>1, <2>1, ScopeTypes
  <2> QED
    BY <2>2, RingModulo
<1>5. scope \in Scopes /\ addr \in Ring /\ run \in BOOLEAN /\ pre \in BOOLEAN /\ tot \in BOOLEAN
  BY <1>1, ScopeTypes DEF Scopes
<1> HIDE DEF cntr, addr, run, pre, tot
<1>6. scope' \in Scopes
  BY <1>3, <1>4, <1>5 DEF Scopes
<1>7. number \in Int
  BY <1>1, ScopeTypes
<1>8. fifo' \in Seq(Int) /\ Len(fifo') < Burst /\ position' \in Ring
  BY <1>1, <1>2, <1>7, WriteTyped
<1>9. number' \in 0 .. Numbers - 1
  BY <1>2, <1>7, NumbersModulo
<1>10. ScopeTyped'
  BY <1>1, <1>2, <1>6, <1>8, <1>9 DEF ScopeTyped, Scopes
<1> QED
  BY <1>2, <1>10, ScopeKeeps

\* The trigger, and the commands for the oscilloscope.
LEMMA ScopeCommandKeeps ==
  ASSUME IInv, Trigger \/ ResetScope \/ SetWindow \/ StartScope \/ ReadScope
  PROVE  IInv'
<1>1. UNCHANGED <<pc, keep_pulsing, enable_thread, active_thread, pulser, gen, crossed>>
  BY DEF Trigger, ResetScope, SetWindow, StartScope, ReadScope, threads, generator
<1>2. /\ ScopeTyped /\ Idle \in Scopes /\ [Idle EXCEPT !.run = TRUE] \in Scopes
      /\ 0 \in Ring /\ 0 \in 0 .. Numbers - 1 /\ <<>> \in Seq(Int) /\ Len(<<>>) < Burst
  <2>1. 0 \in Ring /\ 0 \in 0 .. Numbers - 1
    BY Sizes DEF Ring, Numbers
  <2>2. Burst \in Nat \ {0} /\ ScopeTyped
    BY Sizes DEF IInv, Typed, TypeOK
  <2>3. Idle \in Scopes
    BY <2>1 DEF Idle, Scopes
  <2>4. [Idle EXCEPT !.run = TRUE] \in Scopes
    BY <2>3 DEF Scopes
  <2>5. <<>> \in Seq(Int) /\ Len(<<>>) < Burst
    BY <2>2
  <2> QED
    BY <2>1, <2>2, <2>3, <2>4, <2>5
<1>3. CASE Trigger
  <2>1. scope' \in Scopes
    BY <1>2, <1>3 DEF ScopeTyped, Trigger, Scopes
  <2> QED
    BY <1>1, <1>2, <1>3, <2>1, ScopeKeeps DEF ScopeTyped, Trigger, Scopes
<1>4. CASE ResetScope
  BY <1>1, <1>2, <1>4, ScopeKeeps DEF ScopeTyped, ResetScope, Scopes
<1>5. CASE SetWindow
  BY <1>1, <1>2, <1>5, ScopeKeeps DEF ScopeTyped, SetWindow
<1>6. CASE StartScope
  <2>1. fifo' = [i \in 1 .. Len(fifo) |-> Old]
    BY <1>2, <1>6 DEF ScopeTyped, StartScope
  <2>2. Len(fifo) \in Nat /\ Old \in Int /\ Len(fifo) < Burst
    BY <1>2 DEF ScopeTyped, Old
  <2>3. fifo' \in Seq(Int) /\ Len(fifo') = Len(fifo)
    BY <2>1, <2>2
  <2> QED
    BY <1>1, <1>2, <1>6, <2>2, <2>3, ScopeKeeps DEF ScopeTyped, StartScope, Scopes
<1>7. CASE ReadScope
  BY <1>1, <1>2, <1>7, ScopeKeeps DEF ScopeTyped, ReadScope
<1> QED
  BY <1>3, <1>4, <1>5, <1>6, <1>7

-----------------------------------------------------------------------------
LEMMA StutterKeeps ==
  ASSUME IInv, UNCHANGED vars
  PROVE  IInv'
<1>1. /\ UNCHANGED <<pc, keep_pulsing, enable_thread, active_thread, pulser, gen, crossed>>
      /\ UNCHANGED <<window, scope, fifo, position, number, proper>>
  BY DEF vars
<1>2. ScopeTyped'
  BY <1>1 DEF IInv, Typed, TypeOK, ScopeTyped
<1> QED
  BY <1>1, <1>2, ScopeKeeps

LEMMA NextIInv == IInv /\ [Next]_vars => IInv'
<1> SUFFICES ASSUME IInv, [Next]_vars PROVE IInv'
  OBVIOUS
<1>1. CASE \E t \in Threads : Pulser(t)
  BY <1>1, PulserKeeps
<1>2. CASE Pulse
  BY <1>2, PulseKeeps
<1>3. CASE Sample
  BY <1>3, SampleKeeps
<1>4. CASE Accept \/ SetSpectrum \/ StartPulser \/ StopPulser \/ Disconnect
  BY <1>4, ClientKeeps
<1>5. CASE Stopped
  BY <1>5, StoppedKeeps
<1>6. CASE Started
  BY <1>6, StartedKeeps
<1>7. CASE Reset
  BY <1>7, ResetKeeps
<1>8. CASE Trigger \/ ResetScope \/ SetWindow \/ StartScope \/ ReadScope
  BY <1>8, ScopeCommandKeeps
<1>9. CASE UNCHANGED vars
  BY <1>9, StutterKeeps
<1> QED
  BY <1>1, <1>2, <1>3, <1>4, <1>5, <1>6, <1>7, <1>8, <1>9 DEF Next, Main

\* The inductive invariant: one pulser at most, active_thread raised as long as
\* there is one, room in the FIFO for the pulse it is about to write.
THEOREM IInvTheorem == Spec => []IInv
<1>1. Init => IInv
  BY InitIInv
<1>2. IInv /\ [Next]_vars => IInv'
  BY NextIInv
<1> QED
  BY <1>1, <1>2, PTL DEF Spec

\* For every spectrum, size and window: start, stop, disconnect and the pulser's
\* own end leave one pulser or none, and nothing of it to the next client.
THEOREM PulserTheorem == Spec => []PulserKept
<1>1. IInv => PulserKept
  BY DEF IInv, Typed, PulserKept
<1> QED
  BY <1>1, IInvTheorem, PTL

-----------------------------------------------------------------------------
\* Induction over sets of numbers.
LEMMA Smallest ==
  ASSUME NEW S \in SUBSET Nat, S # {}
  PROVE  \E n \in S : \A m \in S : n <= m
<1> DEFINE R == {p \in Nat \X Nat : p[1] < p[2]}
<1>1. IsWellFoundedOn(R, Nat)
  BY NatLessThanWellFounded DEF OpToRel
<1> HIDE DEF R
<1>2. PICK n \in S : \A m \in S : ~(<<m, n>> \in R)
  BY <1>1, WFMin
<1>3. ASSUME NEW m \in S
      PROVE  n <= m
  <2>1. ~(m < n)
    BY <1>2 DEF R
  <2> QED
    BY <2>1
<1> QED
  BY <1>3

LEMMA Induction ==
  ASSUME NEW S \in SUBSET Nat, 0 \in S, \A n \in S : n + 1 \in S
  PROVE  \A n \in Nat : n \in S
<1> SUFFICES ASSUME Nat \ S # {} PROVE FALSE
  OBVIOUS
<1>1. PICK n \in Nat \ S : \A m \in Nat \ S : n <= m
  BY Smallest
<1>2. n # 0 /\ n - 1 \in Nat /\ ~(n <= n - 1)
  BY <1>1
<1>3. n - 1 \in S
  BY <1>1, <1>2
<1> QED
  BY <1>2, <1>3

\* The bins of a spectrum.
Spectrum == [0 .. Bins - 1 -> Nat]

\* The sums that the histogram is made of.
LEMMA SumDefined ==
  ASSUME NEW s \in Spectrum, Bins \in Nat \ {0}
  PROVE  \E f \in Spectrum : f = [i \in 0 .. Bins - 1 |-> s[i] + (IF i = 0 THEN 0 ELSE f[i - 1])]
<1> DEFINE Upto(f, n) == \A i \in 0 .. Bins - 1 :
                            i <= n => f[i] = s[i] + (IF i = 0 THEN 0 ELSE f[i - 1])
           S == {n \in Nat : \E f \in Spectrum : Upto(f, n)}
<1>1. 0 \in S
  <2>1. s \in Spectrum /\ Upto(s, 0)
    BY DEF Spectrum
  <2> QED
    BY <2>1
<1>2. ASSUME NEW n \in S PROVE n + 1 \in S
  <2>1. n \in Nat /\ \E f \in Spectrum : Upto(f, n)
    OBVIOUS
  <2>2. PICK f \in Spectrum : Upto(f, n)
    BY <2>1
  <2>3. CASE n + 1 <= Bins - 1
    <3> DEFINE g == [f EXCEPT ![n + 1] = s[n + 1] + f[n]]
    <3>1. n \in 0 .. Bins - 1 /\ n + 1 \in 0 .. Bins - 1 /\ f[n] \in Nat /\ s[n + 1] \in Nat
      BY <2>1, <2>3 DEF Spectrum
    <3>2. g \in Spectrum
      <4>1. s[n + 1] + f[n] \in Nat
        BY <3>1
      <4> QED
        BY <3>1, <4>1 DEF Spectrum
    <3>3. ASSUME NEW i \in 0 .. Bins - 1, i <= n + 1
          PROVE  g[i] = s[i] + (IF i = 0 THEN 0 ELSE g[i - 1])
      <4>1. f \in [0 .. Bins - 1 -> Nat]
        BY DEF Spectrum
      <4>2. CASE i = n + 1
        <5>1. g[i] = s[n + 1] + f[n] /\ i # 0 /\ i - 1 = n
          BY <2>1, <3>1, <4>1, <4>2
        <5>2. g[i - 1] = f[n]
          BY <2>1, <3>1, <4>1, <5>1
        <5> QED
          BY <4>2, <5>1, <5>2
      <4>3. CASE i # n + 1
        <5>1. i <= n /\ g[i] = f[i]
          BY <2>1, <3>1, <3>3, <4>1, <4>3
        <5>2. i # 0 => i - 1 \in 0 .. Bins - 1 /\ g[i - 1] = f[i - 1]
          BY <2>1, <3>1, <3>3, <4>1, <5>1
        <5> QED
          BY <2>2, <5>1, <5>2
      <4> QED
        BY <4>2, <4>3
    <3>4. Upto(g, n + 1)
      BY <3>3
    <3> HIDE DEF g, Upto
    <3>5. \E h \in Spectrum : Upto(h, n + 1)
      BY <3>2, <3>4
    <3> QED
      BY <2>1, <3>5
  <2>4. CASE ~(n + 1 <= Bins - 1)
    BY <2>1, <2>2, <2>4
  <2> QED
    BY <2>3, <2>4
<1>3. Bins - 1 \in S
  <2> HIDE DEF S
  <2>1. S \in SUBSET Nat
    BY DEF S
  <2> QED
    BY <1>1, <1>2, <2>1, Induction
<1>4. PICK f \in Spectrum : Upto(f, Bins - 1)
  BY <1>3
<1>5. f = [i \in 0 .. Bins - 1 |-> f[i]]
  BY DEF Spectrum
<1>6. \A i \in 0 .. Bins - 1 : f[i] = s[i] + (IF i = 0 THEN 0 ELSE f[i - 1])
  BY <1>4
<1> QED
  BY <1>5, <1>6

LEMMA SumValues ==
  ASSUME NEW s \in Spectrum, Bins \in Nat \ {0}
  PROVE  /\ Sum(s) \in Spectrum
         /\ \A i \in 0 .. Bins - 1 : Sum(s)[i] = s[i] + (IF i = 0 THEN 0 ELSE Sum(s)[i - 1])
<1> DEFINE Eq(f) == f = [i \in 0 .. Bins - 1 |-> s[i] + (IF i = 0 THEN 0 ELSE f[i - 1])]
<1>1. \E f : Eq(f)
  BY SumDefined
<1>2. Eq(Sum(s))
  BY <1>1 DEF Sum
<1>3. \A i \in 0 .. Bins - 1 : Sum(s)[i] = s[i] + (IF i = 0 THEN 0 ELSE Sum(s)[i - 1])
  BY <1>2
<1> DEFINE S == {n \in Nat : n <= Bins - 1 => Sum(s)[n] \in Nat}
<1>4. \A i \in 0 .. Bins - 1 : s[i] \in Nat
  BY DEF Spectrum
<1>5. 0 \in S
  BY <1>3, <1>4
<1>6. ASSUME NEW n \in S PROVE n + 1 \in S
  <2>1. n \in Nat /\ (n <= Bins - 1 => Sum(s)[n] \in Nat)
    OBVIOUS
  <2>2. CASE n + 1 <= Bins - 1
    <3>1. n <= Bins - 1 /\ n + 1 \in 0 .. Bins - 1 /\ n + 1 # 0 /\ (n + 1) - 1 = n
      BY <2>1, <2>2
    <3>2. Sum(s)[n + 1] = s[n + 1] + Sum(s)[n]
      BY <1>3, <3>1
    <3>3. s[n + 1] + Sum(s)[n] \in Nat
      BY <1>4, <2>1, <3>1
    <3> QED
      BY <2>1, <3>2, <3>3
  <2> QED
    BY <2>1, <2>2
<1>7. \A n \in Nat : n \in S
  <2> HIDE DEF S
  <2>1. S \in SUBSET Nat
    BY DEF S
  <2> QED
    BY <1>5, <1>6, <2>1, Induction
<1>8. \A i \in 0 .. Bins - 1 : Sum(s)[i] \in Nat
  BY <1>7
<1>9. Sum(s) = [i \in 0 .. Bins - 1 |-> Sum(s)[i]]
  BY <1>2, Zenon
<1> QED
  BY <1>3, <1>8, <1>9 DEF Spectrum

\* One round of the loop of lower_bound() on the bins from i up to j.
Spans == (0 .. Bins) \X (0 .. Bins)
Middle(i, j) == i + (j - i) \div 2
Round(f, array, value, span) ==
    IF span[1] >= span[2] THEN span[1]
      ELSE IF value > array[Middle(span[1], span[2])]
             THEN f[<<Middle(span[1], span[2]) + 1, span[2]>>]
      ELSE f[<<span[1], Middle(span[1], span[2])>>]
Searches(f, array, value) == f = [span \in Spans |-> Round(f, array, value, span)]

LEMMA MiddleBetween ==
  ASSUME NEW i \in Nat, NEW j \in Nat, i < j
  PROVE  /\ Middle(i, j) \in Nat /\ i <= Middle(i, j) /\ Middle(i, j) < j
         /\ Bins \in Nat /\ j <= Bins =>
                /\ Middle(i, j) \in 0 .. Bins /\ Middle(i, j) + 1 \in 0 .. Bins
  BY DEF Middle

LEMMA SearchDefined ==
  ASSUME NEW array, NEW value, Bins \in Nat
  PROVE  \E f : Searches(f, array, value)
<1> DEFINE Upto(f, n) == \A i, j \in 0 .. Bins :
                            j - i <= n => f[<<i, j>>] = Round(f, array, value, <<i, j>>)
           S == {n \in Nat : \E f : Upto(f, n)}
<1>1. 0 \in S
  <2> DEFINE f == [span \in Spans |-> span[1]]
  <2>1. ASSUME NEW i \in 0 .. Bins, NEW j \in 0 .. Bins, j - i <= 0
        PROVE  f[<<i, j>>] = Round(f, array, value, <<i, j>>)
    <3>1. <<i, j>> \in Spans /\ i >= j
      BY <2>1 DEF Spans
    <3>2. f[<<i, j>>] = i
      BY <3>1
    <3> QED
      BY <3>1, <3>2 DEF Round
  <2>2. Upto(f, 0)
    BY <2>1
  <2> HIDE DEF f, Upto
  <2>3. \E h : Upto(h, 0)
    BY <2>2
  <2> QED
    BY <2>3
<1>2. ASSUME NEW n \in S PROVE n + 1 \in S
  <2>1. n \in Nat /\ \E f : Upto(f, n)
    OBVIOUS
  <2>2. PICK f : Upto(f, n)
    BY <2>1
  <2> DEFINE g == [span \in Spans |-> Round(f, array, value, span)]
  <2>3. \A i, j \in 0 .. Bins : g[<<i, j>>] = Round(f, array, value, <<i, j>>)
    <3> SUFFICES ASSUME NEW i \in 0 .. Bins, NEW j \in 0 .. Bins
                 PROVE  g[<<i, j>>] = Round(f, array, value, <<i, j>>)
      OBVIOUS
    <3>1. <<i, j>> \in Spans
      BY DEF Spans
    <3> QED
      BY <3>1
  <2> HIDE DEF g
  <2>4. \A i, j \in 0 .. Bins : j - i <= n => g[<<i, j>>] = f[<<i, j>>]
    BY <2>2, <2>3
  <2>5. ASSUME NEW i \in 0 .. Bins, NEW j \in 0 .. Bins, j - i <= n + 1
        PROVE  g[<<i, j>>] = Round(g, array, value, <<i, j>>)
    <3>1. CASE i >= j
      BY <2>3, <3>1 DEF Round
    <3>2. CASE ~(i >= j)
      <4> DEFINE k == Middle(i, j)
      <4>0. i \in Nat /\ j \in Nat /\ i < j /\ j <= Bins /\ n \in Nat /\ j - i <= n + 1
        BY <2>1, <2>5, <3>2
      <4>1. /\ k \in 0 .. Bins /\ k + 1 \in 0 .. Bins
            /\ j - (k + 1) <= n /\ k - i <= n
        <5>1. /\ k \in Nat /\ i <= k /\ k < j
              /\ k \in 0 .. Bins /\ k + 1 \in 0 .. Bins
          BY <4>0, MiddleBetween
        <5> HIDE DEF k, S, Upto
        <5> QED
          BY <4>0, <5>1
      <4>2. g[<<k + 1, j>>] = f[<<k + 1, j>>] /\ g[<<i, k>>] = f[<<i, k>>]
        BY <2>4, <4>1
      <4> QED
        BY <2>3, <4>2 DEF Round
    <3> QED
      BY <3>1, <3>2
  <2>6. Upto(g, n + 1)
    BY <2>5
  <2> HIDE DEF Upto
  <2>7. \E h : Upto(h, n + 1)
    BY <2>6
  <2> QED
    BY <2>1, <2>7
<1>3. Bins \in S
  <2> HIDE DEF S
  <2>1. S \in SUBSET Nat
    BY DEF S
  <2> QED
    BY <1>1, <1>2, <2>1, Induction
<1>4. PICK f : Upto(f, Bins)
  BY <1>3
<1> DEFINE g == [span \in Spans |-> f[span]]
<1>5. ASSUME NEW span \in Spans
      PROVE  g[span] = Round(g, array, value, span)
  <2>1. PICK i, j \in 0 .. Bins : span = <<i, j>>
    BY DEF Spans
  <2>2. g[span] = Round(f, array, value, <<i, j>>)
    <3>1. j - i <= Bins
      BY <2>1
    <3> QED
      BY <1>4, <2>1, <3>1
  <2>3. CASE i >= j
    BY <2>1, <2>2, <2>3 DEF Round
  <2>4. CASE ~(i >= j)
    <3> DEFINE k == Middle(i, j)
    <3>1. k \in 0 .. Bins /\ k + 1 \in 0 .. Bins
      BY <2>1, <2>4, MiddleBetween
    <3>2. <<k + 1, j>> \in Spans /\ <<i, k>> \in Spans
      BY <2>1, <3>1 DEF Spans
    <3>3. g[<<k + 1, j>>] = f[<<k + 1, j>>] /\ g[<<i, k>>] = f[<<i, k>>]
      BY <3>2
    <3> QED
      BY <2>1, <2>2, <3>3 DEF Round
  <2> QED
    BY <2>3, <2>4
<1>6. Searches(g, array, value)
  BY <1>5 DEF Searches
<1> HIDE DEF g
<1> QED
  BY <1>6

\* What lower_bound() returns: every bin below it is too low, it is not.
LEMMA SearchFinds ==
  ASSUME NEW array, NEW value, NEW f, Searches(f, array, value), Bins \in Nat
  PROVE  \A i, j \in 0 .. Bins : i <= j =>
             /\ f[<<i, j>>] \in i .. j
             /\ f[<<i, j>>] < j => ~(value > array[f[<<i, j>>]])
             /\ i < f[<<i, j>>] => value > array[f[<<i, j>>] - 1]
<1> DEFINE Found(i, j, r) == /\ r \in i .. j
                             /\ r < j => ~(value > array[r])
                             /\ i < r => value > array[r - 1]
           S == {n \in Nat : \A i, j \in 0 .. Bins :
                                 i <= j /\ j - i <= n => Found(i, j, f[<<i, j>>])}
<1>0. \A i, j \in 0 .. Bins : f[<<i, j>>] = Round(f, array, value, <<i, j>>)
  <2> SUFFICES ASSUME NEW i \in 0 .. Bins, NEW j \in 0 .. Bins
               PROVE  f[<<i, j>>] = Round(f, array, value, <<i, j>>)
    OBVIOUS
  <2>1. <<i, j>> \in Spans
    BY DEF Spans
  <2> QED
    BY <2>1 DEF Searches
<1>1. 0 \in S
  <2> SUFFICES ASSUME NEW i \in 0 .. Bins, NEW j \in 0 .. Bins, i <= j, j - i <= 0
               PROVE  Found(i, j, f[<<i, j>>])
    OBVIOUS
  <2>1. i = j /\ i >= j
    OBVIOUS
  <2>2. f[<<i, j>>] = i
    BY <1>0, <2>1 DEF Round
  <2> QED
    BY <2>1, <2>2
<1>2. ASSUME NEW n \in S PROVE n + 1 \in S
  <2>0. n \in Nat
    OBVIOUS
  <2>1. \A i, j \in 0 .. Bins : i <= j /\ j - i <= n => Found(i, j, f[<<i, j>>])
    OBVIOUS
  <2>2. ASSUME NEW i \in 0 .. Bins, NEW j \in 0 .. Bins, i <= j, j - i <= n + 1
        PROVE  Found(i, j, f[<<i, j>>])
    <3> HIDE DEF S
    <3>1. CASE i >= j
      <4>1. i = j
        BY <2>2, <3>1
      <4>2. f[<<i, j>>] = i
        BY <1>0, <3>1 DEF Round
      <4> QED
        BY <4>1, <4>2
    <3>2. CASE ~(i >= j)
      <4> DEFINE k == Middle(i, j)
      <4>0. i \in Nat /\ j \in Nat /\ i < j /\ j <= Bins /\ n \in Nat /\ j - i <= n + 1
        BY <2>0, <2>2, <3>2
      <4>1. /\ k \in 0 .. Bins /\ k + 1 \in 0 .. Bins /\ i <= k /\ k < j
            /\ j - (k + 1) <= n /\ k - i <= n
        <5>1. /\ k \in Nat /\ i <= k /\ k < j
              /\ k \in 0 .. Bins /\ k + 1 \in 0 .. Bins
          BY <4>0, MiddleBetween
        <5> HIDE DEF k, Found
        <5> QED
          BY <4>0, <5>1
      <4> HIDE DEF k
      <4>2. f[<<i, j>>] = IF value > array[k] THEN f[<<k + 1, j>>] ELSE f[<<i, k>>]
        BY <1>0, <3>2 DEF Round, k
      <4>3. CASE value > array[k]
        <5>1. Found(k + 1, j, f[<<k + 1, j>>]) /\ f[<<i, j>>] = f[<<k + 1, j>>]
          BY <2>1, <4>1, <4>2, <4>3
        <5> DEFINE r == f[<<i, j>>]
        <5>2. r \in k + 1 .. j /\ (r < j => ~(value > array[r]))
          BY <5>1
        <5>3. r # k + 1 => value > array[r - 1]
          <6>1. k + 1 < r => value > array[r - 1]
            BY <5>1
          <6> HIDE DEF r
          <6> QED
            BY <4>1, <5>2, <6>1
        <5>4. r = k + 1 => value > array[r - 1]
          <6> HIDE DEF r
          <6> SUFFICES ASSUME r = k + 1 PROVE value > array[r - 1]
            OBVIOUS
          <6>1. r - 1 = k
            BY <4>1
          <6> QED
            BY <4>3, <6>1
        <5> HIDE DEF r
        <5>5. Found(i, j, r)
          BY <4>1, <5>2, <5>3, <5>4
        <5> QED
          BY <5>5 DEF r
      <4>4. CASE ~(value > array[k])
        <5>1. Found(i, k, f[<<i, k>>]) /\ f[<<i, j>>] = f[<<i, k>>]
          BY <2>1, <4>1, <4>2, <4>4
        <5> DEFINE r == f[<<i, j>>]
        <5>2. /\ r \in i .. k /\ (r < k => ~(value > array[r]))
              /\ (i < r => value > array[r - 1])
          BY <5>1
        <5> HIDE DEF r
        <5>3. r < j => ~(value > array[r])
          <6>1. CASE r < k
            BY <5>2, <6>1
          <6>2. CASE ~(r < k)
            <7>1. r = k
              BY <4>1, <5>2, <6>2
            <7> QED
              BY <4>4, <7>1
          <6> QED
            BY <6>1, <6>2
        <5>4. Found(i, j, r)
          BY <4>1, <5>2, <5>3
        <5> QED
          BY <5>4 DEF r
      <4> QED
        BY <4>3, <4>4
    <3> QED
      BY <3>1, <3>2
  <2> HIDE DEF Found
  <2> QED
    BY <2>0, <2>2
<1>3. Bins \in S
  <2> HIDE DEF S
  <2>1. S \in SUBSET Nat
    BY DEF S
  <2> QED
    BY <1>1, <1>2, <2>1, Induction
<1>4. \A i, j \in 0 .. Bins : i <= j => Found(i, j, f[<<i, j>>])
  <2> HIDE DEF Found
  <2>1. \A i, j \in 0 .. Bins : j - i <= Bins
    OBVIOUS
  <2> QED
    BY <1>3, <2>1
<1> QED
  BY <1>4

LEMMA LowerBound ==
  ASSUME NEW array, NEW value, Bins \in Nat
  PROVE  LET r == lower_bound(array, value)
         IN  /\ r \in 0 .. Bins
             /\ r < Bins => ~(value > array[r])
             /\ 0 < r => value > array[r - 1]
<1> DEFINE F == CHOOSE f : Searches(f, array, value)
<1>1. Searches(F, array, value)
  BY SearchDefined
<1>2. lower_bound(array, value) = F[<<0, Bins>>]
  BY DEF lower_bound, Searches, Round, Middle, Spans
<1> HIDE DEF F
<1>3. /\ F[<<0, Bins>>] \in 0 .. Bins
      /\ F[<<0, Bins>>] < Bins => ~(value > array[F[<<0, Bins>>]])
      /\ 0 < F[<<0, Bins>>] => value > array[F[<<0, Bins>>] - 1]
  BY <1>1, SearchFinds
<1> QED
  BY <1>2, <1>3

LEMMA Quotients ==
  ASSUME NEW d \in Nat \ {0}
  PROVE  /\ \A n \in Nat : n \div d \in Nat
         /\ 0 \div d = 0
         /\ \A n \in Nat : (d * n) \div d = n
  OBVIOUS

\* A random number is in the range of a bin that the spectrum has pulses in.
LEMMA DrawnBin ==
  ASSUME NEW s \in Spectrum, Total(s) >= 1, NEW value \in 0 .. RAND_MAX - 1
  PROVE  /\ lower_bound(Histogram(s), value) \in 0 .. Bins - 1
         /\ s[lower_bound(Histogram(s), value)] > 0
<1> DEFINE r == lower_bound(Histogram(s), value)
           Q(i) == (Sum(s)[i] * RAND_MAX) \div Total(s)
<1>0. Bins \in Nat \ {0} /\ RAND_MAX \in Nat \ {0}
  BY McphaAssumption
<1>1. /\ \A i \in 0 .. Bins - 1 : Sum(s)[i] \in Nat /\ s[i] \in Nat
      /\ Sum(s)[0] = s[0]
      /\ \A i \in 1 .. Bins - 1 : Sum(s)[i] = s[i] + Sum(s)[i - 1]
  <2>1. Sum(s) \in Spectrum
    BY <1>0, SumValues
  <2>2. \A i \in 0 .. Bins - 1 : Sum(s)[i] = s[i] + (IF i = 0 THEN 0 ELSE Sum(s)[i - 1])
    BY <1>0, SumValues
  <2>3. \A i \in 0 .. Bins - 1 : Sum(s)[i] \in Nat /\ s[i] \in Nat
    BY <2>1 DEF Spectrum
  <2>4. 0 \in 0 .. Bins - 1
    BY <1>0
  <2>5. Sum(s)[0] = s[0]
    BY <2>2, <2>3, <2>4
  <2>6. \A i \in 1 .. Bins - 1 : i \in 0 .. Bins - 1 /\ i # 0
    BY <1>0
  <2> QED
    BY <2>2, <2>3, <2>5, <2>6
<1>2. Total(s) = Sum(s)[Bins - 1] /\ Total(s) \in Nat \ {0}
  <2>1. Bins - 1 \in 0 .. Bins - 1
    BY <1>0
  <2> QED
    BY <1>1, <2>1 DEF Total
<1>3. \A i \in 0 .. Bins - 1 : Q(i) \in Nat
  <2> SUFFICES ASSUME NEW i \in 0 .. Bins - 1 PROVE Q(i) \in Nat
    OBVIOUS
  <2>1. Sum(s)[i] * RAND_MAX \in Nat
    BY <1>0, <1>1
  <2> QED
    BY <1>2, <2>1, Quotients
<1>4. Q(Bins - 1) = RAND_MAX
  BY <1>0, <1>2, Quotients
<1>5. \A i \in 0 .. Bins - 1 : Histogram(s)[i] = Q(i) - 1
  BY DEF Histogram
<1>6. /\ r \in 0 .. Bins
      /\ r < Bins => ~(value > Histogram(s)[r])
      /\ 0 < r => value > Histogram(s)[r - 1]
  BY <1>0, LowerBound
<1> HIDE DEF r, Q
<1>7. r \in 0 .. Bins - 1
  <2> SUFFICES ASSUME r = Bins PROVE FALSE
    BY <1>0, <1>6
  <2>1. Bins - 1 \in 0 .. Bins - 1 /\ 0 < r
    BY <1>0
  <2>2. Histogram(s)[r - 1] = RAND_MAX - 1
    BY <1>4, <1>5, <2>1
  <2> QED
    BY <1>0, <1>6, <2>1, <2>2
<1>8. s[r] # 0
  <2> SUFFICES ASSUME s[r] = 0 PROVE FALSE
    OBVIOUS
  <2>0. r < Bins
    BY <1>0, <1>7
  <2>1. ~(value > Q(r) - 1)
    BY <1>5, <1>6, <1>7, <2>0
  <2>2. CASE r = 0
    <3>1. Sum(s)[r] * RAND_MAX = 0
      BY <1>0, <1>1, <2>2
    <3>2. Q(r) = 0
      BY <1>2, <3>1, Quotients DEF Q
    <3> QED
      BY <1>0, <2>1, <3>2
  <2>3. CASE r # 0
    <3>1. r \in 1 .. Bins - 1 /\ r - 1 \in 0 .. Bins - 1 /\ 0 < r
      BY <1>0, <1>7, <2>3
    <3>2. Sum(s)[r] = Sum(s)[r - 1]
      BY <1>1, <3>1
    <3>3. Q(r) = Q(r - 1)
      BY <3>2 DEF Q
    <3>4. value > Q(r - 1) - 1
      BY <1>5, <1>6, <3>1
    <3> QED
      BY <2>1, <3>3, <3>4
  <2> QED
    BY <2>2, <2>3
<1>9. s[r] \in Nat
  BY <1>1, <1>7
<1> QED
  BY <1>7, <1>8, <1>9 DEF r

-----------------------------------------------------------------------------
\* What the generator is fed.

\* The words in the FIFO alternate; the last is an amplitude when a pulser is
\* between its two writes.
Fed(f) == \A i \in 1 .. Len(f) : f[i] = IF i % 2 = 1 THEN "amplitude" ELSE "interval"
Between == \E t \in Threads : pulser[t] = "second"
FedWhole == ~crossed => Fed(gen) /\ (Between <=> Len(gen) % 2 = 1)

\* A pulser draws from the histogram of the spectrum it was started with.
Running == {"first", "second", "test", "wait", "drawn"}
HistogramKept ==
    /\ spectrum \in Spectrum /\ amplitude \in [Threads -> Int]
    /\ \A t \in Threads : pulser[t] \in Running =>
           weights \in Spectrum /\ Total(weights) >= 1 /\ hist = Histogram(weights)

Faithful == FedWhole /\ HistogramKept /\ AmplitudesFromSpectrum

LEMMA Parity ==
  ASSUME NEW n \in Nat
  PROVE  /\ n % 2 = 0 \/ n % 2 = 1
         /\ (n + 1) % 2 = 1 <=> n % 2 = 0
         /\ n >= 2 => (n - 2) % 2 = n % 2
         /\ (n + 2) % 2 = n % 2
  OBVIOUS

LEMMA FedSteps ==
  ASSUME NEW f \in Seq(Words2), Fed(f)
  PROVE  /\ Len(f) % 2 = 0 => Fed(Append(f, "amplitude"))
         /\ Len(f) % 2 = 1 => Fed(Append(f, "interval"))
         /\ Len(f) >= 2 => Fed(SubSeq(f, 3, Len(f)))
<1> DEFINE n == Len(f)
<1>1. n \in Nat
  OBVIOUS
<1>2. /\ \A w : Len(Append(f, w)) = n + 1 /\ Append(f, w)[n + 1] = w
      /\ \A w : \A i \in 1 .. n : Append(f, w)[i] = f[i]
  OBVIOUS
<1>3. \A i \in 1 .. n : f[i] = IF i % 2 = 1 THEN "amplitude" ELSE "interval"
  BY DEF Fed
<1>4. n >= 2 => /\ Len(SubSeq(f, 3, n)) = n - 2
                /\ \A i \in 1 .. n - 2 : SubSeq(f, 3, n)[i] = f[i + 2]
  <2> SUFFICES ASSUME n >= 2
               PROVE  /\ Len(SubSeq(f, 3, n)) = n - 2
                      /\ \A i \in 1 .. n - 2 : SubSeq(f, 3, n)[i] = f[i + 2]
    OBVIOUS
  <2>1. Len(SubSeq(f, 3, n)) = n - 2
    BY FifoSteps DEF Words2
  <2>2. \A i \in 1 .. n - 2 : SubSeq(f, 3, n)[i] = f[i + 2]
    BY <1>1
  <2> QED
    BY <2>1, <2>2
<1> HIDE DEF n
<1>5. \A i \in 1 .. n + 1 : i \in 1 .. n \/ i = n + 1
  BY <1>1
<1>6. ASSUME n % 2 = 0
      PROVE  \A i \in 1 .. n + 1 :
                 Append(f, "amplitude")[i] = IF i % 2 = 1 THEN "amplitude" ELSE "interval"
  <2>1. (n + 1) % 2 = 1
    BY <1>1, <1>6, Parity
  <2> QED
    BY <1>2, <1>3, <1>5, <2>1
<1>7. ASSUME n % 2 = 1
      PROVE  \A i \in 1 .. n + 1 :
                 Append(f, "interval")[i] = IF i % 2 = 1 THEN "amplitude" ELSE "interval"
  <2>1. (n + 1) % 2 # 1
    BY <1>1, <1>7, Parity
  <2> QED
    BY <1>2, <1>3, <1>5, <2>1
<1>8. ASSUME n >= 2, NEW i \in 1 .. n - 2
      PROVE  SubSeq(f, 3, n)[i] = IF i % 2 = 1 THEN "amplitude" ELSE "interval"
  <2>1. i + 2 \in 1 .. n /\ i \in Nat
    BY <1>1, <1>8
  <2>2. (i + 2) % 2 = i % 2
    BY <2>1, Parity
  <2> QED
    BY <1>3, <1>4, <1>8, <2>1, <2>2
<1> QED
  BY <1>2, <1>4, <1>6, <1>7, <1>8 DEF Fed, n

LEMMA InitFaithful == Init => Faithful
<1> SUFFICES ASSUME Init PROVE Faithful
  OBVIOUS
<1>1. /\ gen = <<>> /\ Len(gen) = 0 /\ \A t \in Threads : pulser[t] = "none"
      /\ amplitude \in [Threads -> Int]
  BY DEF Init
<1>2. spectrum \in Spectrum
  BY DEF Init, Flat, Spectrum
<1>3. FedWhole
  <2>1. Len(gen) % 2 = 0 /\ \A i \in 1 .. Len(gen) : FALSE
    BY <1>1
  <2> QED
    BY <1>1, <2>1 DEF FedWhole, Fed, Between
<1> QED
  BY <1>1, <1>2, <1>3 DEF Faithful, HistogramKept, AmplitudesFromSpectrum, Running

\* The pulser, its histogram and the FIFO as they are.
LEMMA OthersFaithful ==
  ASSUME Faithful, UNCHANGED <<hist, weights, pulser, amplitude, gen, crossed>>,
         spectrum' \in Spectrum
  PROVE  Faithful'
<1>1. FedWhole'
  BY DEF Faithful, FedWhole, Between, Fed
<1>2. HistogramKept'
  BY DEF Faithful, HistogramKept, Running
<1>3. AmplitudesFromSpectrum'
  BY DEF Faithful, AmplitudesFromSpectrum
<1> QED
  BY <1>1, <1>2, <1>3 DEF Faithful

\* The client edits the spectrum.
LEMMA SpectrumFaithful ==
  ASSUME Faithful, SetSpectrum
  PROVE  Faithful'
<1>1. spectrum' \in Spectrum
  <2>1. spectrum \in Spectrum /\ Weights \subseteq Nat
    BY McphaAssumption DEF Faithful, HistogramKept
  <2> QED
    BY <2>1 DEF SetSpectrum, Flat, Spectrum
<1> QED
  BY <1>1, OthersFaithful DEF SetSpectrum, threads, generator

\* A pulser's own step.
LEMMA PulserFaithful ==
  ASSUME IInv, Faithful, NEW t \in Threads, Pulser(t)
  PROVE  Faithful'
<1> DEFINE States == {"none", "failed", "first", "second", "test", "wait", "drawn"}
<1>1. /\ UNCHANGED <<spectrum, hist, weights, crossed>>
      /\ pulser[t] \in Running
      /\ \E to \in States : pulser' = [pulser EXCEPT ![t] = to]
  BY DEF Pulser, WriteAmplitude, WriteInterval, TestEnabled, EndPulser, Draw, Move, generator,
         Running
<1>2. pulser \in [Threads -> States] /\ gen \in Seq(Words2) /\ Len(gen) \in Nat
  BY DEF IInv, Typed, TypeOK
<1>3. /\ \A u \in Threads \ {t} : pulser[u] = "none" /\ pulser'[u] = "none"
      /\ pulser' \in [Threads -> States]
  BY <1>1, <1>2 DEF IInv, OnePulser, Running
<1>4. /\ weights \in Spectrum /\ Total(weights) >= 1 /\ hist = Histogram(weights)
      /\ spectrum \in Spectrum /\ amplitude \in [Threads -> Int]
  BY <1>1 DEF Faithful, HistogramKept
<1>5. (Between <=> pulser[t] = "second") /\ (Between' <=> pulser'[t] = "second")
  BY <1>3 DEF Between
<1>6. /\ amplitude' \in [Threads -> Int]
      /\ pulser'[t] = "drawn" => /\ amplitude'[t] \in 0 .. Bins - 1
                                 /\ weights[amplitude'[t]] > 0
  <2>1. CASE Draw(t)
    <3>1. PICK value \in 0 .. RAND_MAX - 1 :
              amplitude' = [amplitude EXCEPT ![t] = lower_bound(hist, value)]
      BY <2>1 DEF Draw
    <3>2. /\ lower_bound(hist, value) \in 0 .. Bins - 1
          /\ weights[lower_bound(hist, value)] > 0
      BY <1>4, DrawnBin
    <3>3. lower_bound(hist, value) \in Int
      BY <3>2
    <3> HIDE DEF States
    <3>4. amplitude'[t] = lower_bound(hist, value) /\ amplitude' \in [Threads -> Int]
      BY <1>4, <3>1, <3>3
    <3> QED
      BY <3>2, <3>4
  <2>2. CASE WriteAmplitude(t)
    BY <1>2, <1>4, <2>2 DEF WriteAmplitude, Move
  <2>3. CASE WriteInterval(t) \/ TestEnabled(t) \/ EndPulser(t)
    BY <1>2, <1>4, <2>3 DEF WriteInterval, TestEnabled, EndPulser, Move
  <2> QED
    BY <2>1, <2>2, <2>3 DEF Pulser
<1>7. HistogramKept'
  BY <1>1, <1>3, <1>4, <1>6 DEF HistogramKept, Running
<1>8. AmplitudesFromSpectrum'
  <2>1. DOMAIN weights = 0 .. Bins - 1
    BY <1>4 DEF Spectrum
  <2> SUFFICES ASSUME NEW u \in Threads, pulser'[u] = "drawn"
               PROVE  amplitude'[u] \in DOMAIN weights' /\ weights'[amplitude'[u]] > 0
    BY DEF AmplitudesFromSpectrum
  <2>2. u = t
    BY <1>3
  <2> QED
    BY <1>1, <1>6, <2>1, <2>2
<1>9. FedWhole'
  <2> SUFFICES ASSUME ~crossed PROVE Fed(gen') /\ (Between' <=> Len(gen') % 2 = 1)
    BY <1>1 DEF FedWhole
  <2>1. Fed(gen) /\ (pulser[t] = "second" <=> Len(gen) % 2 = 1)
    BY <1>5 DEF Faithful, FedWhole
  <2>2. /\ Len(gen) % 2 = 0 \/ Len(gen) % 2 = 1
        /\ (Len(gen) + 1) % 2 = 1 <=> Len(gen) % 2 = 0
    BY <1>2, Parity
  <2>3. CASE WriteAmplitude(t)
    <3>1. pulser[t] # "second" /\ pulser'[t] = "second" /\ gen' = Append(gen, "amplitude")
      BY <1>2, <2>3 DEF WriteAmplitude, Move
    <3>2. Len(gen') = Len(gen) + 1
      BY <1>2, <3>1
    <3> QED
      BY <1>2, <1>5, <2>1, <2>2, <3>1, <3>2, FedSteps
  <2>4. CASE WriteInterval(t)
    <3>1. pulser[t] = "second" /\ pulser'[t] = "test" /\ gen' = Append(gen, "interval")
      BY <1>2, <2>4 DEF WriteInterval, Move
    <3>2. Len(gen') = Len(gen) + 1
      BY <1>2, <3>1
    <3> QED
      BY <1>2, <1>5, <2>1, <2>2, <3>1, <3>2, FedSteps
  <2>5. CASE TestEnabled(t) \/ EndPulser(t) \/ Draw(t)
    <3>1. pulser[t] # "second" /\ pulser'[t] # "second" /\ gen' = gen
      BY <1>2, <2>5 DEF TestEnabled, EndPulser, Draw, Move, generator
    <3> QED
      BY <1>5, <2>1, <3>1
  <2> QED
    BY <2>3, <2>4, <2>5 DEF Pulser
<1> QED
  BY <1>7, <1>8, <1>9 DEF Faithful

LEMMA PulseFaithful ==
  ASSUME IInv, Faithful, Pulse
  PROVE  Faithful'
<1>1. /\ UNCHANGED <<spectrum, hist, weights, pulser, amplitude, crossed>>
      /\ Len(gen) >= 2 /\ gen' = SubSeq(gen, 3, Len(gen))
  BY DEF Pulse, threads
<1>2. gen \in Seq(Words2) /\ Len(gen) \in Nat /\ Len(gen') = Len(gen) - 2
  BY <1>1, FifoSteps DEF IInv, Typed, TypeOK
<1>3. FedWhole'
  <2> SUFFICES ASSUME ~crossed PROVE Fed(gen') /\ (Between' <=> Len(gen') % 2 = 1)
    BY <1>1 DEF FedWhole
  <2>1. Fed(gen) /\ (Between <=> Len(gen) % 2 = 1) /\ (Between' <=> Between)
    BY <1>1 DEF Faithful, FedWhole, Between
  <2>2. Len(gen') % 2 = Len(gen) % 2
    BY <1>1, <1>2, Parity
  <2> QED
    BY <1>1, <1>2, <2>1, <2>2, FedSteps
<1>4. HistogramKept' /\ AmplitudesFromSpectrum'
  BY <1>1 DEF Faithful, HistogramKept, AmplitudesFromSpectrum, Running
<1> QED
  BY <1>3, <1>4 DEF Faithful

\* The generator is reset, and while no pulser is there one may be started.
LEMMA ResetFaithful ==
  ASSUME IInv, Faithful, Stopped \/ Started \/ Reset
  PROVE  Faithful'
<1>1. gen' = <<>> /\ Len(gen') = 0 /\ UNCHANGED <<spectrum, amplitude>>
  BY DEF Stopped, Started, Reset, ResetGenerator, threads
<1>2. ~crossed' => \A t \in Threads : pulser'[t] \in {"none", "first", "failed"}
  <2>1. CASE Stopped
    BY <2>1, NobodyThere DEF Stopped, threads
  <2>2. CASE Started
    <3>1. \A t \in Threads : pulser[t] = "none"
      BY <2>2, NobodyThere DEF Started
    <3>2. pulser \in [Threads -> {"none", "failed", "first", "second", "test", "wait", "drawn"}]
      BY DEF IInv, Typed, TypeOK
    <3> QED
      BY <2>2, <3>1, <3>2 DEF Started, threads, Move
  <2>3. CASE Reset
    BY <2>3 DEF Reset, threads
  <2> QED
    BY <2>1, <2>2, <2>3
<1>3. FedWhole'
  <2>1. Len(gen') % 2 = 0 /\ \A i \in 1 .. Len(gen') : FALSE
    BY <1>1
  <2>2. ~crossed' => ~Between'
    BY <1>2 DEF Between
  <2> QED
    BY <2>1, <2>2 DEF FedWhole, Fed
<1>4. CASE UNCHANGED <<pulser, hist, weights>>
  <2>1. HistogramKept' /\ AmplitudesFromSpectrum'
    BY <1>1, <1>4 DEF Faithful, HistogramKept, AmplitudesFromSpectrum, Running
  <2> QED
    BY <1>3, <2>1 DEF Faithful
<1>5. CASE ~UNCHANGED <<pulser, hist, weights>>
  <2>1. Started /\ ~(Total(spectrum) < 1)
    BY <1>5 DEF Stopped, Started, Reset, threads
  <2>2. hist' = Histogram(spectrum) /\ weights' = spectrum /\ active_thread = 0
    BY <2>1 DEF Started
  <2>3. spectrum \in Spectrum /\ amplitude \in [Threads -> Int]
    BY DEF Faithful, HistogramKept
  <2>4. Total(spectrum) >= 1
    <3>1. Total(spectrum) \in Nat
      <4>1. Bins \in Nat \ {0}
        BY McphaAssumption
      <4>2. Sum(spectrum) \in [0 .. Bins - 1 -> Nat] /\ Bins - 1 \in 0 .. Bins - 1
        BY <2>3, <4>1, SumValues DEF Spectrum
      <4> QED
        BY <4>2 DEF Total
    <3> QED
      BY <2>1, <3>1
  <2>5. HistogramKept'
    BY <1>1, <2>2, <2>3, <2>4 DEF HistogramKept
  <2>6. \A t \in Threads : pulser'[t] # "drawn"
    <3>1. \A t \in Threads : pulser[t] = "none"
      BY <2>2, NobodyThere
    <3>2. pulser \in [Threads -> {"none", "failed", "first", "second", "test", "wait", "drawn"}]
      BY DEF IInv, Typed, TypeOK
    <3> QED
      BY <2>1, <3>1, <3>2 DEF Started, threads, Move
  <2> QED
    BY <1>3, <2>5, <2>6 DEF Faithful, AmplitudesFromSpectrum
<1> QED
  BY <1>4, <1>5

LEMMA NextFaithful == IInv /\ Faithful /\ [Next]_vars => Faithful'
<1> SUFFICES ASSUME IInv, Faithful, [Next]_vars PROVE Faithful'
  OBVIOUS
<1>0. spectrum \in Spectrum
  BY DEF Faithful, HistogramKept
<1>1. CASE \E t \in Threads : Pulser(t)
  BY <1>1, PulserFaithful
<1>2. CASE Pulse
  BY <1>2, PulseFaithful
<1>3. CASE SetSpectrum
  BY <1>3, SpectrumFaithful
<1>4. CASE Stopped \/ Started \/ Reset
  BY <1>4, ResetFaithful
<1>5. CASE \/ Accept \/ StartPulser \/ StopPulser \/ Disconnect
           \/ ResetScope \/ SetWindow \/ StartScope \/ ReadScope \/ Trigger \/ Sample
           \/ UNCHANGED vars
  <2>1. UNCHANGED <<hist, weights, pulser, amplitude, gen, crossed, spectrum>>
    BY <1>5 DEF Accept, StartPulser, StopPulser, Disconnect, ResetScope, SetWindow, StartScope,
                ReadScope, Trigger, Sample, vars, threads, generator
  <2> QED
    BY <1>0, <2>1, OthersFaithful
<1> QED
  BY <1>1, <1>2, <1>3, <1>4, <1>5 DEF Next, Main

\* For every spectrum, edited at will, and every random number: the FIFO holds
\* amplitudes and intervals in turn, and a pulse has an amplitude whose bin has
\* a weight, which is what the sums of the histogram and lower_bound() are for.
THEOREM FaithfulTheorem == Spec => []PulsesFaithful
<1>1. Init => Faithful
  BY InitFaithful
<1>2. IInv /\ Faithful /\ [Next]_vars => Faithful'
  BY NextFaithful
<1>3. Typed /\ Faithful => PulsesFaithful
  <2> SUFFICES ASSUME Typed, Faithful PROVE PulsesFaithful
    OBVIOUS
  <2>1. DOMAIN gen = 1 .. Len(gen)
    BY DEF Typed
  <2>2. PulsesWhole
    BY <2>1 DEF Faithful, FedWhole, Fed, PulsesWhole
  <2> QED
    BY <2>2 DEF Faithful, PulsesFaithful
<1>4. IInv => Typed
  BY DEF IInv
<1> QED
  BY <1>1, <1>2, <1>3, <1>4, IInvTheorem, PTL DEF Spec

-----------------------------------------------------------------------------
\* What the ring holds.

\* The last n samples are in the ring, as far as it goes back.
HeldIn(r, p, m, n) == \A d \in 1 .. RingSize :
    d <= n => r[(p - d) % RingSize] = (m - d) % Numbers

\* The ring as it will be when the writer has written what it has, and the place
\* of the next word in it.
View == [a \in Ring |-> IF a \in position .. position + Len(fifo) - 1
                       THEN fifo[a - position + 1] ELSE ram[a]]
Place == position + Len(fifo)
Held(n) == HeldIn(View, Place, number, n)

\* The counter at the trigger restarts from here, and then takes a sample each.
Restart == window[1] - 1 + (scope.addr % Rounding)
WindowRounds == window[2] - window[1] >= Rounding - 1

BeforeTrigger ==
    ~scope.tot =>
        /\ scope.run /\ scope.cntr = Place
        /\ scope.pre => Held(window[1])
        /\ ~scope.pre => /\ ~scope.trg /\ number = Place /\ Place < window[1]
                         /\ Held(Place)

AfterTrigger ==
    scope.tot =>
        /\ trigger \in 0 .. Numbers - 1 /\ scope.addr = trigger % RingSize
        /\ WindowRounds =>
             \E e \in 1 .. window[2] - Restart + 1 :
                 /\ number = (trigger + e) % Numbers /\ Held(window[1] + e)
                 /\ IF scope.run THEN scope.cntr = Restart + e - 1 /\ scope.cntr < window[2]
                      ELSE e = window[2] - Restart + 1

\* Which word of the ring a readout has at k.
First == (scope.addr - window[1]) % RingSize
Slot(k) == IF First + window[2] >= RingSize /\ k >= RingSize - First
             THEN First + k - RingSize ELSE First + k - 1
ReadFrom == /\ DOMAIN readout = 1 .. window[2] /\ ~scope.run
            /\ \A k \in 1 .. window[2] : readout[k] = ram[Slot(k)]

\* Bursts begin at multiples of their length.
Multiple(k, n) == \E q \in Nat : k = n * q

Captured ==
    /\ ram \in [Ring -> Int] /\ Multiple(position, Burst)
    /\ proper = "reset" => position = 0 /\ fifo = <<>> /\ ~scope.run
    /\ proper = "yes" => /\ Place = number % RingSize
                         /\ BeforeTrigger /\ AfterTrigger
                         /\ readout = <<>> \/ ReadFrom

LEMMA WindowSizes ==
    /\ RingSize \in Nat \ {0} /\ Rounding \in Nat \ {0} /\ Numbers = 2 * RingSize
    /\ \A w \in Windows : /\ w[1] \in Nat /\ w[2] \in Nat
                          /\ 0 < w[1] /\ w[1] < w[2] /\ w[2] < RingSize
  BY McphaAssumption DEF Numbers

\* % next to its range.
Wrap(x, n) == IF x < 0 THEN x + n ELSE IF x < n THEN x ELSE x - n

LEMMA RemainderUnique ==
  ASSUME NEW n \in Nat \ {0}, NEW q \in Int, NEW r \in 0 .. n - 1
  PROVE  (n * q + r) % n = r
  OBVIOUS

LEMMA WrapMod ==
  ASSUME NEW n \in Nat \ {0}, NEW x \in Int, -n <= x, x < 2 * n
  PROVE  x % n = Wrap(x, n) /\ Wrap(x, n) \in 0 .. n - 1
<1>1. CASE x < 0
  <2>1. x = n * (-1) + (x + n) /\ x + n \in 0 .. n - 1
    BY <1>1
  <2>2. (n * (-1) + (x + n)) % n = x + n
    BY <2>1, RemainderUnique
  <2> QED
    BY <1>1, <2>1, <2>2 DEF Wrap
<1>2. CASE 0 <= x /\ x < n
  <2>1. x = n * 0 + x /\ x \in 0 .. n - 1
    BY <1>2
  <2>2. (n * 0 + x) % n = x
    BY <2>1, RemainderUnique
  <2> QED
    BY <1>2, <2>1, <2>2 DEF Wrap
<1>3. CASE n <= x
  <2>1. x = n * 1 + (x - n) /\ x - n \in 0 .. n - 1
    BY <1>3
  <2>2. (n * 1 + (x - n)) % n = x - n
    BY <2>1, RemainderUnique
  <2> QED
    BY <1>3, <2>1, <2>2 DEF Wrap
<1> QED
  BY <1>1, <1>2, <1>3

LEMMA RingNumbers ==
  /\ \A x \in Int : -RingSize <= x /\ x < 2 * RingSize => x % RingSize = Wrap(x, RingSize)
  /\ \A x \in Int : -Numbers <= x /\ x < 2 * Numbers => x % Numbers = Wrap(x, Numbers)
<1>1. RingSize \in Nat \ {0} /\ Numbers \in Nat \ {0}
  BY WindowSizes
<1> QED
  BY <1>1, WrapMod

LEMMA NextPlaces ==
  ASSUME NEW S \in Nat \ {0}, NEW n \in 0 .. 2 * S - 1
  PROVE  /\ Wrap(n, S) \in 0 .. S - 1 /\ Wrap(n + 1, 2 * S) \in 0 .. 2 * S - 1
         /\ Wrap(Wrap(n, S) + 1, S) = Wrap(Wrap(n + 1, 2 * S), S)
  BY DEF Wrap

LEMMA WrapNext ==
  ASSUME NEW n \in Nat, NEW x \in Nat, x < 2 * n - 1
  PROVE  /\ Wrap(x, n) + 1 \in Int /\ -n <= Wrap(x, n) + 1 /\ Wrap(x, n) + 1 < 2 * n
         /\ Wrap(Wrap(x, n) + 1, n) = Wrap(x + 1, n)
  BY DEF Wrap

\* A number of the ring, and of the samples, less a distance in the ring.
LEMMA Behind ==
  ASSUME NEW p \in 0 .. RingSize - 1, NEW m \in 0 .. Numbers - 1, NEW d \in 1 .. RingSize
  PROVE  /\ (p - d) % RingSize = Wrap(p - d, RingSize)
         /\ (m - d) % Numbers = Wrap(m - d, Numbers)
<1>1. RingSize \in Nat \ {0} /\ Numbers = 2 * RingSize
  BY WindowSizes
<1>2. /\ p - d \in Int /\ -RingSize <= p - d /\ p - d < 2 * RingSize
      /\ m - d \in Int /\ -Numbers <= m - d /\ m - d < 2 * Numbers
  BY <1>1
<1> QED
  BY <1>2, RingNumbers

\* One more burst is still in the ring, or the next begins at its end.
LEMMA Multiples ==
  ASSUME NEW n \in Nat \ {0}, NEW k \in Nat, NEW m \in Nat, k < m,
         Multiple(k, n), Multiple(m, n)
  PROVE  k + n <= m /\ Multiple(k + n, n)
<1>1. PICK q \in Nat : k = n * q
  BY DEF Multiple
<1>2. PICK s \in Nat : m = n * s
  BY DEF Multiple
<1>3. q < s
  <2>1. SUFFICES ASSUME q >= s PROVE FALSE
    OBVIOUS
  <2>2. n * (q - s) >= 0
    BY <2>1
  <2>3. n * (q - s) = n * q - n * s
    OBVIOUS
  <2> QED
    BY <1>1, <1>2, <2>2, <2>3
<1>4. n * (s - q - 1) >= 0
  BY <1>3
<1>5. n * (s - q - 1) = n * s - n * q - n /\ n * (q + 1) = n * q + n
  OBVIOUS
<1>6. q + 1 \in Nat /\ k + n = n * (q + 1)
  BY <1>1, <1>5
<1> QED
  BY <1>1, <1>2, <1>4, <1>5, <1>6 DEF Multiple

LEMMA RingBursts ==
  Burst \in Nat \ {0} /\ Multiple(RingSize, Burst) /\ Multiple(Rounding, Burst)
<1>1. /\ Burst \in Nat \ {0} /\ RingSize \in Nat /\ Rounding \in Nat
      /\ RingSize % Burst = 0 /\ Rounding % Burst = 0
  BY McphaAssumption
<1>2. ASSUME NEW n \in Nat, n % Burst = 0
      PROVE  Multiple(n, Burst)
  <2> DEFINE q == n \div Burst
  <2>1. n = Burst * q + (n % Burst) /\ q \in Nat
    BY <1>1
  <2> HIDE DEF q
  <2>2. n = Burst * q
    BY <1>1, <1>2, <2>1
  <2> QED
    BY <2>1, <2>2 DEF Multiple
<1> QED
  BY <1>1, <1>2

\* A sample is a word more in the view, at its place.
LEMMA SampleWritten ==
  ASSUME Typed, Captured, Sample
  PROVE  /\ View \in [Ring -> Int] /\ View' = [View EXCEPT ![Place] = number]
         /\ Place \in Ring /\ Place' = (Place + 1) % RingSize
         /\ number' = (number + 1) % Numbers
         /\ ram' \in [Ring -> Int] /\ Multiple(position', Burst)
<1>1. /\ fifo \in Seq(Int) /\ Len(fifo) \in Nat /\ Len(fifo) < Burst
      /\ number \in Int /\ ram \in [Ring -> Int]
  BY ScopeTypes DEF Typed, TypeOK, Captured
<1>2. /\ position \in Nat /\ position < RingSize /\ RingSize \in Nat /\ Burst \in Nat \ {0}
      /\ position + Burst <= RingSize /\ Multiple(position + Burst, Burst)
  <2>1. position \in Nat /\ position < RingSize /\ RingSize \in Nat
    BY ScopeTypes, WindowSizes DEF Typed, TypeOK, Ring
  <2> QED
    BY <2>1, RingBursts, Multiples DEF Captured
<1>3. Write(number) /\ number' = (number + 1) % Numbers
  BY DEF Sample
<1> DEFINE words == Append(fifo, number)
<1>4. /\ words \in Seq(Int) /\ Len(words) = Len(fifo) + 1
      /\ \A i \in 1 .. Len(fifo) : words[i] = fifo[i]
      /\ words[Len(fifo) + 1] = number
  BY <1>1
<1>5. /\ IF Len(words) < Burst
           THEN fifo' = words /\ position' = position /\ ram' = ram
           ELSE /\ fifo' = <<>> /\ position' = (position + Burst) % RingSize
                /\ ram' = [a \in Ring |-> IF a \in position .. position + Burst - 1
                                           THEN words[a - position + 1] ELSE ram[a]]
  BY <1>3 DEF Write
<1> HIDE DEF words
<1>6. Place \in Nat /\ Place < RingSize /\ Place \in Ring
  BY <1>1, <1>2 DEF Place, Ring
<1>7. \A a \in Ring : a \in Int
  BY DEF Ring
<1>8. View \in [Ring -> Int]
  <2>1. \A a \in Ring : a \in position .. position + Len(fifo) - 1 => fifo[a - position + 1] \in Int
    BY <1>1, <1>2, <1>7
  <2>2. \A a \in Ring : ram[a] \in Int
    BY <1>1
  <2> QED
    BY <2>1, <2>2 DEF View
<1>9. CASE Len(words) < Burst
  <2>1. fifo' = words /\ position' = position /\ ram' = ram /\ Len(fifo') = Len(fifo) + 1
    BY <1>4, <1>5, <1>9
  <2>2. Place' = Place + 1 /\ Place + 1 < RingSize
    <3> DEFINE left == Len(fifo)
    <3>1. left \in Nat /\ left + 1 < Burst /\ Place = position + left
          /\ Place' = position + (left + 1)
      BY <1>1, <1>4, <1>9, <2>1 DEF Place
    <3> HIDE DEF left
    <3> QED
      BY <1>2, <3>1
  <2>3. (Place + 1) % RingSize = Place + 1
    BY <1>2, <1>6, <2>2, RingNumbers DEF Wrap
  <2>4. ASSUME NEW a \in Ring
        PROVE  View'[a] = IF a = Place THEN number ELSE View[a]
    <3>1. a \in Int /\ View'[a] = IF a \in position .. position + (Len(fifo) + 1) - 1
                                    THEN words[a - position + 1] ELSE ram[a]
      BY <1>7, <2>1 DEF View
    <3>2. CASE a = Place
      <4>1. a \in position .. position + (Len(fifo) + 1) - 1 /\ a - position + 1 = Len(fifo) + 1
        BY <1>1, <1>2, <3>2 DEF Place
      <4> QED
        BY <1>4, <3>1, <3>2, <4>1
    <3>3. CASE a # Place /\ a \in position .. position + Len(fifo) - 1
      <4>1. /\ a - position + 1 \in 1 .. Len(fifo)
            /\ a \in position .. position + (Len(fifo) + 1) - 1
        BY <1>1, <1>2, <3>3
      <4>2. View[a] = fifo[a - position + 1]
        BY <3>3 DEF View
      <4> QED
        BY <1>4, <3>1, <3>3, <4>1, <4>2
    <3>4. CASE a # Place /\ ~(a \in position .. position + Len(fifo) - 1)
      <4>1. ~(a \in position .. position + (Len(fifo) + 1) - 1)
        BY <1>1, <1>2, <3>1, <3>4 DEF Place
      <4>2. View[a] = ram[a]
        BY <3>4 DEF View
      <4> QED
        BY <3>1, <3>4, <4>1, <4>2
    <3> QED
      BY <3>2, <3>3, <3>4
  <2>5. View' = [View EXCEPT ![Place] = number]
    <3>1. View' = [a \in Ring |-> View'[a]]
      BY DEF View
    <3> QED
      BY <1>8, <2>4, <3>1
  <2>6. ram' \in [Ring -> Int] /\ Multiple(position', Burst)
    BY <1>1, <2>1 DEF Captured
  <2> QED
    BY <1>3, <1>6, <1>8, <2>2, <2>3, <2>5, <2>6
<1>10. CASE ~(Len(words) < Burst)
  <2>1. /\ fifo' = <<>> /\ position' = (position + Burst) % RingSize /\ Len(fifo) + 1 = Burst
        /\ ram' = [a \in Ring |-> IF a \in position .. position + Burst - 1
                                   THEN words[a - position + 1] ELSE ram[a]]
    BY <1>1, <1>2, <1>4, <1>5, <1>10
  <2>2. position' = (Place + 1) % RingSize /\ Place' = position'
    <3>1. position + Burst = Place + 1
      <4> DEFINE left == Len(fifo)
      <4>1. left \in Nat /\ left + 1 = Burst /\ Place = position + left
        BY <1>1, <2>1 DEF Place
      <4> HIDE DEF left
      <4> QED
        BY <1>2, <4>1
    <3>2. (Place + 1) % RingSize \in Nat
      BY <1>2, <1>6
    <3>3. Place' = position' + 0
      BY <2>1 DEF Place
    <3> QED
      BY <2>1, <3>1, <3>2, <3>3
  <2>3. ASSUME NEW a \in Ring
        PROVE  ram'[a] = IF a = Place THEN number ELSE View[a]
    <3>1. a \in Int /\ ram'[a] = IF a \in position .. position + Burst - 1
                                   THEN words[a - position + 1] ELSE ram[a]
      BY <1>7, <2>1
    <3>2. CASE a = Place
      <4>1. a \in position .. position + Burst - 1 /\ a - position + 1 = Len(fifo) + 1
        BY <1>1, <1>2, <2>1, <3>2 DEF Place
      <4> QED
        BY <1>4, <3>1, <3>2, <4>1
    <3>3. CASE a # Place /\ a \in position .. position + Len(fifo) - 1
      <4>1. /\ a - position + 1 \in 1 .. Len(fifo) /\ a \in position .. position + Burst - 1
        BY <1>1, <1>2, <2>1, <3>3
      <4>2. View[a] = fifo[a - position + 1]
        BY <3>3 DEF View
      <4> QED
        BY <1>4, <3>1, <3>3, <4>1, <4>2
    <3>4. CASE a # Place /\ ~(a \in position .. position + Len(fifo) - 1)
      <4>1. ~(a \in position .. position + Burst - 1)
        BY <1>1, <1>2, <2>1, <3>1, <3>4 DEF Place
      <4>2. View[a] = ram[a]
        BY <3>4 DEF View
      <4> QED
        BY <3>1, <3>4, <4>1, <4>2
    <3> QED
      BY <3>2, <3>3, <3>4
  <2>4. ram' = [View EXCEPT ![Place] = number]
    <3>1. ram' = [a \in Ring |-> ram'[a]]
      BY <2>1
    <3> QED
      BY <1>8, <2>3, <3>1
  <2>5. ram' \in [Ring -> Int]
    BY <1>1, <1>8, <2>4
  <2>6. View' = ram'
    <3>1. position' \in Int
      BY <1>2, <2>1
    <3>2. \A a \in Ring : ~(a \in position' .. position' + Len(fifo') - 1)
      BY <1>7, <2>1, <3>1
    <3> QED
      BY <2>5, <3>2 DEF View
  <2>7. Multiple(position', Burst)
    <3>1. CASE position + Burst = RingSize
      <4>1. position' = Burst * 0
        BY <1>2, <2>1, <3>1
      <4> QED
        BY <4>1 DEF Multiple
    <3>2. CASE position + Burst < RingSize
      <4>1. position' = position + Burst
        BY <1>2, <2>1, <3>2, RingNumbers DEF Wrap
      <4> QED
        BY <1>2, <4>1
    <3> QED
      BY <1>2, <3>1, <3>2
  <2> QED
    BY <1>3, <1>6, <1>8, <2>2, <2>4, <2>5, <2>6, <2>7
<1> QED
  BY <1>9, <1>10

\* A sample more is held, the one that it replaces is a ring older.
LEMMA SampleHeld ==
  ASSUME Typed, Captured, Sample, NEW n \in Nat, Held(n)
  PROVE  HeldIn(View', Place', number', n + 1)
<1>1. /\ View \in [Ring -> Int] /\ View' = [View EXCEPT ![Place] = number]
      /\ Place \in Ring /\ Place' = (Place + 1) % RingSize
      /\ number' = (number + 1) % Numbers
  BY SampleWritten
<1>2. RingSize \in Nat \ {0} /\ Numbers = 2 * RingSize
  BY WindowSizes
<1>3. Place \in 0 .. RingSize - 1 /\ number \in 0 .. 2 * RingSize - 1
  BY <1>1, <1>2 DEF Typed, TypeOK, ScopeTyped, Ring
<1>4. Place' = Wrap(Place + 1, RingSize) /\ number' = Wrap(number + 1, Numbers)
  BY <1>1, <1>2, <1>3, RingNumbers
<1>5. Place' \in 0 .. RingSize - 1 /\ number' \in 0 .. 2 * RingSize - 1
  BY <1>2, <1>3, <1>4 DEF Wrap
<1> SUFFICES ASSUME NEW d \in 1 .. RingSize, d <= n + 1
             PROVE  View'[(Place' - d) % RingSize] = (number' - d) % Numbers
  BY DEF HeldIn
<1>6. /\ (Place' - d) % RingSize = Wrap(Place' - d, RingSize)
      /\ (number' - d) % Numbers = Wrap(number' - d, Numbers)
  <2>1. number' \in 0 .. Numbers - 1
    BY <1>2, <1>5
  <2> QED
    BY <1>5, <2>1, Behind
<1>7. CASE d = 1
  <2>1. Wrap(Place' - d, RingSize) = Place /\ Wrap(number' - d, Numbers) = number
    BY <1>2, <1>3, <1>4, <1>7 DEF Wrap
  <2>2. Place \in Ring
    BY <1>3 DEF Ring
  <2> QED
    BY <1>1, <1>6, <2>1, <2>2
<1>8. CASE d # 1
  <2>1. d - 1 \in 1 .. RingSize /\ d - 1 <= n
    BY <1>2, <1>8
  <2>2. View[(Place - (d - 1)) % RingSize] = (number - (d - 1)) % Numbers
    BY <2>1 DEF Held, HeldIn
  <2>3. /\ (Place - (d - 1)) % RingSize = Wrap(Place - (d - 1), RingSize)
        /\ (number - (d - 1)) % Numbers = Wrap(number - (d - 1), Numbers)
    <3>1. number \in 0 .. Numbers - 1
      BY <1>2, <1>3
    <3> QED
      BY <1>3, <2>1, <3>1, Behind
  <2>4. /\ Wrap(Place - (d - 1), RingSize) = Wrap(Place' - d, RingSize)
        /\ Wrap(number - (d - 1), Numbers) = Wrap(number' - d, Numbers)
    BY <1>2, <1>3, <1>4, <1>8 DEF Wrap
  <2>5. Wrap(Place' - d, RingSize) \in Ring /\ Wrap(Place' - d, RingSize) # Place
    BY <1>2, <1>3, <1>4, <1>5, <1>8 DEF Wrap, Ring
  <2> QED
    BY <1>1, <1>6, <2>2, <2>3, <2>4, <2>5
<1> QED
  BY <1>7, <1>8

LEMMA HeldLess ==
  ASSUME NEW r, NEW p, NEW k, NEW m \in Nat, NEW n \in Nat, n <= m, HeldIn(r, p, k, m)
  PROVE  HeldIn(r, p, k, n)
  BY WindowSizes DEF HeldIn

\* What a sample does to the registers of the oscilloscope.
LEMMA SampleRegisters ==
  ASSUME Typed, Sample
  PROVE  /\ scope.run
         /\ scope'.run <=> ~(scope.tot /\ scope.cntr = window[2] - 1)
         /\ scope'.pre <=> scope.pre \/ scope.cntr = window[1] - 1
         /\ scope'.trg = scope.trg
         /\ scope'.tot <=> scope.tot \/ scope.trg
         /\ ~scope.tot /\ scope.trg => /\ scope'.addr = scope.cntr /\ trigger' = number
                                       /\ scope'.cntr = (window[1] - 1 + (scope.cntr % Rounding)) % RingSize
         /\ ~(~scope.tot /\ scope.trg) => /\ scope'.addr = scope.addr /\ trigger' = trigger
                                          /\ scope'.cntr = (scope.cntr + 1) % RingSize
         /\ UNCHANGED <<window, proper, readout>>
<1> DEFINE mark == ~scope.tot /\ scope.trg
           cntr == (IF mark THEN window[1] - 1 + (scope.cntr % Rounding)
                      ELSE scope.cntr + 1) % RingSize
           addr == IF mark THEN scope.cntr ELSE scope.addr
           pre == scope.pre \/ scope.cntr = window[1] - 1
           tot == scope.tot \/ mark
           run == ~(scope.tot /\ scope.cntr = window[2] - 1)
<1>1. /\ scope' = [scope EXCEPT !.run = run, !.pre = pre, !.tot = tot, !.addr = addr, !.cntr = cntr]
      /\ trigger' = IF mark THEN number ELSE trigger
      /\ scope.run /\ UNCHANGED <<window, proper, readout>>
  BY DEF Sample
<1>2. scope \in Scopes
  BY DEF Typed, TypeOK, ScopeTyped, Scopes
<1>3. /\ scope'.run = run /\ scope'.pre = pre /\ scope'.tot = tot
      /\ scope'.addr = addr /\ scope'.cntr = cntr /\ scope'.trg = scope.trg
  <2> HIDE DEF run, pre, tot, addr, cntr
  <2> QED
    BY <1>1, <1>2 DEF Scopes
<1> QED
  BY <1>1, <1>3

\* The window of a scope, and where the counter restarts in it.
LEMMA Restarts ==
  ASSUME Typed
  PROVE  /\ window[1] \in Nat /\ window[2] \in Nat /\ RingSize \in Nat /\ Rounding \in Nat
         /\ 0 < window[1] /\ window[1] < window[2] /\ window[2] < RingSize
         /\ scope.addr \in 0 .. RingSize - 1 /\ scope.cntr \in 0 .. RingSize - 1
         /\ scope.addr % Rounding \in 0 .. Rounding - 1
         /\ scope.cntr % Rounding \in 0 .. Rounding - 1
<1>1. window \in Windows /\ scope.addr \in Ring /\ scope.cntr \in Ring
  BY ScopeTypes DEF Typed, TypeOK
<1>2. /\ window[1] \in Nat /\ window[2] \in Nat /\ RingSize \in Nat /\ Rounding \in Nat \ {0}
      /\ 0 < window[1] /\ window[1] < window[2] /\ window[2] < RingSize
  BY <1>1, WindowSizes
<1>3. scope.addr \in 0 .. RingSize - 1 /\ scope.cntr \in 0 .. RingSize - 1
  BY <1>1 DEF Ring
<1>4. \A n \in Nat : n % Rounding \in 0 .. Rounding - 1
  BY <1>2
<1> QED
  BY <1>2, <1>3, <1>4

\* A sample before the trigger.
LEMMA SampleBefore ==
  ASSUME Typed, Captured, proper = "yes", Sample, ~scope.tot, ~scope.trg
  PROVE  BeforeTrigger' /\ AfterTrigger'
<1>1. /\ scope'.run /\ ~scope'.tot
      /\ scope'.pre <=> scope.pre \/ scope.cntr = window[1] - 1
      /\ scope'.trg = scope.trg
      /\ scope'.cntr = (scope.cntr + 1) % RingSize
      /\ window' = window
  BY SampleRegisters
<1>2. /\ Place' = (Place + 1) % RingSize /\ number' = (number + 1) % Numbers
  BY SampleWritten
<1>3. /\ scope.cntr = Place
      /\ scope.pre => Held(window[1])
      /\ ~scope.pre => number = Place /\ Place < window[1] /\ Held(Place)
  BY DEF Captured, BeforeTrigger
<1>4. /\ window[1] \in Nat /\ RingSize \in Nat /\ 0 < window[1] /\ window[1] < RingSize
      /\ Place \in 0 .. RingSize - 1 /\ Numbers = 2 * RingSize
  BY Restarts, WindowSizes, <1>3
<1>5. ASSUME scope.pre
      PROVE  HeldIn(View', Place', number', window[1])
  <2>1. HeldIn(View', Place', number', window[1] + 1)
    BY <1>3, <1>4, <1>5, SampleHeld DEF Captured
  <2> QED
    BY <1>4, <2>1, HeldLess
<1>6. ASSUME ~scope.pre
      PROVE  /\ number' = Place + 1 /\ Place' = Place + 1
             /\ HeldIn(View', Place', number', Place + 1)
             /\ Place + 1 <= window[1]
  <2>1. /\ (Place + 1) % RingSize = Wrap(Place + 1, RingSize)
        /\ (Place + 1) % Numbers = Wrap(Place + 1, Numbers)
    <3>1. /\ Place + 1 \in Int /\ -RingSize <= Place + 1 /\ Place + 1 < 2 * RingSize
          /\ -Numbers <= Place + 1 /\ Place + 1 < 2 * Numbers
      BY <1>4
    <3> QED
      BY <3>1, RingNumbers
  <2>2. Place + 1 <= window[1] /\ number = Place /\ Place \in Nat /\ Held(Place)
    BY <1>3, <1>4, <1>6
  <2>3. Wrap(Place + 1, RingSize) = Place + 1 /\ Wrap(Place + 1, Numbers) = Place + 1
    BY <1>4, <2>2 DEF Wrap
  <2>4. HeldIn(View', Place', number', Place + 1)
    BY <2>2, SampleHeld DEF Captured
  <2> QED
    BY <1>2, <2>1, <2>2, <2>3, <2>4
<1>7. ASSUME scope'.pre
      PROVE  HeldIn(View', Place', number', window[1])
  <2>1. CASE scope.pre
    BY <1>5, <2>1
  <2>2. CASE ~scope.pre
    <3>1. Place + 1 = window[1]
      BY <1>1, <1>3, <1>4, <1>7, <2>2
    <3> QED
      BY <1>6, <2>2, <3>1
  <2> QED
    BY <2>1, <2>2
<1>8. ASSUME ~scope'.pre
      PROVE  /\ ~scope'.trg /\ number' = Place' /\ Place' < window[1]
             /\ HeldIn(View', Place', number', Place')
  <2>1. ~scope.pre /\ ~(scope.cntr = window[1] - 1) /\ ~scope'.trg
    BY <1>1, <1>8
  <2>2. Place + 1 <= window[1] /\ Place + 1 # window[1]
    BY <1>3, <1>4, <1>6, <2>1
  <2> QED
    BY <1>4, <1>6, <2>1, <2>2
<1>9. scope'.cntr = Place'
  BY <1>1, <1>2, <1>3
<1> QED
  BY <1>1, <1>7, <1>8, <1>9 DEF BeforeTrigger, AfterTrigger, Held

\* The sample at the trigger.
LEMMA SampleAt ==
  ASSUME Typed, Captured, proper = "yes", Sample, ~scope.tot, scope.trg
  PROVE  BeforeTrigger' /\ AfterTrigger'
<1>1. /\ scope'.run /\ scope'.tot /\ window' = window
      /\ scope'.addr = scope.cntr /\ trigger' = number
      /\ scope'.cntr = (window[1] - 1 + (scope.cntr % Rounding)) % RingSize
  BY SampleRegisters
<1>2. /\ Place' = (Place + 1) % RingSize /\ number' = (number + 1) % Numbers
  BY SampleWritten
<1>3. scope.cntr = Place /\ scope.pre /\ Held(window[1]) /\ Place = number % RingSize
  BY DEF Captured, BeforeTrigger
<1>4. /\ window[1] \in Nat /\ window[2] \in Nat /\ RingSize \in Nat /\ Rounding \in Nat
      /\ 0 < window[1] /\ window[1] < window[2] /\ window[2] < RingSize
      /\ scope.cntr % Rounding \in 0 .. Rounding - 1
  BY Restarts
<1>5. number \in 0 .. Numbers - 1
  BY DEF Typed, TypeOK, ScopeTyped
<1>6. HeldIn(View', Place', number', window[1] + 1)
  BY <1>3, <1>4, SampleHeld DEF Captured
<1>7. ASSUME WindowRounds
      PROVE  /\ Restart' \in Nat /\ Restart' < window[2] /\ scope'.cntr = Restart'
  <2>1. Restart' = window[1] - 1 + (scope.cntr % Rounding)
    BY <1>1 DEF Restart
  <2>2. window[2] - window[1] >= Rounding - 1
    BY <1>7 DEF WindowRounds
  <2> DEFINE c == window[1] - 1 + (scope.cntr % Rounding)
  <2>3. c \in Nat /\ c < window[2] /\ -RingSize <= c /\ c < 2 * RingSize /\ c < RingSize
    BY <1>4, <2>2
  <2> HIDE DEF c
  <2>4. c % RingSize = c
    BY <2>3, RingNumbers DEF Wrap
  <2> QED
    BY <1>1, <2>1, <2>3, <2>4 DEF c
<1>8. ASSUME WindowRounds
      PROVE  /\ 1 \in 1 .. window[2] - Restart' + 1
             /\ scope'.cntr = Restart' + 1 - 1 /\ scope'.cntr < window[2]
  BY <1>4, <1>7, <1>8
<1>9. WindowRounds' => WindowRounds
  BY <1>1 DEF WindowRounds
<1>10. AfterTrigger'
  BY <1>1, <1>2, <1>3, <1>5, <1>6, <1>8, <1>9 DEF AfterTrigger, Held
<1> QED
  BY <1>1, <1>10 DEF BeforeTrigger

\* A sample after the trigger, which may be the last.
LEMMA SampleAfter ==
  ASSUME Typed, Captured, proper = "yes", Sample, scope.tot
  PROVE  BeforeTrigger' /\ AfterTrigger'
<1>1. /\ scope.run /\ scope'.tot /\ window' = window
      /\ scope'.addr = scope.addr /\ trigger' = trigger
      /\ scope'.cntr = (scope.cntr + 1) % RingSize
      /\ scope'.run <=> ~(scope.cntr = window[2] - 1)
  BY SampleRegisters
<1>2. number' = (number + 1) % Numbers
  BY DEF Sample
<1>3. /\ window[1] \in Nat /\ window[2] \in Nat /\ RingSize \in Nat /\ Rounding \in Nat
      /\ 0 < window[1] /\ window[1] < window[2] /\ window[2] < RingSize
      /\ scope.addr % Rounding \in 0 .. Rounding - 1
      /\ scope.cntr \in 0 .. RingSize - 1
  BY Restarts
<1>4. Restart' = Restart /\ Restart \in Nat
  BY <1>1, <1>3 DEF Restart
<1>5. trigger \in 0 .. Numbers - 1 /\ scope.addr = trigger % RingSize
  BY DEF Captured, AfterTrigger
<1>6. ASSUME WindowRounds
      PROVE  \E e \in 1 .. window[2] - Restart + 1 :
                 /\ number' = (trigger + e) % Numbers
                 /\ HeldIn(View', Place', number', window[1] + e)
                 /\ IF scope'.run THEN scope'.cntr = Restart + e - 1 /\ scope'.cntr < window[2]
                      ELSE e = window[2] - Restart + 1
  <2>1. PICK e \in 1 .. window[2] - Restart + 1 :
                 /\ number = (trigger + e) % Numbers /\ Held(window[1] + e)
                 /\ scope.cntr = Restart + e - 1 /\ scope.cntr < window[2]
    BY <1>1, <1>6 DEF Captured, AfterTrigger
  <2>2. e + 1 \in 1 .. window[2] - Restart + 1 /\ e \in Nat
    BY <1>3, <1>4, <2>1
  <2>3. number' = (trigger + (e + 1)) % Numbers
    <3> DEFINE x == trigger + e
    <3>1. Numbers = 2 * RingSize /\ e <= RingSize
      BY <1>3, <1>4, <2>1, WindowSizes
    <3>2. /\ x \in Nat /\ Numbers \in Nat /\ x < 2 * Numbers - 1 /\ x \in Int
          /\ -Numbers <= x /\ x < 2 * Numbers
          /\ x + 1 \in Int /\ -Numbers <= x + 1 /\ x + 1 < 2 * Numbers
      BY <1>3, <1>5, <2>2, <3>1
    <3>3. trigger + (e + 1) = x + 1 /\ number = x % Numbers
      BY <1>5, <2>1, <2>2
    <3> HIDE DEF x
    <3>4. number = Wrap(x, Numbers) /\ (x + 1) % Numbers = Wrap(x + 1, Numbers)
      BY <3>2, <3>3, RingNumbers
    <3>5. /\ Wrap(x, Numbers) + 1 \in Int /\ -Numbers <= Wrap(x, Numbers) + 1
          /\ Wrap(x, Numbers) + 1 < 2 * Numbers
          /\ Wrap(Wrap(x, Numbers) + 1, Numbers) = Wrap(x + 1, Numbers)
      BY <3>2, WrapNext
    <3>6. (Wrap(x, Numbers) + 1) % Numbers = Wrap(Wrap(x, Numbers) + 1, Numbers)
      BY <3>5, RingNumbers
    <3> QED
      BY <1>2, <3>3, <3>4, <3>5, <3>6
  <2>4. HeldIn(View', Place', number', window[1] + (e + 1))
    <3>1. window[1] + e \in Nat /\ window[1] + (e + 1) = (window[1] + e) + 1
      BY <1>3, <2>2
    <3> QED
      BY <2>1, <3>1, SampleHeld DEF Captured
  <2>5. IF scope'.run THEN scope'.cntr = Restart + (e + 1) - 1 /\ scope'.cntr < window[2]
          ELSE e + 1 = window[2] - Restart + 1
    <3>1. scope.cntr + 1 < RingSize /\ scope.cntr + 1 \in Nat /\ -RingSize <= scope.cntr + 1
          /\ scope.cntr + 1 < 2 * RingSize
      BY <1>3, <2>1
    <3>2. (scope.cntr + 1) % RingSize = scope.cntr + 1
      BY <3>1, RingNumbers DEF Wrap
    <3>3. CASE scope.cntr = window[2] - 1
      BY <1>1, <1>3, <1>4, <2>1, <2>2, <3>3
    <3>4. CASE scope.cntr # window[2] - 1
      BY <1>1, <1>3, <1>4, <2>1, <2>2, <3>2, <3>4
    <3> QED
      BY <3>3, <3>4
  <2> QED
    BY <2>2, <2>3, <2>4, <2>5
<1>7. WindowRounds' => WindowRounds
  BY <1>1 DEF WindowRounds
<1>8. AfterTrigger'
  BY <1>1, <1>4, <1>5, <1>6, <1>7 DEF AfterTrigger, Held
<1> QED
  BY <1>1, <1>8 DEF BeforeTrigger

\* A sample: the ring, and the Place that goes round with the numbers.
LEMMA SampleCaptured ==
  ASSUME Typed, Captured, Sample
  PROVE  Captured'
<1>1. ram' \in [Ring -> Int] /\ Multiple(position', Burst)
  BY SampleWritten
<1>2. scope.run /\ UNCHANGED <<proper, readout, window>>
  BY SampleRegisters
<1>3. proper' # "reset"
  BY <1>2 DEF Captured
<1>4. ASSUME proper = "yes"
      PROVE  Place' = number' % RingSize
  <2>1. Place' = (Place + 1) % RingSize /\ number' = (number + 1) % Numbers
    BY SampleWritten
  <2>2. Place = number % RingSize
    BY <1>4 DEF Captured
  <2>3. RingSize \in Nat \ {0} /\ number \in 0 .. 2 * RingSize - 1 /\ Numbers = 2 * RingSize
    BY WindowSizes DEF Typed, TypeOK, ScopeTyped
  <2>4. /\ Wrap(number, RingSize) \in 0 .. RingSize - 1
        /\ Wrap(number + 1, 2 * RingSize) \in 0 .. 2 * RingSize - 1
        /\ Wrap(Wrap(number, RingSize) + 1, RingSize) = Wrap(Wrap(number + 1, 2 * RingSize), RingSize)
    BY <2>3, NextPlaces
  <2>5. Place = Wrap(number, RingSize) /\ number' = Wrap(number + 1, Numbers)
    <3>1. /\ number \in Int /\ -RingSize <= number /\ number < 2 * RingSize
          /\ number + 1 \in Int /\ -Numbers <= number + 1 /\ number + 1 < 2 * Numbers
      BY <2>3
    <3> QED
      BY <2>1, <2>2, <3>1, RingNumbers
  <2>6. Place \in 0 .. RingSize - 1 /\ number' \in 0 .. 2 * RingSize - 1
    BY <2>3, <2>4, <2>5
  <2>7. /\ (Place + 1) % RingSize = Wrap(Place + 1, RingSize)
        /\ number' % RingSize = Wrap(number', RingSize)
    <3>1. /\ Place + 1 \in Int /\ -RingSize <= Place + 1 /\ Place + 1 < 2 * RingSize
          /\ number' \in Int /\ -RingSize <= number' /\ number' < 2 * RingSize
      BY <2>3, <2>6
    <3> QED
      BY <3>1, RingNumbers
  <2> QED
    BY <2>1, <2>3, <2>4, <2>5, <2>7
<1>5. ASSUME proper = "yes"
      PROVE  BeforeTrigger' /\ AfterTrigger'
  <2>1. CASE ~scope.tot /\ ~scope.trg
    BY <1>5, <2>1, SampleBefore
  <2>2. CASE ~scope.tot /\ scope.trg
    BY <1>5, <2>2, SampleAt
  <2>3. CASE scope.tot
    BY <1>5, <2>3, SampleAfter
  <2> QED
    BY <2>1, <2>2, <2>3
<1>6. proper = "yes" => readout' = <<>>
  BY <1>2 DEF Captured, ReadFrom
<1> QED
  BY <1>1, <1>2, <1>3, <1>4, <1>5, <1>6 DEF Captured

\* The trigger, the reset, a window, the start.
LEMMA CommandCaptured ==
  ASSUME Typed, Captured, Trigger \/ ResetScope \/ SetWindow \/ StartScope
  PROVE  Captured'
<1>1. CASE ResetScope
  <2>1. /\ scope'.run = FALSE /\ position' = 0 /\ fifo' = <<>> /\ proper' = "reset"
        /\ ram' = ram
    BY <1>1 DEF ResetScope, Idle
  <2>2. Multiple(0, Burst)
    <3>1. 0 = Burst * 0
      BY RingBursts
    <3> QED
      BY <3>1 DEF Multiple
  <2> QED
    BY <2>1, <2>2 DEF Captured
<1>2. CASE SetWindow
  BY <1>2 DEF SetWindow, Captured
<1>3. CASE StartScope
  <2>1. /\ scope'.run /\ ~scope'.pre /\ ~scope'.trg /\ ~scope'.tot /\ scope'.cntr = 0
        /\ number' = 0 /\ position' = position /\ readout' = <<>> /\ window' = window
        /\ fifo' = [i \in DOMAIN fifo |-> Old] /\ ram' = [a \in Ring |-> Old]
        /\ proper' = IF proper = "reset" THEN "yes" ELSE "no"
    BY <1>3 DEF StartScope, Idle
  <2>2. ram' \in [Ring -> Int] /\ Multiple(position', Burst)
    BY <2>1 DEF Old, Captured
  <2>3. CASE proper = "reset"
    <3>1. position = 0 /\ fifo = <<>>
      BY <2>3 DEF Captured
    <3>2. fifo' = <<>>
      BY <2>1, <3>1
    <3>3. Place' = 0
      BY <2>1, <3>1, <3>2 DEF Place
    <3>4. Place' = number' % RingSize
      BY <2>1, <3>3, WindowSizes
    <3>5. 0 < window[1]
      BY Restarts
    <3>6. HeldIn(View', Place', number', 0)
      BY WindowSizes DEF HeldIn
    <3> QED
      BY <2>1, <2>2, <2>3, <3>3, <3>4, <3>5, <3>6
      DEF Captured, BeforeTrigger, AfterTrigger, Held
  <2>4. CASE proper # "reset"
    BY <2>1, <2>2, <2>4 DEF Captured
  <2> QED
    BY <2>3, <2>4
<1>4. CASE Trigger
  <2>1. /\ scope.run /\ scope.pre /\ scope' = [scope EXCEPT !.trg = TRUE]
        /\ UNCHANGED <<window, fifo, position, ram, number, trigger, proper, readout>>
    BY <1>4 DEF Trigger
  <2>2. scope \in Scopes
    BY DEF Typed, TypeOK, ScopeTyped, Scopes
  <2>3. /\ scope'.run = scope.run /\ scope'.pre = scope.pre /\ scope'.tot = scope.tot
        /\ scope'.addr = scope.addr /\ scope'.cntr = scope.cntr
    BY <2>1, <2>2 DEF Scopes
  <2>4. View' = View /\ Place' = Place
    BY <2>1 DEF View, Place
  <2>5. proper = "yes" => BeforeTrigger' /\ AfterTrigger'
    <3>1. proper = "yes" => BeforeTrigger /\ AfterTrigger
      BY DEF Captured
    <3>2. BeforeTrigger => BeforeTrigger'
      BY <2>1, <2>3, <2>4 DEF BeforeTrigger, Held
    <3>3. AfterTrigger => AfterTrigger'
      BY <2>1, <2>3, <2>4 DEF AfterTrigger, Held, Restart, WindowRounds
    <3> QED
      BY <3>1, <3>2, <3>3
  <2>6. proper = "yes" => readout = <<>> /\ Place' = number' % RingSize
    BY <2>1, <2>4 DEF Captured, ReadFrom
  <2> QED
    BY <2>1, <2>3, <2>5, <2>6 DEF Captured
<1> QED
  BY <1>1, <1>2, <1>3, <1>4

\* The two parts that a readout may be sent in.
LEMMA WordsOf ==
  ASSUME ram \in [Ring -> Int], NEW first \in Nat, NEW count \in Nat, first + count <= RingSize
  PROVE  /\ Words(first, count) \in Seq(Int) /\ Len(Words(first, count)) = count
         /\ \A k \in 1 .. count : Words(first, count)[k] = ram[first + k - 1]
<1>1. \A k \in 1 .. count : first + k - 1 \in Ring
  BY WindowSizes DEF Ring
<1>2. \A k \in 1 .. count : ram[first + k - 1] \in Int
  BY <1>1
<1>3. Words(first, count) \in [1 .. count -> Int]
  BY <1>2 DEF Words
<1> QED
  BY <1>3 DEF Words

LEMMA ReadCaptured ==
  ASSUME Typed, Captured, ReadScope
  PROVE  Captured'
<1> DEFINE top == RingSize - 1
           tot == window[2]
<1>1. /\ ~scope.run
      /\ readout' = IF First + tot <= top THEN Words(First, tot)
                      ELSE Words(First, top - First) \o Words(0, First + tot - top)
      /\ UNCHANGED <<window, scope, fifo, position, ram, number, trigger, proper>>
  BY DEF ReadScope, First
<1>2. RingSize \in Nat \ {0} /\ tot \in Nat /\ 0 < tot /\ tot < RingSize /\ ram \in [Ring -> Int]
  BY Restarts, WindowSizes DEF Captured
<1>3. First \in 0 .. RingSize - 1
  <2>1. scope.addr - window[1] \in Int
    BY Restarts
  <2> QED
    BY <1>2, <2>1 DEF First
<1>4. ASSUME First + tot <= top
      PROVE  ReadFrom'
  <2>1. /\ DOMAIN readout' = 1 .. tot
        /\ \A k \in 1 .. tot : readout'[k] = ram[First + k - 1]
    <3>1. First \in Nat /\ tot \in Nat /\ First + tot <= RingSize
      BY <1>2, <1>3, <1>4
    <3>2. readout' = Words(First, tot)
      BY <1>1, <1>4
    <3> HIDE DEF tot
    <3>3. /\ Words(First, tot) \in Seq(Int) /\ Len(Words(First, tot)) = tot
          /\ \A k \in 1 .. tot : Words(First, tot)[k] = ram[First + k - 1]
      BY <1>2, <3>1, WordsOf
    <3> QED
      BY <3>2, <3>3
  <2>2. ~(First + tot >= RingSize)
    BY <1>2, <1>3, <1>4
  <2>3. /\ First' = First /\ window'[2] = tot /\ ~scope'.run /\ ram' = ram
    BY <1>1 DEF First
  <2>4. \A k \in 1 .. tot : readout'[k] = ram[Slot(k)]
    BY <2>1, <2>2 DEF Slot
  <2>5. \A k : Slot(k)' = Slot(k)
    BY <1>1 DEF Slot, First
  <2> QED
    BY <2>1, <2>3, <2>4, <2>5 DEF ReadFrom
<1>5. ASSUME ~(First + tot <= top)
      PROVE  ReadFrom'
  <2> DEFINE a == top - First
             b == First + tot - top
             u == Words(First, a)
             v == Words(0, b)
  <2>1. /\ a \in Nat /\ b \in Nat /\ a + b = tot /\ First \in Nat
        /\ First + a <= RingSize /\ 0 + b <= RingSize
    BY <1>2, <1>3, <1>5
  <2>2. /\ u \in Seq(Int) /\ Len(u) = a /\ \A k \in 1 .. a : u[k] = ram[First + k - 1]
    BY <1>2, <2>1, WordsOf
  <2>3. /\ v \in Seq(Int) /\ Len(v) = b /\ \A k \in 1 .. b : v[k] = ram[0 + k - 1]
    BY <1>2, <2>1, WordsOf
  <2>4. readout' = u \o v
    BY <1>1, <1>5
  <2> HIDE DEF u, v
  <2>5. /\ Len(u \o v) = a + b /\ u \o v \in Seq(Int)
        /\ \A k \in 1 .. a + b : (u \o v)[k] = IF k <= a THEN u[k] ELSE v[k - a]
    <3>1. /\ u \o v \in Seq(Int) /\ Len(u \o v) = Len(u) + Len(v)
          /\ \A i \in 1 .. Len(u) + Len(v) :
                 (u \o v)[i] = IF i <= Len(u) THEN u[i] ELSE v[i - Len(u)]
      BY <2>2, <2>3, ConcatProperties
    <3> QED
      BY <2>2, <2>3, <3>1
  <2>6. DOMAIN readout' = 1 .. tot
    BY <2>1, <2>4, <2>5
  <2>7. ASSUME NEW k \in 1 .. tot
        PROVE  readout'[k] = ram[Slot(k)]
    <3>1. First + tot >= RingSize
      BY <1>2, <1>3, <1>5
    <3>2. CASE k <= a
      <4>1. Slot(k) = First + k - 1
        BY <1>2, <1>3, <3>2 DEF Slot
      <4> QED
        BY <2>1, <2>2, <2>4, <2>5, <3>2, <4>1
    <3>3. CASE ~(k <= a)
      <4>1. Slot(k) = First + k - RingSize
        BY <1>2, <1>3, <3>1, <3>3 DEF Slot
      <4>2. k - a \in 1 .. b /\ 0 + (k - a) - 1 = First + k - RingSize
        BY <1>2, <1>3, <2>1, <3>3
      <4> QED
        BY <2>1, <2>3, <2>4, <2>5, <3>3, <4>1, <4>2
    <3> QED
      BY <3>2, <3>3
  <2>8. \A k : Slot(k)' = Slot(k)
    BY <1>1 DEF Slot, First
  <2> QED
    BY <1>1, <2>6, <2>7, <2>8 DEF ReadFrom
<1>6. ReadFrom'
  BY <1>4, <1>5
<1>7. /\ proper = "yes" => BeforeTrigger' /\ AfterTrigger'
  <2>1. proper = "yes" => BeforeTrigger /\ AfterTrigger
    BY DEF Captured
  <2> QED
    BY <1>1, <2>1 DEF BeforeTrigger, AfterTrigger, Held, View, Place, Restart, WindowRounds
<1>8. Place' = Place
  BY <1>1 DEF Place
<1> QED
  BY <1>1, <1>6, <1>7, <1>8 DEF Captured

LEMMA InitCaptured == Init => Captured
<1> SUFFICES ASSUME Init PROVE Captured
  OBVIOUS
<1>1. ram \in [Ring -> Int] /\ proper = "no" /\ position = 0
  BY DEF Init, Old
<1>2. 0 = Burst * 0
  BY RingBursts
<1> QED
  BY <1>1, <1>2 DEF Captured, Multiple

LEMMA NextCaptured == Typed /\ Captured /\ [Next]_vars => Captured'
<1> SUFFICES ASSUME Typed, Captured, [Next]_vars PROVE Captured'
  OBVIOUS
<1>1. CASE Sample
  BY <1>1, SampleCaptured
<1>2. CASE Trigger \/ ResetScope \/ SetWindow \/ StartScope
  BY <1>2, CommandCaptured
<1>3. CASE ReadScope
  BY <1>3, ReadCaptured
<1>4. CASE UNCHANGED oscilloscope
  <2>1. UNCHANGED <<window, scope, fifo, position, ram, number, trigger, proper, readout>>
    BY <1>4 DEF oscilloscope
  <2> QED
    BY <2>1 DEF Captured, BeforeTrigger, AfterTrigger, Held, View, Place, Restart, WindowRounds,
                ReadFrom, Slot, First
<1>5. (\E t \in Threads : Pulser(t)) => UNCHANGED oscilloscope
  BY DEF Pulser, WriteAmplitude, WriteInterval, TestEnabled, EndPulser, Draw
<1>6. ASSUME \/ Accept \/ SetSpectrum \/ StartPulser \/ StopPulser \/ Disconnect
             \/ Stopped \/ Started \/ Reset \/ Pulse \/ UNCHANGED vars
      PROVE  UNCHANGED oscilloscope
  BY <1>6 DEF Accept, SetSpectrum, StartPulser, StopPulser, Disconnect, Stopped, Started, Reset,
              Pulse, vars, oscilloscope
<1> QED
  BY <1>1, <1>2, <1>3, <1>4, <1>5, <1>6 DEF Next, Main

\* The writer keeps the words after the last full burst: places and numbers
\* differ by multiples of a burst.
LEMMA Congruent ==
  ASSUME NEW b \in Nat \ {0}, NEW x \in Int, NEW y \in 0 .. b - 1, NEW z \in Int,
         x = b * z + y
  PROVE  x % b = y
  OBVIOUS

LEMMA Division ==
  ASSUME NEW n \in Nat \ {0}, NEW x \in Int
  PROVE  \E q \in Int : x = n * q + (x % n)
<1>1. x = n * (x \div n) + (x % n) /\ x \div n \in Int
  OBVIOUS
<1> QED
  BY <1>1

LEMMA HeldBack ==
  ASSUME Typed, Captured, proper = "yes", scope.tot, ~scope.run,
         window[2] - window[1] >= Rounding - 1
  PROVE  Len(fifo) = (window[2] - window[1] + 2) % Burst
<1>1. /\ window[1] \in Nat /\ window[2] \in Nat /\ RingSize \in Nat \ {0} /\ Rounding \in Nat \ {0}
      /\ window[1] < window[2] /\ Numbers = 2 * RingSize
      /\ scope.addr \in 0 .. RingSize - 1 /\ scope.addr % Rounding \in 0 .. Rounding - 1
  BY Restarts, WindowSizes
<1>2. /\ Burst \in Nat \ {0} /\ Len(fifo) \in 0 .. Burst - 1 /\ position \in Nat
      /\ number \in 0 .. Numbers - 1
  BY ScopeTypes, RingBursts DEF Typed, TypeOK, Ring
<1> DEFINE e == window[2] - Restart + 1
           r == scope.addr % Rounding
           left == Len(fifo)
<1>3. /\ trigger \in 0 .. Numbers - 1 /\ scope.addr = trigger % RingSize
      /\ number = (trigger + e) % Numbers /\ position + Len(fifo) = number % RingSize
  BY DEF Captured, AfterTrigger, WindowRounds, Place
<1>4. e = window[2] + 2 - window[1] - r /\ e \in Int
  BY <1>1 DEF Restart
<1>5. PICK q \in Nat : position = Burst * q
  BY DEF Captured, Multiple
<1>6. PICK ring \in Nat : RingSize = Burst * ring
  BY RingBursts DEF Multiple
<1>7. PICK round \in Nat : Rounding = Burst * round
  BY RingBursts DEF Multiple
<1>16. left \in Nat /\ position + left = number % RingSize /\ r \in Int /\ number \in Int
       /\ trigger \in Int /\ trigger + e \in Int /\ position \in Int
  <2>1. left \in Nat /\ position + left = number % RingSize
    BY <1>2, <1>3
  <2>2. trigger \in Int /\ number \in Int /\ r \in Int /\ position \in Int
    BY <1>1, <1>2, <1>3
  <2>3. trigger + e \in Int
    BY <1>4, <2>2
  <2> QED
    BY <2>1, <2>2, <2>3
<1> HIDE DEF e, r, left
<1>8. PICK i \in Int : trigger = RingSize * i + scope.addr
  <2>1. \E d \in Int : trigger = RingSize * d + (trigger % RingSize)
    BY <1>1, <1>16, Division
  <2> QED
    BY <1>3, <2>1
<1>9. PICK j \in Int : trigger + e = Numbers * j + number
  <2>1. Numbers \in Nat \ {0}
    BY <1>1
  <2>2. \E d \in Int : trigger + e = Numbers * d + ((trigger + e) % Numbers)
    BY <1>16, <2>1, Division
  <2> QED
    BY <1>3, <2>2
<1>10. PICK l \in Int : number = RingSize * l + (position + left)
  <2>1. \E d \in Int : number = RingSize * d + (number % RingSize)
    BY <1>1, <1>16, Division
  <2> QED
    BY <1>16, <2>1
<1>11. PICK m \in Int : scope.addr = Rounding * m + r
  <2>1. scope.addr = Rounding * (scope.addr \div Rounding) + r /\ scope.addr \div Rounding \in Int
    BY <1>1 DEF r
  <2> QED
    BY <2>1
<1>12. window[2] - window[1] + 2
         = (2 * RingSize * j + RingSize * l - RingSize * i - Rounding * m + position) + left
  <2>1. r \in Int /\ number \in Int /\ trigger \in Int /\ left \in Nat
    BY <1>16
  <2>2. Numbers * j = 2 * RingSize * j
    BY <1>1
  <2> DEFINE J == 2 * RingSize * j
             L == RingSize * l
             I == RingSize * i
             M == Rounding * m
  <2>3. J \in Int /\ L \in Int /\ I \in Int /\ M \in Int
    BY <1>1
  <2>4. /\ trigger + e = J + number /\ number = L + (position + left)
        /\ trigger = I + scope.addr /\ scope.addr = M + r
    BY <1>8, <1>9, <1>10, <1>11, <2>2
  <2> HIDE DEF J, L, I, M
  <2>5. window[2] - window[1] + 2 = (J + L - I - M + position) + left
    <3>1. /\ window[1] \in Int /\ window[2] \in Int /\ scope.addr \in Int /\ position \in Int
          /\ e \in Int /\ e = window[2] + 2 - window[1] - r
      BY <1>1, <1>4, <1>16
    <3> DEFINE f == scope.addr
               u == window[1]
               v == window[2]
    <3>2. /\ f \in Int /\ u \in Int /\ v \in Int /\ e = v + 2 - u - r
          /\ trigger = I + f /\ f = M + r
      BY <2>4, <3>1
    <3> HIDE DEF f, u, v
    <3>3. v - u + 2 = (J + L - I - M + position) + left
      BY <2>1, <2>3, <2>4, <3>1, <3>2
    <3> QED
      BY <3>3 DEF u, v
  <2> QED
    BY <2>5 DEF J, L, I, M
<1> DEFINE z == 2 * ring * j + ring * l - ring * i - round * m + q
<1>13. 2 * RingSize * j + RingSize * l - RingSize * i - Rounding * m + position = Burst * z
  <2>1. /\ 2 * RingSize * j = Burst * (2 * ring * j) /\ RingSize * l = Burst * (ring * l)
        /\ RingSize * i = Burst * (ring * i) /\ Rounding * m = Burst * (round * m)
    BY <1>2, <1>6, <1>7
  <2> DEFINE A == 2 * ring * j
             B == ring * l
             C == ring * i
             D == round * m
  <2>2. A \in Int /\ B \in Int /\ C \in Int /\ D \in Int
    OBVIOUS
  <2> HIDE DEF A, B, C, D
  <2>3. Burst * (A + B - C - D + q) = Burst * A + Burst * B - Burst * C - Burst * D + Burst * q
    BY <1>2, <2>2
  <2> QED
    BY <1>5, <2>1, <2>3 DEF A, B, C, D
<1>14. z \in Int
  OBVIOUS
<1> HIDE DEF z
<1>15. window[2] - window[1] + 2 \in Int
  BY <1>1
<1>17. left \in 0 .. Burst - 1
  BY <1>2 DEF left
<1>18. window[2] - window[1] + 2 = Burst * z + left
  BY <1>12, <1>13
<1>19. (window[2] - window[1] + 2) % Burst = left
  BY <1>2, <1>14, <1>15, <1>17, <1>18, Congruent
<1> QED
  BY <1>19 DEF left

\* The word of the ring that a readout has at k is the sample of that place.
LEMMA CapturedExact ==
  ASSUME Typed, Captured
  PROVE  ReadoutExact
<1> SUFFICES ASSUME proper = "yes", scope.tot, ~scope.run,
                    window[2] - window[1] >= Rounding - 1,
                    NEW k \in DOMAIN readout
             PROVE  LET shift == IF First + window[2] >= RingSize /\ k >= RingSize - First
                                   THEN 1 ELSE 0
                        offset == k - 1 + shift
                        last == window[2] + 1 - (scope.addr % Rounding)
                        held == (window[2] - window[1] + 2) % Burst
                    IN  offset \in (last - RingSize + 1) .. (last - held)
                            => readout[k] = (trigger - window[1] + offset) % Numbers
  BY DEF ReadoutExact, First
<1>1. k \in 1 .. window[2] /\ readout[k] = ram[Slot(k)]
  <2>1. readout # <<>>
    OBVIOUS
  <2> QED
    BY <2>1 DEF Captured, ReadFrom
<1>2. /\ window[1] \in Nat /\ window[2] \in Nat /\ RingSize \in Nat \ {0} /\ Rounding \in Nat
      /\ 0 < window[1] /\ window[1] < window[2] /\ window[2] < RingSize
      /\ scope.addr % Rounding \in 0 .. Rounding - 1
      /\ Numbers = 2 * RingSize
  BY Restarts, WindowSizes
<1>3. /\ trigger \in 0 .. Numbers - 1 /\ scope.addr = trigger % RingSize
      /\ Place = number % RingSize
  BY DEF Captured, AfterTrigger
<1> DEFINE e == window[2] - Restart + 1
<1>4. number = (trigger + e) % Numbers /\ Held(window[1] + e)
  BY DEF Captured, AfterTrigger, WindowRounds
<1> DEFINE o == k - 1 + (IF First + window[2] >= RingSize /\ k >= RingSize - First THEN 1 ELSE 0)
           d == window[1] + e - o
<1>5. /\ e = window[2] + 2 - window[1] - (scope.addr % Rounding)
      /\ e \in Nat /\ window[1] + e <= RingSize + 1
  BY <1>2 DEF Restart
<1>6. o \in Nat
  BY <1>1, <1>2
<1> DEFINE left == Len(fifo)
<1>15. left = (window[2] - window[1] + 2) % Burst /\ left \in Nat
  BY HeldBack, ScopeTypes DEF Typed, TypeOK
<1> HIDE DEF left
<1> SUFFICES ASSUME d \in 1 .. RingSize, d > left
             PROVE  readout[k] = (trigger - window[1] + o) % Numbers
  BY <1>1, <1>2, <1>5, <1>15
<1>7. LET n == Wrap(trigger + e, Numbers)
          f == Wrap(Wrap(trigger, RingSize) - window[1], RingSize)
      IN  /\ Wrap(Wrap(n, RingSize) - d, RingSize) = IF f + o < RingSize THEN f + o ELSE f + o - RingSize
          /\ Wrap(n - d, Numbers) = Wrap(trigger - window[1] + o, Numbers)
  <2>1. trigger \in 0 .. 2 * RingSize - 1 /\ window[1] < RingSize
    BY <1>2, <1>3
  <2>2. d = window[1] + e - o /\ d \in 1 .. RingSize
    OBVIOUS
  <2> HIDE DEF d, o, e
  <2>3. LET n == Wrap(trigger + e, 2 * RingSize)
            f == Wrap(Wrap(trigger, RingSize) - window[1], RingSize)
        IN  /\ Wrap(Wrap(n, RingSize) - d, RingSize)
                 = IF f + o < RingSize THEN f + o ELSE f + o - RingSize
            /\ Wrap(n - d, 2 * RingSize) = Wrap(trigger - window[1] + o, 2 * RingSize)
    <3>1. /\ RingSize \in Nat \ {0} /\ window[1] \in Nat /\ e \in Nat
          /\ window[1] + e <= RingSize + 1
      BY <1>2, <1>5
    <3> QED
      BY <1>6, <2>1, <2>2, <3>1 DEF Wrap
  <2> QED
    BY <1>2, <2>3
<1>8. number = Wrap(trigger + e, Numbers) /\ number \in 0 .. Numbers - 1
  <2> HIDE DEF e
  <2>1. /\ trigger + e \in Int /\ -Numbers <= trigger + e /\ trigger + e < 2 * Numbers
        /\ Numbers \in Nat \ {0}
    <3>1. /\ RingSize \in Nat \ {0} /\ e \in Nat /\ e <= RingSize /\ Numbers = 2 * RingSize
      BY <1>2, <1>5
    <3> QED
      BY <1>3, <3>1
  <2> QED
    BY <1>4, <2>1, WrapMod
<1>9. Place = Wrap(number, RingSize) /\ Place \in 0 .. RingSize - 1
  <2>1. number \in Int /\ -RingSize <= number /\ number < 2 * RingSize
    BY <1>2, <1>8
  <2> QED
    BY <1>2, <1>3, <2>1, WrapMod
<1>10. First = Wrap(Wrap(trigger, RingSize) - window[1], RingSize) /\ First \in 0 .. RingSize - 1
  <2>1. trigger \in Int /\ -RingSize <= trigger /\ trigger < 2 * RingSize
    BY <1>2, <1>3
  <2>2. scope.addr = Wrap(trigger, RingSize) /\ scope.addr \in 0 .. RingSize - 1
    BY <1>2, <1>3, <2>1, WrapMod
  <2>3. /\ scope.addr - window[1] \in Int /\ -RingSize <= scope.addr - window[1]
        /\ scope.addr - window[1] < 2 * RingSize
    BY <1>2, <2>2
  <2> QED
    BY <1>2, <2>2, <2>3, WrapMod DEF First
<1>11. (trigger - window[1] + o) % Numbers = Wrap(trigger - window[1] + o, Numbers)
  <2>1. o <= RingSize
    BY <1>1, <1>2
  <2> HIDE DEF o
  <2>2. /\ trigger - window[1] + o \in Int /\ -Numbers <= trigger - window[1] + o
        /\ trigger - window[1] + o < 2 * Numbers
    BY <1>2, <1>3, <1>6, <2>1
  <2> QED
    BY <2>2, RingNumbers
<1>12. View[(Place - d) % RingSize] = (number - d) % Numbers
  <2>1. d <= window[1] + e
    BY <1>2, <1>5, <1>6
  <2> HIDE DEF d, e
  <2> QED
    BY <1>4, <2>1 DEF Held, HeldIn
<1>13. /\ (Place - d) % RingSize = Wrap(Place - d, RingSize)
       /\ (number - d) % Numbers = Wrap(number - d, Numbers)
  BY <1>8, <1>9, Behind
<1>14. Slot(k) = IF First + o < RingSize THEN First + o ELSE First + o - RingSize
  BY <1>1, <1>2, <1>10 DEF Slot
<1>16. View[(Place - d) % RingSize] = ram[(Place - d) % RingSize]
  <2>1. d \in 1 .. RingSize /\ d > left /\ left \in Nat /\ position \in Nat
        /\ Place = position + left
    BY <1>15, ScopeTypes DEF Typed, TypeOK, Ring, Place, left
  <2> HIDE DEF d
  <2> DEFINE a == (Place - d) % RingSize
  <2>2. a = IF Place - d < 0 THEN Place - d + RingSize ELSE Place - d
    BY <1>2, <1>9, <1>13, <2>1 DEF Wrap
  <2>3. a \in Ring
    BY <1>2, <1>9, <2>1, <2>2 DEF Ring
  <2> HIDE DEF a
  <2>4. ~(a \in position .. position + left - 1)
    BY <1>2, <1>9, <2>1, <2>2
  <2>5. View[a] = ram[a]
    BY <2>3, <2>4 DEF View, left
  <2> QED
    BY <2>5 DEF a
<1> QED
  BY <1>1, <1>7, <1>8, <1>9, <1>10, <1>11, <1>12, <1>13, <1>14, <1>16

\* For every ring, rounding and window: a readout holds the samples from `pre'
\* before the trigger on, each in its place, but for the word at the end of the
\* ring and the samples that the capture has not taken, that the writer keeps for
\* want of a full burst, or that are lost to later ones.
THEOREM ReadoutTheorem == Spec => []ReadoutExact
<1>1. Init => Captured
  BY InitCaptured
<1>2. Typed /\ Captured /\ [Next]_vars => Captured'
  BY NextCaptured
<1>3. Typed /\ Captured => ReadoutExact
  BY CapturedExact
<1>4. IInv => Typed
  BY DEF IInv
<1> QED
  BY <1>1, <1>2, <1>3, <1>4, IInvTheorem, PTL DEF Spec
=============================================================================
