--------------------------- MODULE SamplingProofs ----------------------------
(* Proofs about three components on the way of samples; they share no state. *)
(*                                                                          *)
(* cores/adc.v: for every level, every set of sums, every length of a       *)
(* series and every number of samples, words are typed and counted right,   *)
(* the last word of a series is the one with tlast, a series has no gap,    *)
(* and the two times can be told apart.                                     *)
(*                                                                          *)
(* modules/inout_buffer.v: the stage is a pipe of two words, for every      *)
(* number of words.                                                         *)
(*                                                                          *)
(* projects/vna/server/vna.c: the points of a sweep are made of the samples *)
(* of their frequencies, for every list, rate, FIFO and number of threads.  *)
EXTENDS AdcTrigger, InoutBuffer, Vna, TLAPS

-----------------------------------------------------------------------------
\* The ADC core.

\* The type invariant, one variable at a time.
Typed ==
    /\ sum_abs \in Sums /\ max_sum_abs \in Sums /\ max_sum_out \in Sums
    /\ trigger_activated \in BOOLEAN /\ m_axis_tvalid \in BOOLEAN
    /\ m_axis_tlast \in BOOLEAN /\ fresh \in BOOLEAN
    /\ triggers_count \in 0 .. CountMod - 1
    /\ first_trigged \in Times /\ last_detrigged \in Times
    /\ sample_counter \in Times
    /\ sent_before \in Times /\ samples_sent \in sent_before .. sample_counter
    /\ limiter_val \in Limits /\ cur_limiter \in 0 .. limiter_val - 1
    /\ axis_type \in {Above, Below, LastWord}
    /\ pulse \in {"none", "up", "fell"}

\* Every time taken lies before the sample being taken, so that a series that
\* starts now starts after whatever was recorded; nothing can fire before the
\* first sample, because the sum is 0 then and the level is not.
TimesPast ==
    /\ first_trigged < sample_counter \/ first_trigged = 0
    /\ last_detrigged < sample_counter \/ last_detrigged = 0
    /\ sample_counter = 0 => sum_abs = 0

\* A series is under way iff its word counter has left zero.
UnderWay == trigger_activated <=> cur_limiter # 0

\* While a series is under way it is the newest one.
PulseKnown == trigger_activated => pulse # "none"

IInv == /\ Typed /\ TimesPast /\ UnderWay /\ PulseKnown /\ LastMarked /\ PulseReadable
        /\ SeriesUnbroken

LEMMA TypeParts == TypeOK <=> Typed
  BY Zenon DEF TypeOK, Typed

\* A series has a first word.
LEMMA LengthCounts ==
  ASSUME NEW n \in Nat, n # 0
  PROVE  0 \in 0 .. n - 1
  OBVIOUS

\* The maximum stays one of the sums.
LEMMA MaximumTyped ==
  ASSUME Typed, NEW n \in BOOLEAN, TrackMaximum(n)
  PROVE  max_sum_abs' \in Sums /\ max_sum_out' \in Sums
  BY TriggerAssumption DEF Typed, TrackMaximum

\* The word counter: one further, or back to zero behind the last word.
LEMMA SendCounts ==
  ASSUME IInv, Send
  PROVE  /\ cur_limiter' \in 0 .. limiter_val - 1
         /\ trigger_activated' <=> cur_limiter' # 0
         /\ m_axis_tlast' <=> cur_limiter' = 0
         /\ m_axis_tlast' <=> axis_type' = LastWord
         /\ axis_type' \in {Above, Below, LastWord}
         /\ m_axis_tvalid' = TRUE /\ fresh' = TRUE
         /\ m_axis_tlast' \in BOOLEAN /\ trigger_activated' \in BOOLEAN
         /\ samples_sent' = samples_sent + 1
         /\ limiter_val' = limiter_val /\ sent_before' = sent_before
<1>1. limiter_val \in Nat \ {0} /\ cur_limiter \in 0 .. limiter_val - 1
  BY TriggerAssumption DEF IInv, Typed
<1>2. CASE AtLimit
  <2>1. /\ cur_limiter' = 0 /\ axis_type' = LastWord /\ m_axis_tlast' = TRUE
        /\ trigger_activated' = FALSE
    BY <1>2 DEF Send, SendWord
  <2> QED
    BY <1>1, <2>1 DEF Send, SendWord
<1>3. CASE ~AtLimit
  <2>1. /\ cur_limiter' = cur_limiter + 1 /\ m_axis_tlast' = FALSE
        /\ axis_type' \in {Below, Above}
    BY <1>3 DEF Send, SendWord
  <2>3. trigger_activated' = TRUE
    BY <1>3 DEF Send
  <2>2. cur_limiter + 1 # 0 /\ cur_limiter + 1 \in 0 .. limiter_val - 1
    BY <1>1, <1>3 DEF AtLimit
  <2> QED
    BY <2>1, <2>2, <2>3 DEF Send, SendWord, Above, Below, LastWord
<1> QED
  BY <1>2, <1>3

\* The times a series leaves behind, and what they say of its pulse.
LEMMA SendTimes ==
  ASSUME IInv, Send, sample_counter < MaxSamples,
         sample_counter' = sample_counter + 1
  PROVE  /\ first_trigged' \in 0 .. sample_counter /\ last_detrigged' \in 0 .. sample_counter
         /\ pulse' \in {"up", "fell"}
         /\ PulseReadable'
<1> USE TriggerAssumption
<1>1. /\ sample_counter \in Nat /\ first_trigged \in Nat /\ last_detrigged \in Nat
      /\ first_trigged <= sample_counter /\ last_detrigged <= sample_counter
      /\ sum_abs \in Nat /\ Level \in Nat
  BY DEF IInv, Typed, TimesPast, Times
<1>2. CASE trigger_activated
  <2>1. first_trigged' = first_trigged
    BY <1>2 DEF Send
  <2>2. CASE sum_abs <= Level
    BY <1>1, <2>1, <2>2 DEF Send, PulseReadable
  <2>3. CASE ~(sum_abs <= Level)
    <3>1. last_detrigged' = last_detrigged /\ pulse' = pulse
      BY <1>2, <2>3 DEF Send
    <3>2. pulse # "none" /\ pulse \in {"none", "up", "fell"}
      BY <1>2 DEF IInv, PulseKnown, Typed
    <3> QED
      BY <1>1, <2>1, <3>1, <3>2 DEF IInv, PulseReadable
  <2> QED
    BY <2>2, <2>3
<1>3. CASE ~trigger_activated
  <2>1. first_trigged' = sample_counter
    BY <1>3 DEF Send, StartSeries
  <2>2. Level <= sum_abs
    BY <1>3 DEF Send, trigger_now
  <2>3. CASE sum_abs <= Level
    BY <1>1, <2>1, <2>3 DEF Send, PulseReadable
  <2>4. CASE ~(sum_abs <= Level)
    <3>1. last_detrigged' = last_detrigged /\ pulse' = "up"
      BY <1>3, <2>4 DEF Send
    <3>2. sample_counter # 0
      BY <1>1, <2>2 DEF IInv, TimesPast
    <3>3. last_detrigged < sample_counter
      BY <1>1, <3>2 DEF IInv, TimesPast
    <3> QED
      BY <1>1, <2>1, <3>1, <3>3 DEF PulseReadable
  <2> QED
    BY <2>3, <2>4
<1> QED
  BY <1>2, <1>3

\* One word a sample from the first on.
LEMMA SendOnTime ==
  ASSUME IInv, Send, sample_counter' = sample_counter + 1
  PROVE  SeriesUnbroken'
<1>1. /\ limiter_val \in Nat \ {0} /\ cur_limiter \in Nat
      /\ sample_counter \in Nat /\ first_trigged \in Nat
  BY TriggerAssumption DEF IInv, Typed, Times
<1>2. sample_counter = first_trigged' + cur_limiter /\ first_trigged' \in Nat
  <2>1. CASE trigger_activated
    BY <1>1, <2>1 DEF IInv, SeriesUnbroken, Send
  <2>2. CASE ~trigger_activated
    <3>1. first_trigged' = sample_counter
      BY <2>2 DEF Send, StartSeries
    <3>2. cur_limiter = 0
      BY <2>2 DEF IInv, UnderWay
    <3> QED
      BY <1>1, <3>1, <3>2
  <2> QED
    BY <2>1, <2>2
<1>3. CASE AtLimit
  <2>1. cur_limiter = limiter_val - 1 /\ ~trigger_activated' /\ limiter_val' = limiter_val
    BY <1>3, SendCounts DEF AtLimit, Send
  <2>2. sample_counter' = first_trigged' + limiter_val'
    BY <1>1, <1>2, <2>1
  <2> QED
    BY <2>1, <2>2 DEF SeriesUnbroken
<1>4. CASE ~AtLimit
  <2>1. cur_limiter' = cur_limiter + 1 /\ ~m_axis_tlast'
    BY <1>4 DEF Send, SendWord
  <2>2. sample_counter' = first_trigged' + cur_limiter'
    BY <1>1, <1>2, <2>1
  <2> QED
    BY <2>1, <2>2 DEF SeriesUnbroken
<1> QED
  BY <1>3, <1>4

\* Initially, whatever the limiter.
LEMMA InitIInv == Init => IInv
<1> SUFFICES ASSUME Init PROVE IInv
  OBVIOUS
<1> USE TriggerAssumption
<1>1. Typed
  <2>1. /\ sum_abs \in Sums /\ max_sum_abs \in Sums /\ max_sum_out \in Sums
        /\ trigger_activated \in BOOLEAN /\ m_axis_tvalid \in BOOLEAN
        /\ m_axis_tlast \in BOOLEAN /\ fresh \in BOOLEAN
    BY DEF Init, Times
  <2>2. triggers_count \in 0 .. CountMod - 1
    BY DEF Init, Times
  <2>3. first_trigged \in Times /\ last_detrigged \in Times
    BY DEF Init, Times
  <2>4. sample_counter \in Times /\ sent_before \in Times
    BY DEF Init, Times
  <2>5. samples_sent \in sent_before .. sample_counter
    BY DEF Init, Times
  <2>6. limiter_val \in Limits /\ cur_limiter \in 0 .. limiter_val - 1
    BY DEF Init, Times
  <2>7. axis_type \in {Above, Below, LastWord} /\ pulse \in {"none", "up", "fell"}
    BY DEF Init, Times
  <2> QED
    BY <2>1, <2>2, <2>3, <2>4, <2>5, <2>6, <2>7 DEF Typed
<1> QED
  BY <1>1 DEF Init, IInv, TimesPast, UnderWay, PulseKnown, LastMarked, PulseReadable,
                SeriesUnbroken

\* A word is sent.
LEMMA SendKeepsIInv ==
  ASSUME IInv, NEW sum \in Sums, NEW n \in BOOLEAN,
         NextSample(sum), Send, TrackMaximum(n)
  PROVE  IInv'
<1> USE TriggerAssumption
<1>0. sample_counter < MaxSamples /\ sample_counter' = sample_counter + 1
  BY DEF NextSample
<1>1. /\ sample_counter \in Nat /\ MaxSamples \in Nat
      /\ sent_before \in Nat /\ samples_sent \in Nat
      /\ sent_before <= samples_sent /\ samples_sent <= sample_counter
  BY DEF IInv, Typed, Times
<1>2. max_sum_abs' \in Sums /\ max_sum_out' \in Sums /\ sum_abs' \in Sums
  BY MaximumTyped DEF IInv, NextSample
<1>3. triggers_count' \in 0 .. CountMod - 1
  <2>1. triggers_count \in 0 .. CountMod - 1
    BY DEF IInv, Typed
  <2>2. (triggers_count + 1) % CountMod \in 0 .. CountMod - 1
    BY <2>1
  <2> QED
    BY <2>1, <2>2 DEF Send, StartSeries
<1>4. Typed'
  <2>1. sample_counter' \in Times /\ sent_before' \in Times
    <3>1. sample_counter' \in Times
      BY <1>0, <1>1 DEF Times
    <3>2. sent_before' = sent_before
      BY SendCounts
    <3> QED
      BY <3>1, <3>2 DEF IInv, Typed
  <2>4. samples_sent' \in sent_before' .. sample_counter'
    BY <1>0, <1>1, SendCounts
  <2>2. first_trigged' \in Times /\ last_detrigged' \in Times
    BY <1>0, <1>1, SendTimes DEF Times
  <2>3. limiter_val' \in Limits
    BY SendCounts DEF IInv, Typed
  <2> QED
    BY <1>2, <1>3, <2>1, <2>2, <2>3, <2>4, SendCounts, SendTimes, <1>0 DEF Typed
<1>5. TimesPast'
  BY <1>0, <1>1, SendTimes DEF TimesPast
<1>6. UnderWay' /\ LastMarked'
  BY SendCounts DEF UnderWay, LastMarked
<1>7. PulseKnown' /\ PulseReadable'
  BY SendTimes, <1>0 DEF PulseKnown
<1>8. SeriesUnbroken'
  BY <1>0, SendOnTime
<1> QED
  BY <1>4, <1>5, <1>6, <1>7, <1>8 DEF IInv

\* No word is sent.
LEMMA SilentKeepsIInv ==
  ASSUME IInv, NEW sum \in Sums, NEW n \in BOOLEAN,
         NextSample(sum), Silent, TrackMaximum(n)
  PROVE  IInv'
<1> USE TriggerAssumption
<1>1. /\ sample_counter \in Nat /\ MaxSamples \in Nat
      /\ sample_counter < MaxSamples /\ sample_counter' = sample_counter + 1
      /\ sum_abs' \in Sums
  BY DEF IInv, Typed, Times, NextSample
<1>2. max_sum_abs' \in Sums /\ max_sum_out' \in Sums
  BY MaximumTyped DEF IInv
<1>3. /\ UNCHANGED <<trigger_activated, triggers_count, first_trigged,
                     last_detrigged, samples_sent, limiter_val, cur_limiter,
                     axis_type, sent_before, pulse>>
      /\ m_axis_tvalid' = FALSE /\ m_axis_tlast' = FALSE /\ fresh' = FALSE
  BY DEF Silent, stats
<1>4. Typed'
  <2>1. /\ sum_abs' \in Sums /\ max_sum_abs' \in Sums /\ max_sum_out' \in Sums
        /\ trigger_activated' \in BOOLEAN /\ m_axis_tvalid' \in BOOLEAN
        /\ m_axis_tlast' \in BOOLEAN /\ fresh' \in BOOLEAN
    BY <1>1, <1>2, <1>3 DEF IInv, Typed, Times
  <2>2. triggers_count' \in 0 .. CountMod - 1
    BY <1>1, <1>2, <1>3 DEF IInv, Typed, Times
  <2>3. first_trigged' \in Times /\ last_detrigged' \in Times
    BY <1>1, <1>2, <1>3 DEF IInv, Typed, Times
  <2>4. sample_counter' \in Times /\ sent_before' \in Times
    BY <1>1, <1>2, <1>3 DEF IInv, Typed, Times
  <2>5. samples_sent' \in sent_before' .. sample_counter'
    BY <1>1, <1>2, <1>3 DEF IInv, Typed, Times
  <2>6. limiter_val' \in Limits /\ cur_limiter' \in 0 .. limiter_val' - 1
    BY <1>1, <1>2, <1>3 DEF IInv, Typed, Times
  <2>7. axis_type' \in {Above, Below, LastWord} /\ pulse' \in {"none", "up", "fell"}
    BY <1>1, <1>2, <1>3 DEF IInv, Typed, Times
  <2> QED
    BY <2>1, <2>2, <2>3, <2>4, <2>5, <2>6, <2>7 DEF Typed
<1>5. TimesPast'
  BY <1>1, <1>3 DEF IInv, Typed, TimesPast, Times
<1>6. SeriesUnbroken'
  BY <1>3 DEF Silent, trigger_now, SeriesUnbroken
<1> QED
  BY <1>3, <1>4, <1>5, <1>6 DEF IInv, UnderWay, PulseKnown, LastMarked, PulseReadable

\* The trigger is held.
LEMMA HoldKeepsIInv ==
  ASSUME IInv, NEW n \in BOOLEAN, Hold, TrackMaximum(n)
  PROVE  IInv'
<1> USE TriggerAssumption
<1>1. max_sum_abs' \in Sums /\ max_sum_out' \in Sums
  BY MaximumTyped DEF IInv
<1>2. Typed'
  <2>1. /\ sum_abs' \in Sums /\ max_sum_abs' \in Sums /\ max_sum_out' \in Sums
        /\ trigger_activated' \in BOOLEAN /\ m_axis_tvalid' \in BOOLEAN
        /\ m_axis_tlast' \in BOOLEAN /\ fresh' \in BOOLEAN
    BY <1>1 DEF IInv, Typed, Times, Hold, stream
  <2>2. triggers_count' \in 0 .. CountMod - 1
    BY <1>1 DEF IInv, Typed, Times, Hold, stream
  <2>3. first_trigged' \in Times /\ last_detrigged' \in Times
    BY <1>1 DEF IInv, Typed, Times, Hold, stream
  <2>4. sample_counter' \in Times /\ sent_before' \in Times
    BY <1>1 DEF IInv, Typed, Times, Hold, stream
  <2>5. samples_sent' \in sent_before' .. sample_counter'
    BY <1>1 DEF IInv, Typed, Times, Hold, stream
  <2>6. limiter_val' \in Limits /\ cur_limiter' \in 0 .. limiter_val' - 1
    BY <1>1 DEF IInv, Typed, Times, Hold, stream
  <2>7. axis_type' \in {Above, Below, LastWord} /\ pulse' \in {"none", "up", "fell"}
    BY <1>1 DEF IInv, Typed, Times, Hold, stream
  <2> QED
    BY <2>1, <2>2, <2>3, <2>4, <2>5, <2>6, <2>7 DEF Typed
<1> QED
  BY <1>2 DEF IInv, Hold, TimesPast, UnderWay, PulseKnown, LastMarked, PulseReadable,
                SeriesUnbroken

\* The core is reset.
LEMMA ResetKeepsIInv ==
  ASSUME IInv, Reset
  PROVE  IInv'
<1>1. Typed'
  <2>1. /\ sum_abs' \in Sums /\ max_sum_abs' \in Sums /\ max_sum_out' \in Sums
        /\ trigger_activated' \in BOOLEAN /\ m_axis_tvalid' \in BOOLEAN
        /\ m_axis_tlast' \in BOOLEAN /\ fresh' \in BOOLEAN
    BY Zenon, TriggerAssumption DEF Reset, IInv, Typed
  <2>2. triggers_count' \in 0 .. CountMod - 1
    BY TriggerAssumption DEF Reset, Times
  <2>3. first_trigged' \in Times /\ last_detrigged' \in Times
    BY TriggerAssumption DEF Reset, Times
  <2>4. sample_counter' \in Times /\ sent_before' \in Times
    BY TriggerAssumption DEF Reset, Times
  <2>5. samples_sent' \in sent_before' .. sample_counter'
    BY TriggerAssumption DEF Reset, Times
  <2>6. limiter_val' \in Limits /\ cur_limiter' \in 0 .. limiter_val' - 1
    <3>1. limiter_val' \in Limits /\ cur_limiter' = 0
      BY Zenon DEF Reset
    <3>2. limiter_val' \in Nat /\ limiter_val' # 0
      BY <3>1, TriggerAssumption
    <3>3. 0 \in 0 .. limiter_val' - 1
      BY <3>2, LengthCounts
    <3> QED
      BY Zenon, <3>1, <3>3
  <2>7. axis_type' \in {Above, Below, LastWord} /\ pulse' \in {"none", "up", "fell"}
    BY TriggerAssumption DEF Reset, Times
  <2> QED
    BY <2>1, <2>2, <2>3, <2>4, <2>5, <2>6, <2>7 DEF Typed
<1> QED
  BY <1>1 DEF IInv, Reset, TimesPast, UnderWay, PulseKnown, LastMarked, PulseReadable,
                SeriesUnbroken

\* The invariant is inductive.
THEOREM IInvTheorem == Spec => []IInv
<1>1. IInv /\ [Next]_vars => IInv'
  <2> SUFFICES ASSUME IInv, [Next]_vars PROVE IInv'
    OBVIOUS
  <2>1. ASSUME NEW sum \in Sums, NEW n \in BOOLEAN,
               NextSample(sum), Send \/ Silent, TrackMaximum(n)
        PROVE  IInv'
    BY <2>1, SendKeepsIInv, SilentKeepsIInv
  <2>2. ASSUME NEW n \in BOOLEAN, Hold, TrackMaximum(n)
        PROVE  IInv'
    BY <2>2, HoldKeepsIInv
  <2>3. CASE Reset
    BY <2>3, ResetKeepsIInv
  <2>4. CASE UNCHANGED vars
    BY <2>4 DEF vars, IInv, Typed, TimesPast, UnderWay, PulseKnown, LastMarked,
                PulseReadable, SeriesUnbroken
  <2> QED
    BY <2>1, <2>2, <2>3, <2>4 DEF Next
<1> QED
  BY <1>1, InitIInv, PTL DEF Spec

\* Types, and no time or word that no sample covers: the trigger reset and the
\* counters of cores/adc.v.
THEOREM TypeTheorem == Spec => []TypeOK
<1>1. IInv => TypeOK
  BY TypeParts DEF IInv
<1> QED
  BY <1>1, IInvTheorem, PTL

\* tlast, the type bits and the word counter of cores/adc.v agree.
THEOREM MarkTheorem == Spec => []LastMarked
<1>1. IInv => LastMarked
  BY DEF IInv
<1> QED
  BY <1>1, IInvTheorem, PTL

\* When the difference of the two times of cores/adc.v is a pulse length.
THEOREM PulseTheorem == Spec => []PulseReadable
<1>1. IInv => PulseReadable
  BY DEF IInv
<1> QED
  BY <1>1, IInvTheorem, PTL

\* A series of cores/adc.v has no gap: from first_trigged on there is one word
\* for every sample, up to the limit.
THEOREM UnbrokenTheorem == Spec => []SeriesUnbroken
<1>1. IInv => SeriesUnbroken
  BY DEF IInv
<1> QED
  BY <1>1, IInvTheorem, PTL

\* Quotient and remainder are the only ones.
LEMMA ModUnique ==
  ASSUME NEW q \in Int, NEW m \in Nat \ {0}, NEW r \in 0 .. m-1
  PROVE (m*q+r) % m = r /\ (m*q+r) \div m = q
  OBVIOUS
\* A counter of fixed width counts like one of unlimited width, cut at the end.
LEMMA ModSucc ==
  ASSUME NEW a \in Nat, NEW m \in Nat \ {0}
  PROVE  ((a % m) + 1) % m = (a + 1) % m
<1> DEFINE q == a \div m
           r == a % m
<1>1. q \in Nat /\ r \in 0 .. m - 1 /\ a = m * q + r
  OBVIOUS
<1> HIDE DEF q, r
<1>2. CASE r + 1 < m
  <2>1. a + 1 = m * q + (r + 1) /\ r + 1 \in 0 .. m - 1 /\ m * 0 + (r + 1) = r + 1
    BY <1>1, <1>2
  <2>2. (m * q + (r + 1)) % m = r + 1
    BY <1>1, <2>1, ModUnique
  <2>3. (m * 0 + (r + 1)) % m = r + 1
    BY <1>1, <2>1, ModUnique
  <2> QED
    BY <2>1, <2>2, <2>3 DEF r
<1>3. CASE r + 1 = m
  <2>1. a + 1 = m * (q + 1) + 0
    BY <1>1, <1>3
  <2>2. (m * (q + 1) + 0) % m = 0 /\ (m * 1 + 0) % m = 0 /\ m * 1 + 0 = m
    BY <1>1, ModUnique
  <2> QED
    BY <1>3, <2>1, <2>2 DEF r
<1> QED
  BY <1>1, <1>2, <1>3

One(p) == IF p THEN 1 ELSE 0

\* k whole series have been sent since the trigger was last reset.
Whole(k) ==
    /\ samples_sent - sent_before = limiter_val * k + cur_limiter
    /\ triggers_count = (k + One(trigger_activated)) % CountMod

\* The ledger with the number of series named instead of computed.
Ledger == \E k \in Nat : Whole(k)

\* What the ledger says of the quotient.
LEMMA LedgerMeans == IInv /\ Ledger => SeriesLedger
<1> SUFFICES ASSUME IInv, Ledger PROVE SeriesLedger
  OBVIOUS
<1>1. PICK k \in Nat : Whole(k)
  BY DEF Ledger
<1>2. /\ limiter_val \in Nat \ {0} /\ cur_limiter \in Nat
      /\ samples_sent \in Int /\ sent_before \in Int
  BY TriggerAssumption DEF IInv, Typed, Times
<1>3. samples_sent - sent_before - cur_limiter = limiter_val * k + 0
  BY <1>1, <1>2 DEF Whole
<1>4. 0 \in 0 .. limiter_val - 1
  BY <1>2, LengthCounts
<1>5. (limiter_val * k + 0) % limiter_val = 0
      /\ (limiter_val * k + 0) \div limiter_val = k
  BY <1>2, <1>4, ModUnique
<1> QED
  BY <1>1, <1>3, <1>5 DEF SeriesLedger, Whole, IInv, UnderWay, One

\* A word more: a series more when it was the last one.
LEMMA SendKeepsLedger ==
  ASSUME IInv, Ledger, Send
  PROVE  Ledger'
<1>1. PICK k \in Nat : Whole(k)
  BY DEF Ledger
<1>2. /\ limiter_val \in Nat \ {0} /\ cur_limiter \in Nat
      /\ samples_sent \in Int /\ sent_before \in Int
      /\ CountMod \in Nat \ {0}
  BY TriggerAssumption DEF IInv, Typed, Times
<1>3. /\ limiter_val' = limiter_val /\ sent_before' = sent_before
      /\ samples_sent' = samples_sent + 1
  BY SendCounts
<1>4. triggers_count' = (k + 1) % CountMod
  <2>1. CASE trigger_activated
    BY <1>1, <2>1 DEF Send, Whole, One
  <2>2. CASE ~trigger_activated
    <3>1. triggers_count = k % CountMod
      BY <1>1, <2>2 DEF Whole, One
    <3>2. triggers_count' = (triggers_count + 1) % CountMod
      BY <2>2 DEF Send, StartSeries
    <3> QED
      BY <1>2, <3>1, <3>2, ModSucc
  <2> QED
    BY <2>1, <2>2
<1>5. CASE AtLimit
  <2>1. cur_limiter' = 0 /\ ~trigger_activated'
    BY <1>5 DEF Send, SendWord
  <2>2. limiter_val * (k + 1) = limiter_val * k + limiter_val
    BY <1>2
  <2>3. samples_sent' - sent_before' = limiter_val' * (k + 1) + cur_limiter'
    BY <1>1, <1>2, <1>3, <1>5, <2>1, <2>2 DEF Whole, AtLimit
  <2>4. Whole(k + 1)'
    BY <1>4, <2>1, <2>3 DEF Whole, One
  <2> QED
    BY <2>4 DEF Ledger
<1>6. CASE ~AtLimit
  <2>1. cur_limiter' = cur_limiter + 1
    BY <1>6 DEF Send, SendWord
  <2>2. trigger_activated'
    BY <1>6 DEF Send
  <2>3. samples_sent' - sent_before' = limiter_val' * k + cur_limiter'
    BY <1>1, <1>2, <1>3, <2>1 DEF Whole
  <2>4. Whole(k)'
    BY <1>4, <2>2, <2>3 DEF Whole, One
  <2> QED
    BY <2>4 DEF Ledger
<1> QED
  BY <1>5, <1>6

\* Nothing sent: no series, and no remainder.
LEMMA ZeroWhole ==
  ASSUME NEW n \in Nat, NEW m \in Nat \ {0}
  PROVE  0 % m = 0 /\ n * 0 + 0 = 0
  OBVIOUS

\* Words, series and triggers of cores/adc.v add up, however often the trigger
\* is reset and wherever in a series: the software may divide the words sent by
\* the length of a series.
THEOREM LedgerTheorem == Spec => []SeriesLedger
<1>1. Init => Ledger
  <2> SUFFICES ASSUME Init PROVE Ledger
    OBVIOUS
  <2>1. limiter_val \in Nat /\ CountMod \in Nat \ {0}
    BY TriggerAssumption DEF Init
  <2>2. 0 % CountMod = 0 /\ limiter_val * 0 + 0 = 0
    BY <2>1, ZeroWhole
  <2>3. /\ samples_sent - sent_before = 0 /\ cur_limiter = 0
        /\ triggers_count = 0 /\ ~trigger_activated
    BY DEF Init
  <2>4. Whole(0)
    BY <2>2, <2>3 DEF Whole, One
  <2> QED
    BY <2>4 DEF Ledger
<1>2. IInv /\ IInv' /\ Ledger /\ [Next]_vars => Ledger'
  <2> SUFFICES ASSUME IInv, IInv', Ledger, [Next]_vars PROVE Ledger'
    OBVIOUS
  <2>1. CASE Send
    BY <2>1, SendKeepsLedger
  <2>2. CASE Silent
    <3>1. UNCHANGED <<triggers_count, samples_sent, sent_before, limiter_val,
                      cur_limiter, trigger_activated>>
      BY <2>2 DEF Silent, stats
    <3> QED
      BY <3>1 DEF Ledger, Whole
  <2>3. CASE Hold \/ Reset
    <3>1. samples_sent' \in Int /\ limiter_val' \in Nat /\ CountMod \in Nat \ {0}
      BY TriggerAssumption DEF IInv, Typed, Times
    <3>2. /\ samples_sent' = sent_before' /\ cur_limiter' = 0
          /\ triggers_count' = 0 /\ trigger_activated' = FALSE
      BY <2>3 DEF Hold, Reset
    <3>3. 0 % CountMod = 0 /\ limiter_val' * 0 + 0 = 0
      BY <3>1, ZeroWhole
    <3>4. samples_sent' - sent_before' = 0
      <4>1. \A i \in Int : i - i = 0
        OBVIOUS
      <4>2. sent_before' = samples_sent'
        BY <3>2
      <4>3. samples_sent' - samples_sent' = 0
        BY <3>1, <4>1
      <4> QED
        BY Zenon, <4>2, <4>3
    <3>5. Whole(0)'
      BY <3>2, <3>3, <3>4 DEF Whole, One
    <3> QED
      BY <3>5 DEF Ledger
  <2>4. CASE UNCHANGED vars
    BY <2>4 DEF vars, Ledger, Whole
  <2> QED
    BY <2>1, <2>2, <2>3, <2>4 DEF Next
<1>3. IInv /\ Ledger => SeriesLedger
  BY LedgerMeans
<1> QED
  BY <1>1, <1>2, <1>3, IInvTheorem, PTL DEF Spec

\* What the program reads and the words it finds in memory can be mapped to
\* triggers: for every limiter, level, counter width and order of resets.
THEOREM CountedTheorem == Spec => []SeriesCounted
<1>1. TypeOK /\ SeriesLedger /\ LastMarked => SeriesCounted
  BY DEF SeriesCounted
<1> QED
  BY <1>1, TypeTheorem, LedgerTheorem, MarkTheorem, PTL

-----------------------------------------------------------------------------
\* The register stage.

LEMMA StageTyped == StageInit => StageTypeOK /\ WordsHeld
<1> SUFFICES ASSUME StageInit PROVE StageTypeOK /\ WordsHeld
  OBVIOUS
<1> USE DEF StageInit
<1>1. StageTypeOK
  <2>1. /\ in_data = 0 /\ sent = 0 /\ rcvd \in 0 .. sent
        /\ buf_0 \in [ready : BOOLEAN, data : {0}]
        /\ buf_1 \in [valid : BOOLEAN, data : {0}]
    BY DEF Idle
  <2>2. in_valid \in BOOLEAN /\ out_ready \in BOOLEAN
    OBVIOUS
  <2> QED
    BY <2>1, <2>2 DEF StageTypeOK, Idle
<1>2. WordsHeld
  BY DEF WordsHeld, Idle, Parked, Waiting
<1> QED
  BY <1>1, <1>2

\* What one clock edge does to the two stages, in terms of their registers.
LEMMA ClockKeepsWords ==
    ASSUME StageTypeOK, WordsHeld, StageClock
    PROVE  StageTypeOK' /\ WordsHeld'
<1> USE MaxWordsAssumption DEF Word, Idle
<1>1. /\ sent \in Nat /\ rcvd \in Nat
      /\ buf_0.ready \in BOOLEAN /\ buf_1.valid \in BOOLEAN
      /\ buf_0.data \in Nat /\ buf_1.data \in Nat
  BY DEF StageTypeOK
<1>2. /\ buf_0'.ready = IF ~buf_0.ready \/ in_valid
                          THEN ~buf_1.valid \/ out_ready ELSE buf_0.ready
      /\ buf_0'.data = IF buf_0.ready THEN in_data ELSE buf_0.data
  BY DEF StageClock, InputEdge, InputValid, InputData, int_ready_wire, OutputReady
<1>3. /\ buf_1'.valid = IF ~buf_1.valid \/ out_ready
                          THEN ~buf_0.ready \/ in_valid ELSE buf_1.valid
      /\ buf_1'.data = IF ~buf_1.valid \/ out_ready
                         THEN IF buf_0.ready THEN in_data ELSE buf_0.data
                         ELSE buf_1.data
  BY DEF StageClock, OutputEdge, OutputLoad, OutputReady, int_valid_wire,
         int_data_wire, InputValid, InputData
<1>4. /\ sent' = IF in_valid /\ buf_0.ready THEN in_data ELSE sent
      /\ rcvd' = IF buf_1.valid /\ out_ready THEN buf_1.data ELSE rcvd
  BY DEF StageClock, in_ready, out_valid, out_data
<1>5. WordsHeld'
  BY <1>1, <1>2, <1>3, <1>4
     DEF WordsHeld, StageTypeOK, Parked, Waiting, StageClock, Drive
<1>6. StageTypeOK'
  <2>1. sent' \in 0 .. MaxWords
    BY <1>4 DEF StageTypeOK
  <2>2. rcvd' \in 0 .. sent'
    BY <1>1, <1>2, <1>3, <1>4, <1>5, <2>1 DEF StageTypeOK, WordsHeld, Parked, Waiting
  <2>3. buf_0' \in [ready : BOOLEAN, data : Word \cup {Idle}]
    BY DEF StageTypeOK, StageClock, InputEdge, InputValid, InputData, int_ready_wire,
           OutputReady
  <2>4. buf_1' \in [valid : BOOLEAN, data : Word \cup {Idle}]
    BY DEF StageTypeOK, StageClock, OutputEdge, OutputLoad, OutputReady, int_valid_wire,
           int_data_wire, InputValid, InputData
  <2>5. /\ in_valid' \in BOOLEAN /\ out_ready' \in BOOLEAN
        /\ in_data' \in Word \cup {Idle}
    BY <2>1 DEF StageClock, Drive
  <2> QED
    BY <2>1, <2>2, <2>3, <2>4, <2>5 DEF StageTypeOK
<1> QED
  BY <1>5, <1>6

LEMMA ResetDropsWords ==
    ASSUME StageTypeOK, WordsHeld, StageReset
    PROVE  StageTypeOK' /\ WordsHeld'
<1> USE MaxWordsAssumption DEF Word, Idle, StageReset, InputReset, OutputReset
<1>1. /\ buf_0' \in [ready : BOOLEAN, data : Word \cup {Idle}]
      /\ buf_1' \in [valid : BOOLEAN, data : Word \cup {Idle}]
  BY DEF StageTypeOK, InputData, OutputLoad, OutputReady, int_data_wire
<1>2. WordsHeld'
  BY DEF WordsHeld, Parked, Waiting, Drive
<1>3. StageTypeOK'
  BY <1>1 DEF StageTypeOK, Drive
<1> QED
  BY <1>2, <1>3

\* Types, and the contents of the two registers in terms of the words
\* accepted and delivered, for every number of words and every behaviour of
\* writer and reader.
THEOREM HeldTheorem == StageSpec => [](StageTypeOK /\ WordsHeld)
<1>1. StageTypeOK /\ WordsHeld /\ [StageNext]_stage => (StageTypeOK /\ WordsHeld)'
  <2> SUFFICES ASSUME StageTypeOK, WordsHeld, [StageNext]_stage
               PROVE  (StageTypeOK /\ WordsHeld)'
    OBVIOUS
  <2>1. CASE StageClock
    BY <2>1, ClockKeepsWords
  <2>2. CASE StageReset
    BY <2>2, ResetDropsWords
  <2>3. CASE UNCHANGED stage
    BY <2>3 DEF stage, StageTypeOK, WordsHeld, Parked, Waiting
  <2> QED
    BY <2>1, <2>2, <2>3 DEF StageNext
<1> QED
  BY <1>1, StageTyped, PTL DEF StageSpec

\* A word offered to the reader is neither withdrawn nor changed before the
\* reader takes it: the register is loaded only when empty or being emptied.
THEOREM StableTheorem == StageSpec => OutputStable
<1>1. [StageNext]_stage =>
        [StageClock /\ out_valid /\ ~out_ready
           => out_valid' /\ out_data' = out_data]_stage
  BY DEF StageClock, out_valid, out_data, OutputEdge, OutputLoad, OutputReady
<1> QED
  BY <1>1, PTL DEF StageSpec, OutputStable

\* ready, once high, stays high as long as the reader keeps taking words.
LEMMA RegisteredReady == StageSpec => NoBubble
<1>1. [StageNext]_stage => [StageClock /\ in_ready /\ out_ready => in_ready']_stage
  <2> SUFFICES ASSUME StageClock, buf_0.ready, out_ready PROVE buf_0'.ready
    BY DEF in_ready
  <2>1. buf_0'.ready = IF InputValid(buf_0, in_valid) THEN int_ready_wire
                                                      ELSE buf_0.ready
    BY DEF StageClock, InputEdge
  <2>2. int_ready_wire
    BY DEF int_ready_wire, OutputReady
  <2> QED
    BY <2>1, <2>2
<1> QED
  BY <1>1, PTL DEF StageSpec, NoBubble

\* The stage loses, doubles and reorders nothing, withdraws no offer and costs
\* no bandwidth, for every number of words and every behaviour of both sides.
THEOREM HandshakeTheorem == StageSpec => HandshakeKept
  BY HeldTheorem, StableTheorem, RegisteredReady DEF HandshakeKept

\* Every step of the two registers is a step of a two-word pipe: words leave
\* in the order they came, none lost and none repeated.
THEOREM PipeTheorem == StageSpec => PipeSpec
<1>1. StageInit => Pipe!Init
  BY DEF StageInit, Pipe!Init
<1>2. StageTypeOK /\ WordsHeld /\ [StageNext]_stage => [Pipe!Next]_(Pipe!vars)
  <2> SUFFICES ASSUME StageTypeOK, WordsHeld, [StageNext]_stage
               PROVE  [Pipe!Next]_(Pipe!vars)
    OBVIOUS
  <2> USE DEF Pipe!Next, Pipe!vars
  <2>1. CASE StageClock
    <3>1. sent \in Nat /\ rcvd \in Nat
      BY MaxWordsAssumption DEF StageTypeOK, Word, Idle
    <3>2. /\ sent' = IF in_valid /\ buf_0.ready THEN sent + 1 ELSE sent
          /\ rcvd' = IF buf_1.valid /\ out_ready THEN rcvd + 1 ELSE rcvd
      BY <2>1 DEF StageClock, in_ready, out_valid, out_data, WordsHeld
    <3>3. buf_0.ready => sent < rcvd + 2
      BY <3>1 DEF WordsHeld, Parked, Waiting, StageTypeOK
    <3>4. buf_1.valid => rcvd < sent
      BY <3>1 DEF WordsHeld, Parked, Waiting, StageTypeOK
    <3> QED
      BY <3>1, <3>2, <3>3, <3>4 DEF Pipe!Accept, Pipe!Deliver, Pipe!Shift
  <2>2. CASE StageReset
    BY <2>2 DEF StageReset, Pipe!Clear
  <2>3. CASE UNCHANGED stage
    BY <2>3 DEF stage
  <2> QED
    BY <2>1, <2>2, <2>3 DEF StageNext
<1> QED
  BY <1>1, <1>2, HeldTheorem, PTL DEF StageSpec, PipeSpec, Pipe!Spec

-----------------------------------------------------------------------------
\* The network analyzer.

\* Behind the last sample of a sweep all samples have the same number.
AtMostTotal(n) == IF n < Total THEN n ELSE Total

Commands == [kind : {"sweep"}, sweep : 0 .. 1] \cup [kind : {"cancel"}]

SweepTyped ==
    /\ conn \in {"none", "open", "closed"} /\ mode \in {"idle", "reading"}
    /\ current \in 0 .. 1 /\ sweep \in 0 .. 1 /\ offset \in 0 .. Size - 1
    /\ hurried \in BOOLEAN /\ sock_thread \in BOOLEAN /\ lost \in BOOLEAN
    /\ commands \in Seq(Commands) /\ Len(commands) <= MaxCommands
    /\ net \in Seq(SUBSET Values) /\ Len(net) <= MaxNet
    /\ pc \in {"accept", "recv", "create", "frequencies", "cancel", "close"}
    /\ reader \in [Readers -> [at : {"none", "test", "read", "send"},
                               cntr : 0 .. Total, buffer : SUBSET Values]]
    /\ \A r \in Readers : reader[r].at = "read" => reader[r].cntr < Total
    /\ rst \in {{}, {2}, {1, 2}} /\ tick \in 0 .. Total
    /\ fifo \in Seq((0 .. 1) \X (0 .. Total)) /\ Len(fifo) <= Depth

\* A thread that has no part in the sweep: it has ended, or has only to notice
\* that it has.
Rests(r) == \/ reader[r].at = "none"
            \/ reader[r].at = "test" /\ reader[r].cntr = Total

\* The FIFO holds the samples of the sweep from the c-th on.
FifoFrom(c) ==
    /\ \A i \in 1 .. Len(fifo) : fifo[i] = <<current, AtMostTotal(c + i - 1)>>
    /\ tick = AtMostTotal(c + Len(fifo))

\* The points that the client has stored and those on their way are the first n.
NetUpTo(n) ==
    /\ \A i \in 1 .. Len(net) : net[i] = {<<current, offset + i - 1>>}
    /\ offset + Len(net) = n

\* What a thread has added up after c samples.
Gathered(c) ==
    IF c % PerPoint <= Settle THEN {} ELSE {<<current, c \div PerPoint>>}

\* A thread has read c samples of the sweep, those before the FIFO, and sent the
\* points they make, but for the last if it is about to.
Reads(r, c) ==
    /\ reader[r].cntr = c /\ FifoFrom(c)
    /\ \/ /\ reader[r].at = "test" \/ (reader[r].at = "read" /\ fifo # <<>>)
          /\ reader[r].buffer = Gathered(c) /\ NetUpTo(c \div PerPoint)
       \/ \E k \in 0 .. Size - 1 :
             /\ reader[r].at = "send" /\ c = (k + 1) * PerPoint
             /\ reader[r].buffer = {<<current, k>>} /\ NetUpTo(k)

AllRest == \A r \in Readers : Rests(r)
OthersRest(r) == \A s \in Readers \ {r} : Rests(s)

\* The command is on its way.
Asked ==
    /\ pc = "recv" /\ commands = <<[kind |-> "sweep", sweep |-> current]>>
    /\ net = <<>> /\ offset = 0 /\ AllRest

\* The receiver is in reset.
Begun ==
    /\ pc = "create" /\ commands = <<>> /\ net = <<>> /\ offset = 0
    /\ rst = {2} /\ sweep = current /\ tick = 0 /\ fifo = <<>> /\ AllRest

\* One thread reads the sweep, or has read it.
Swept ==
    /\ sock_thread /\ sweep = current
    /\ \/ NetUpTo(Size) /\ AllRest
       \/ \E r \in Readers, c \in 0 .. Total : Reads(r, c) /\ OthersRest(r)

Running ==
    /\ pc \in {"frequencies", "recv"} /\ commands = <<>>
    /\ lost \/ Swept

\* A client that waited for the last sweep to come to rest has the receiver and
\* the connection for its own.
OneSweep ==
    mode = "reading" /\ ~hurried => conn = "open" /\ (Asked \/ Begun \/ Running)

SweepIInv == SweepTyped /\ OneSweep

-----------------------------------------------------------------------------
\* Samples and points.

LEMMA SweepSizes ==
    /\ Size \in Nat \ {0} /\ PerPoint \in Nat \ {0} /\ Total \in Nat
    /\ Settle \in Nat /\ Settle < PerPoint /\ Total = Size * PerPoint
    /\ MaxCommands \in Nat \ {0} /\ MaxNet \in Nat \ {0} /\ Depth \in Nat \ {0}
<1>1. /\ Size \in Nat \ {0} /\ Rate \in Nat \ {0} /\ Settle \in Nat
      /\ MaxCommands \in Nat \ {0} /\ MaxNet \in Nat \ {0} /\ Depth \in Nat \ {0}
  BY VnaAssumption
<1>2. PerPoint \in Nat \ {0} /\ Settle < PerPoint
  BY <1>1 DEF PerPoint
<1> QED
  BY <1>1, <1>2 DEF Total

LEMMA PointOf ==
    ASSUME NEW k \in Int, NEW r \in 0 .. PerPoint - 1
    PROVE  /\ (k * PerPoint + r) % PerPoint = r
           /\ (k * PerPoint + r) \div PerPoint = k
  BY SweepSizes

LEMMA PartsOf ==
    ASSUME NEW c \in Nat
    PROVE  /\ c \div PerPoint \in Nat /\ c % PerPoint \in 0 .. PerPoint - 1
           /\ c = (c \div PerPoint) * PerPoint + (c % PerPoint)
  BY SweepSizes

\* The next sample belongs to the same point, or is the first of the next one.
LEMMA NextPart ==
    ASSUME NEW c \in Nat, NEW k, k = c \div PerPoint, NEW j, j = c % PerPoint
    PROVE  /\ j = PerPoint - 1 => /\ c + 1 = (k + 1) * PerPoint
                                  /\ (c + 1) % PerPoint = 0
                                  /\ (c + 1) \div PerPoint = k + 1
           /\ j # PerPoint - 1 => /\ (c + 1) % PerPoint = j + 1
                                  /\ (c + 1) \div PerPoint = k
<1>1. PerPoint \in Nat \ {0} /\ k \in Nat /\ j \in 0 .. PerPoint - 1
      /\ c = k * PerPoint + j
  BY SweepSizes, PartsOf
<1>2. CASE j = PerPoint - 1
  <2>1. /\ c + 1 = (k + 1) * PerPoint + 0 /\ k + 1 \in Int /\ 0 \in 0 .. PerPoint - 1
        /\ (k + 1) * PerPoint + 0 = (k + 1) * PerPoint
    BY <1>1, <1>2
  <2>2. /\ ((k + 1) * PerPoint + 0) % PerPoint = 0
        /\ ((k + 1) * PerPoint + 0) \div PerPoint = k + 1
    BY <2>1, PointOf
  <2> QED
    BY <1>2, <2>1, <2>2, Zenon
<1>3. CASE j # PerPoint - 1
  <2>1. c + 1 = k * PerPoint + (j + 1) /\ j + 1 \in 0 .. PerPoint - 1 /\ k \in Int
    BY <1>1, <1>3
  <2>2. /\ (k * PerPoint + (j + 1)) % PerPoint = j + 1
        /\ (k * PerPoint + (j + 1)) \div PerPoint = k
    BY <2>1, PointOf
  <2> QED
    BY <1>3, <2>1, <2>2, Zenon
<1> QED
  BY <1>2, <1>3

\* The samples of a sweep are those of its points.
LEMMA PointsOfSweep ==
    /\ Total % PerPoint = 0 /\ Total \div PerPoint = Size
    /\ 0 % PerPoint = 0 /\ 0 \div PerPoint = 0
    /\ \A c \in 0 .. Total : c \div PerPoint \in 0 .. Size
    /\ \A c \in 0 .. Total : c < Total => c \div PerPoint \in 0 .. Size - 1
<1>1. /\ Size * PerPoint + 0 = Total /\ 0 * PerPoint + 0 = 0
      /\ 0 \in 0 .. PerPoint - 1
  BY SweepSizes
<1>2. ASSUME NEW c \in 0 .. Total
      PROVE  /\ c \div PerPoint \in 0 .. Size
             /\ c < Total => c \div PerPoint \in 0 .. Size - 1
  <2>1. PICK k \in Nat : k = c \div PerPoint
    BY PartsOf, SweepSizes
  <2>2. PICK j \in 0 .. PerPoint - 1 : c = k * PerPoint + j
    BY <2>1, PartsOf, SweepSizes
  <2>3. PICK n \in Nat \ {0} : n = PerPoint
    BY SweepSizes
  <2>4. Size \in Nat /\ c \in Nat /\ c <= Size * n /\ c = k * n + j /\ j \in 0 .. n - 1
        /\ Total = Size * n
    BY <2>2, <2>3, SweepSizes
  <2>5. k <= Size
    <3>1. SUFFICES ASSUME k >= Size + 1 PROVE FALSE
      BY <2>4
    <3>2. (k - Size - 1) * n >= 0
      BY <2>4, <3>1
    <3> QED
      BY <2>4, <3>2
  <2>6. k = Size => c >= Total
    BY <2>4
  <2> QED
    BY <2>1, <2>4, <2>5, <2>6
<1>3. Total % PerPoint = 0 /\ Total \div PerPoint = Size
  BY <1>1, PointOf, SweepSizes
<1>4. 0 % PerPoint = 0 /\ 0 \div PerPoint = 0
  BY <1>1, PointOf
<1> QED
  BY <1>2, <1>3, <1>4

\* A sample read is a value of one of the frequencies, or none.
LEMMA SampleValue ==
    ASSUME NEW s \in 0 .. 1, NEW n \in 0 .. Total
    PROVE  Value(<<s, n>>) \in Values /\ Noise \in Values
  BY PointsOfSweep DEF Value, Values

LEMMA AtMostFacts ==
    ASSUME NEW n \in Nat
    PROVE  /\ AtMostTotal(n) \in 0 .. Total
           /\ AtMostTotal(n) < Total => AtMostTotal(n) = n /\ AtMostTotal(n + 1) = n + 1
           /\ AtMostTotal(n) = Total => AtMostTotal(n + 1) = Total
           /\ n <= Total => AtMostTotal(n) = n
  BY SweepSizes DEF AtMostTotal

\* A queue that grows or shrinks by one.
LEMMA SeqSteps ==
    ASSUME NEW S, NEW s \in Seq(S)
    PROVE  /\ \A x \in S : /\ Append(s, x) \in Seq(S) /\ Len(Append(s, x)) = Len(s) + 1
                           /\ Append(s, x)[Len(s) + 1] = x
                           /\ \A i \in 1 .. Len(s) : Append(s, x)[i] = s[i]
           /\ s # <<>> => /\ Tail(s) \in Seq(S) /\ Len(Tail(s)) = Len(s) - 1
                          /\ Len(s) >= 1 /\ Head(s) = s[1] /\ Head(s) \in S
                          /\ \A i \in 1 .. Len(s) - 1 : Tail(s)[i] = s[i + 1]
           /\ <<>> \in Seq(S) /\ Len(<<>>) = 0 /\ Len(s) \in Nat
           /\ Len(s) = 0 => s = <<>>
  OBVIOUS

-----------------------------------------------------------------------------
\* Types.

Thread == [at : {"none", "test", "read", "send"}, cntr : 0 .. Total,
           buffer : SUBSET Values]

\* Only a thread with samples left reads.
Knows(thread) == thread \in Thread /\ (thread.at = "read" => thread.cntr < Total)

LEMMA ThreadStep ==
    ASSUME SweepTyped, NEW r \in Readers, NEW to,
           reader' = [reader EXCEPT ![r] = to], Knows(to)
    PROVE  /\ reader' \in [Readers -> Thread]
           /\ \A s \in Readers : reader'[s].at = "read" => reader'[s].cntr < Total
  BY DEF SweepTyped, Thread, Knows

LEMMA Sockets ==
    ASSUME SweepTyped
    PROVE  /\ reader \in [Readers -> Thread]
           /\ \A s \in Readers : Knows(reader[s])
  BY DEF SweepTyped, Thread, Knows

LEMMA NoneKnows == Knows(None) /\ Knows([None EXCEPT !.at = "test"])
  BY SweepSizes DEF None, Knows, Thread

\* Everything of the state but the threads and the FIFO.
SweepWires ==
    /\ conn \in {"none", "open", "closed"} /\ mode \in {"idle", "reading"}
    /\ current \in 0 .. 1 /\ sweep \in 0 .. 1 /\ offset \in 0 .. Size - 1
    /\ hurried \in BOOLEAN /\ sock_thread \in BOOLEAN /\ lost \in BOOLEAN
    /\ commands \in Seq(Commands) /\ Len(commands) <= MaxCommands
    /\ net \in Seq(SUBSET Values) /\ Len(net) <= MaxNet
    /\ pc \in {"accept", "recv", "create", "frequencies", "cancel", "close"}
    /\ rst \in {{}, {2}, {1, 2}} /\ tick \in 0 .. Total
SweepThreads ==
    /\ reader \in [Readers -> Thread]
    /\ \A r \in Readers : reader[r].at = "read" => reader[r].cntr < Total
SweepFifo == fifo \in Seq((0 .. 1) \X (0 .. Total)) /\ Len(fifo) <= Depth

LEMMA SweepParts == SweepTyped <=> SweepWires /\ SweepThreads /\ SweepFifo
  BY DEF SweepTyped, SweepWires, SweepThreads, SweepFifo, Thread

LEMMA NextSweepParts == SweepWires' /\ SweepThreads' /\ SweepFifo' => SweepTyped'
  BY DEF SweepTyped, SweepWires, SweepThreads, SweepFifo, Thread

LEMMA NothingYet == 0 \in 0 .. Size - 1 /\ 0 \in 0 .. Total /\ <<>> \in Seq(Commands)
                      /\ Len(<<>>) = 0 /\ <<>> \in Seq(SUBSET Values)
                      /\ 0 <= MaxNet /\ 0 <= MaxCommands
  BY SweepSizes

LEMMA SweepInitTyped == VnaInit => SweepTyped
<1> SUFFICES ASSUME VnaInit PROVE SweepTyped
  OBVIOUS
<1>1. SweepWires
  <2>1. /\ commands \in Seq(Commands) /\ Len(commands) <= MaxCommands
        /\ net \in Seq(SUBSET Values) /\ Len(net) <= MaxNet
    BY NothingYet DEF VnaInit
  <2>2. /\ offset \in 0 .. Size - 1 /\ tick \in 0 .. Total
        /\ current \in 0 .. 1 /\ sweep \in 0 .. 1
    BY NothingYet DEF VnaInit
  <2>3. rst \in {{}, {2}, {1, 2}}
    BY DEF VnaInit
  <2> QED
    BY <2>1, <2>2, <2>3 DEF VnaInit, SweepWires
<1>2. SweepThreads
  BY NoneKnows DEF VnaInit, SweepThreads, Knows, None
<1>3. SweepFifo
  BY SweepSizes DEF VnaInit, SweepFifo
<1> QED
  BY <1>1, <1>2, <1>3, SweepParts

\* The client.
LEMMA ClientTyped ==
    ASSUME SweepTyped, Connect \/ Sweep \/ Cancel \/ Receive \/ Leave
    PROVE  SweepTyped'
<1>1. SweepWires /\ SweepThreads /\ SweepFifo
  BY SweepParts
<1>2. UNCHANGED <<reader, fifo>>
  BY DEF Connect, Sweep, Cancel, Receive, Leave, receiver
<1>3. SweepThreads' /\ SweepFifo'
  BY <1>1, <1>2 DEF SweepThreads, SweepFifo
<1>9. SweepWires'
  <2>4. CASE Connect
    BY <1>1, <2>4 DEF SweepWires, Connect, client, receiver
  <2>5. CASE Sweep
    <3>1. current' \in 0 .. 1 /\ [kind |-> "sweep", sweep |-> current'] \in Commands
      BY <1>1, <2>5 DEF SweepWires, Sweep, Commands
    <3>2. commands' \in Seq(Commands) /\ Len(commands') <= MaxCommands
      BY <1>1, <2>5, <3>1, SeqSteps, SweepSizes DEF SweepWires, Sweep
    <3> QED
      BY <1>1, <2>5, <3>1, <3>2, SweepSizes DEF SweepWires, Sweep, receiver, AtRest
  <2>6. CASE Cancel
    <3>1. [kind |-> "cancel"] \in Commands
      BY DEF Commands
    <3>2. commands' \in Seq(Commands) /\ Len(commands') <= MaxCommands
      BY <1>1, <2>6, <3>1, SeqSteps, SweepSizes DEF SweepWires, Cancel
    <3> QED
      BY <1>1, <2>6, <3>2, NothingYet DEF SweepWires, Cancel, receiver, StopReading
  <2>7. CASE Receive
    <3>1. net' \in Seq(SUBSET Values) /\ Len(net') <= MaxNet
      BY <1>1, <2>7, SeqSteps, SweepSizes DEF SweepWires, Receive
    <3>2. /\ offset' \in 0 .. Size - 1 /\ mode' \in {"idle", "reading"}
          /\ hurried' \in BOOLEAN
      <4>1. CASE mode = "reading" /\ offset + 1 < Size
        BY <1>1, <2>7, <4>1, SweepSizes DEF SweepWires, Receive
      <4>2. CASE ~(mode = "reading" /\ offset + 1 < Size)
        BY <1>1, <2>7, <4>2, NothingYet DEF SweepWires, Receive, StopReading
      <4> QED
        BY <4>1, <4>2
    <3>3. UNCHANGED <<conn, current, commands, pc, sock_thread, rst, sweep, tick, lost>>
      BY <2>7 DEF Receive, receiver
    <3> QED
      BY <1>1, <3>1, <3>2, <3>3 DEF SweepWires
  <2>8. CASE Leave
    BY <1>1, <2>8, NothingYet DEF SweepWires, Leave, receiver, StopReading
  <2> QED
    BY <2>4, <2>5, <2>6, <2>7, <2>8
<1> QED
  BY <1>1, <1>3, <1>9, NextSweepParts

\* The receiver.
LEMMA SampleTyped == SweepTyped /\ Sample => SweepTyped'
<1> SUFFICES ASSUME SweepTyped, Sample PROVE SweepTyped'
  OBVIOUS
<1>1. SweepWires /\ SweepThreads /\ SweepFifo
  BY SweepParts
<1>2. SweepThreads'
  BY <1>1 DEF SweepThreads, Sample
<1>3. tick' \in 0 .. Total /\ lost' \in BOOLEAN
  <2>1. tick' \in 0 .. Total
    BY <1>1, SweepSizes DEF SweepWires, Sample
  <2>2. (lost \/ tick < Total) \in BOOLEAN
    BY Zenon
  <2>3. lost' = (lost \/ tick < Total) \/ lost' = lost
    BY DEF Sample
  <2> QED
    BY <1>1, <2>1, <2>2, <2>3, Zenon DEF SweepWires
<1>4. SweepFifo'
  <2>1. CASE Len(fifo) < Depth
    <3>1. <<sweep, tick>> \in (0 .. 1) \X (0 .. Total)
      BY <1>1 DEF SweepWires
    <3>2. fifo' = Append(fifo, <<sweep, tick>>)
      BY <2>1 DEF Sample
    <3> QED
      BY <1>1, <2>1, <3>1, <3>2, SeqSteps, SweepSizes DEF SweepFifo
  <2>2. CASE ~(Len(fifo) < Depth)
    BY <1>1, <2>2 DEF SweepFifo, Sample
  <2> QED
    BY <2>1, <2>2
<1>5. UNCHANGED <<conn, mode, current, offset, hurried, commands, net, pc,
                  sock_thread, rst, sweep>>
  BY DEF Sample, client, sockets
<1>6. SweepWires'
  BY <1>1, <1>3, <1>5 DEF SweepWires
<1> QED
  BY <1>2, <1>4, <1>6, NextSweepParts

LEMMA NoSamples == <<>> \in Seq((0 .. 1) \X (0 .. Total)) /\ 0 <= Depth
  BY SweepSizes

\* The main thread.
LEMMA MainTyped == SweepTyped /\ Main => SweepTyped'
<1> SUFFICES ASSUME SweepTyped, Main PROVE SweepTyped'
  OBVIOUS
<1>1. SweepWires /\ SweepThreads /\ SweepFifo
  BY SweepParts
<1>2. CASE CreateReader
  <2>1. SweepThreads'
    <3>1. CASE UNCHANGED reader
      BY <1>1, <3>1 DEF SweepThreads
    <3>2. CASE Free # {} /\ reader' = [reader EXCEPT ![CHOOSE r \in Free : TRUE] =
                                          [None EXCEPT !.at = "test"]]
      <4>1. PICK r : r = CHOOSE q \in Free : TRUE
        OBVIOUS
      <4>2. r \in Readers
        BY <3>2, <4>1 DEF Free
      <4> QED
        BY <3>2, <4>1, <4>2, ThreadStep, NoneKnows DEF SweepThreads
    <3> QED
      BY <1>2, <3>1, <3>2 DEF CreateReader
  <2>2. SweepFifo'
    BY <1>1, <1>2 DEF SweepFifo, CreateReader
  <2>3. UNCHANGED <<conn, mode, current, offset, hurried, commands, net, rst, sweep, tick>>
    BY <1>2 DEF CreateReader, client, sockets
  <2>4. pc' = "frequencies" /\ sock_thread' = TRUE /\ lost' \in BOOLEAN
    BY <1>1, <1>2 DEF CreateReader, Goto, SweepWires
  <2>5. SweepWires'
    BY <1>1, <2>3, <2>4 DEF SweepWires
  <2> QED
    BY <2>1, <2>2, <2>5, NextSweepParts
<1>3. CASE Accept \/ StartSweep \/ Release \/ StopReceiver \/ ClearSocket
  <2>1. UNCHANGED <<mode, current, offset, hurried, net, reader>>
    BY <1>3 DEF Accept, StartSweep, Release, StopReceiver, ClearSocket, client,
                sockets, receiver
  <2>2. SweepThreads'
    BY <1>1, <2>1 DEF SweepThreads
  <2>3. SweepFifo'
    <3>1. fifo' = fifo \/ fifo' = <<>>
      BY <1>3 DEF Accept, StartSweep, Release, StopReceiver, ClearSocket, receiver
    <3> QED
      BY <1>1, <3>1, NoSamples, SeqSteps DEF SweepFifo
  <2>4. commands' \in Seq(Commands) /\ Len(commands') <= MaxCommands
    <3>1. commands' = commands \/ (commands # <<>> /\ commands' = Tail(commands))
      BY <1>3 DEF Accept, StartSweep, Release, StopReceiver, ClearSocket, NextCommand,
                  sockets
    <3> QED
      BY <1>1, <3>1, SeqSteps, SweepSizes DEF SweepWires
  <2>5. sweep' \in 0 .. 1
    <3>1. CASE StartSweep
      <4>1. Head(commands) \in Commands /\ Head(commands).kind = "sweep"
        BY <1>1, <3>1, SeqSteps DEF StartSweep, NextCommand, SweepWires
      <4> QED
        BY <3>1, <4>1 DEF StartSweep, Commands
    <3>2. CASE ~StartSweep
      BY <1>1, <1>3, <3>2 DEF Accept, Release, StopReceiver, ClearSocket, SweepWires,
                              receiver
    <3> QED
      BY <3>1, <3>2
  <2>6. /\ pc' \in {"accept", "recv", "create", "frequencies", "cancel", "close"}
        /\ conn' \in {"none", "open", "closed"}
    BY <1>1, <1>3 DEF Accept, StartSweep, Release, StopReceiver, ClearSocket,
                      NextCommand, Goto, sockets, SweepWires
  <2>7. rst' \in {{}, {2}, {1, 2}}
    BY <1>1, <1>3 DEF Accept, StartSweep, Release, StopReceiver, ClearSocket,
                      receiver, SweepWires
  <2>8. tick' \in 0 .. Total
    BY <1>1, <1>3, NothingYet DEF Accept, StartSweep, Release, StopReceiver,
                                  ClearSocket, receiver, SweepWires
  <2>9. sock_thread' \in BOOLEAN /\ lost' \in BOOLEAN
    BY <1>1, <1>3 DEF Accept, StartSweep, Release, StopReceiver, ClearSocket,
                      receiver, SweepWires
  <2>10. SweepWires'
    BY <1>1, <2>1, <2>4, <2>5, <2>6, <2>7, <2>8, <2>9 DEF SweepWires
  <2> QED
    BY <2>2, <2>3, <2>10, NextSweepParts
<1> QED
  BY <1>2, <1>3 DEF Main

\* The threads.
LEMMA ReaderTyped ==
    ASSUME SweepTyped, NEW r \in Readers, Reader(r)
    PROVE  SweepTyped'
<1>1. SweepWires /\ SweepThreads /\ SweepFifo
  BY SweepParts
<1>2. /\ reader[r] \in Thread /\ Knows(reader[r])
      /\ reader[r].cntr \in 0 .. Total /\ reader[r].buffer \in SUBSET Values
  BY Sockets DEF Thread
<1>3. CASE TestReader(r)
  <2>1. PICK to : reader' = [reader EXCEPT ![r] = to] /\ Knows(to)
    <3>1. CASE Step(r, "test", None)
      BY <3>1, NoneKnows DEF Step
    <3>2. CASE ~Done(r) /\ Step(r, "test", [reader[r] EXCEPT !.at = "read"])
      <4>1. Knows([reader[r] EXCEPT !.at = "read"])
        BY <1>2, <3>2, SweepSizes DEF Knows, Thread, Done
      <4> QED
        BY <3>2, <4>1 DEF Step
    <3> QED
      BY <1>3, <3>1, <3>2 DEF TestReader
  <2>2. SweepThreads'
    BY <2>1, ThreadStep DEF SweepThreads
  <2>3. UNCHANGED <<conn, mode, current, offset, hurried, commands, net, pc,
                    sock_thread, rst, sweep, tick, fifo, lost>>
    BY <1>3 DEF TestReader, client, sockets, receiver
  <2>4. SweepWires' /\ SweepFifo'
    BY <1>1, <2>3 DEF SweepWires, SweepFifo
  <2> QED
    BY <2>2, <2>4, NextSweepParts
<1>4. CASE ReadSample(r)
  <2> DEFINE value == IF fifo = <<>> THEN Noise ELSE Value(Head(fifo))
             buffer == IF Skipped(reader[r].cntr) THEN {}
                         ELSE reader[r].buffer \cup {value}
             complete == (reader[r].cntr + 1) % PerPoint = 0
             to == [at |-> IF complete THEN "send" ELSE "test",
                    cntr |-> reader[r].cntr + 1, buffer |-> buffer]
  <2>1. reader[r].at = "read" /\ reader' = [reader EXCEPT ![r] = to]
    BY <1>4 DEF ReadSample, Step
  <2>2. value \in Values
    <3>1. CASE fifo = <<>>
      BY <3>1 DEF Values
    <3>2. CASE fifo # <<>>
      <4>1. Head(fifo) \in (0 .. 1) \X (0 .. Total)
        BY <1>1, <3>2, SeqSteps DEF SweepFifo
      <4>2. PICK s \in 0 .. 1, n \in 0 .. Total : Head(fifo) = <<s, n>>
        BY <4>1
      <4> QED
        BY <3>2, <4>2, SampleValue
    <3> QED
      BY <3>1, <3>2
  <2>3. buffer \in SUBSET Values
    BY <1>2, <2>2
  <2>4. reader[r].cntr + 1 \in 0 .. Total
    BY <1>2, <2>1, SweepSizes DEF Knows
  <2> HIDE DEF buffer, complete
  <2>5. Knows(to)
    BY <2>3, <2>4 DEF Knows, Thread
  <2>6. SweepThreads'
    BY <2>1, <2>5, ThreadStep DEF SweepThreads
  <2>7. SweepFifo'
    <3>1. fifo' = IF fifo = <<>> THEN <<>> ELSE Tail(fifo)
      BY <1>4 DEF ReadSample
    <3> QED
      BY <1>1, <3>1, SeqSteps, NoSamples, SweepSizes DEF SweepFifo
  <2>8. UNCHANGED <<conn, mode, current, offset, hurried, commands, net, pc,
                    sock_thread, rst, sweep, tick, lost>>
    BY <1>4 DEF ReadSample, client, sockets
  <2>9. SweepWires'
    BY <1>1, <2>8 DEF SweepWires
  <2> QED
    BY <2>6, <2>7, <2>9, NextSweepParts
<1>5. CASE SendPoint(r)
  <2>1. Knows([reader[r] EXCEPT !.at = "test", !.buffer = {}])
    BY <1>2 DEF Knows, Thread
  <2>2. PICK to : reader' = [reader EXCEPT ![r] = to] /\ Knows(to)
    BY <1>5, <2>1, NoneKnows DEF SendPoint, Step
  <2>3. SweepThreads'
    BY <2>2, ThreadStep DEF SweepThreads
  <2>4. net' \in Seq(SUBSET Values) /\ Len(net') <= MaxNet
    <3>1. CASE Len(net) < MaxNet /\ net' = Append(net, reader[r].buffer)
      BY <1>1, <1>2, <3>1, SeqSteps, SweepSizes DEF SweepWires
    <3>2. CASE UNCHANGED net
      BY <1>1, <3>2 DEF SweepWires
    <3> QED
      BY <1>5, <3>1, <3>2 DEF SendPoint
  <2>5. UNCHANGED <<conn, mode, current, offset, hurried, commands, pc,
                    sock_thread, rst, sweep, tick, fifo, lost>>
    BY <1>5 DEF SendPoint, client, receiver
  <2>6. SweepWires' /\ SweepFifo'
    BY <1>1, <2>4, <2>5 DEF SweepWires, SweepFifo
  <2> QED
    BY <2>3, <2>6, NextSweepParts
<1> QED
  BY <1>3, <1>4, <1>5 DEF Reader

-----------------------------------------------------------------------------
\* One sweep at a time.

\* What a sweep looks like to the client stays so while neither it nor the
\* points on their way change.
LEMMA NetKept ==
    ASSUME NEW n \in Nat, NetUpTo(n), UNCHANGED <<net, offset, current>>
    PROVE  NetUpTo(n)'
  BY DEF NetUpTo

LEMMA FifoKept ==
    ASSUME NEW c \in Nat, FifoFrom(c), UNCHANGED <<fifo, tick, current>>
    PROVE  FifoFrom(c)'
  BY DEF FifoFrom, AtMostTotal

LEMMA RestKept ==
    ASSUME AllRest, UNCHANGED reader
    PROVE  AllRest'
  BY DEF AllRest, Rests

LEMMA InitSweep == VnaInit => OneSweep
  BY DEF VnaInit, OneSweep

\* Points that are taken, or lost with the connection.
LEMMA NetTaken ==
    ASSUME SweepTyped, NEW n \in Nat, NetUpTo(n), net # <<>>, net' = Tail(net),
           offset' = offset + 1, UNCHANGED current
    PROVE  NetUpTo(n)'
<1>1. /\ net \in Seq(SUBSET Values) /\ offset \in 0 .. Size - 1 /\ Size \in Nat
      /\ offset \in Nat
  BY SweepSizes DEF SweepTyped
<1>2. /\ Len(net) >= 1 /\ Len(Tail(net)) = Len(net) - 1 /\ Len(net) \in Nat
      /\ \A i \in 1 .. Len(net) - 1 : Tail(net)[i] = net[i + 1]
  BY <1>1, SeqSteps
<1>3. ASSUME NEW i \in 1 .. Len(net')
      PROVE  net'[i] = {<<current', offset' + i - 1>>}
  <2>1. i + 1 \in 1 .. Len(net) /\ net'[i] = net[i + 1]
    BY <1>2
  <2>2. offset + (i + 1) - 1 = offset' + i - 1
    BY <1>1, <1>2
  <2> QED
    BY <2>1, <2>2 DEF NetUpTo
<1> QED
  BY <1>1, <1>2, <1>3 DEF NetUpTo

LEMMA NetSent ==
    ASSUME SweepTyped, NEW k \in Nat, NetUpTo(k), net' = Append(net, {<<current, k>>}),
           {<<current, k>>} \in SUBSET Values, UNCHANGED <<offset, current>>
    PROVE  NetUpTo(k + 1)'
<1>1. /\ net \in Seq(SUBSET Values) /\ offset \in 0 .. Size - 1 /\ Size \in Nat
      /\ offset \in Nat
  BY SweepSizes DEF SweepTyped
<1>2. /\ Len(net') = Len(net) + 1 /\ Len(net) \in Nat
      /\ net'[Len(net) + 1] = {<<current, k>>}
      /\ \A i \in 1 .. Len(net) : net'[i] = net[i]
  BY <1>1, SeqSteps
<1>3. ASSUME NEW i \in 1 .. Len(net')
      PROVE  net'[i] = {<<current', offset' + i - 1>>}
  <2>1. CASE i = Len(net) + 1
    <3>1. offset + i - 1 = k
      BY <1>1, <1>2, <2>1 DEF NetUpTo
    <3> QED
      BY <1>2, <2>1, <3>1
  <2>2. CASE i # Len(net) + 1
    BY <1>2, <2>2 DEF NetUpTo
  <2> QED
    BY <2>1, <2>2
<1>4. offset' + Len(net') = k + 1
  BY <1>1, <1>2 DEF NetUpTo
<1> QED
  BY <1>3, <1>4 DEF NetUpTo

\* A sample is the next behind those in the FIFO.
LEMMA FifoFed ==
    ASSUME SweepTyped, NEW c \in 0 .. Total, FifoFrom(c), sweep = current, Sample
    PROVE  lost' \/ FifoFrom(c)'
<1>1. /\ fifo \in Seq((0 .. 1) \X (0 .. Total)) /\ Len(fifo) \in Nat
      /\ sweep \in 0 .. 1 /\ tick \in 0 .. Total /\ c \in Nat /\ Total \in Nat
      /\ lost \in BOOLEAN
  BY SweepSizes, SeqSteps DEF SweepTyped
<1>2. UNCHANGED current
  BY DEF Sample, client
<1>3. PICK n \in Nat : n = c + Len(fifo)
  BY <1>1
<1>4. tick = AtMostTotal(n)
  BY <1>3 DEF FifoFrom
<1>5. tick' = AtMostTotal(n + 1)
  <2>1. tick' = IF tick < Total THEN tick + 1 ELSE tick
    BY DEF Sample
  <2> QED
    <3>1. /\ tick < Total => AtMostTotal(n + 1) = n + 1 /\ tick = n
          /\ tick = Total => AtMostTotal(n + 1) = Total
      BY <1>4, AtMostFacts
    <3> QED
      BY <1>1, <2>1, <3>1
<1>6. CASE Len(fifo) < Depth
  <2>1. fifo' = Append(fifo, <<current, tick>>)
    BY <1>6 DEF Sample
  <2>2. /\ Len(fifo') = Len(fifo) + 1 /\ fifo'[Len(fifo) + 1] = <<current, tick>>
        /\ \A i \in 1 .. Len(fifo) : fifo'[i] = fifo[i]
    BY <1>1, <2>1, SeqSteps
  <2>3. ASSUME NEW i \in 1 .. Len(fifo')
        PROVE  fifo'[i] = <<current', AtMostTotal(c + i - 1)>>
    <3>1. CASE i = Len(fifo) + 1
      <4>1. c + i - 1 = n
        BY <1>1, <1>3, <3>1
      <4> QED
        BY <1>2, <1>4, <2>2, <3>1, <4>1
    <3>2. CASE i # Len(fifo) + 1
      <4>1. i \in 1 .. Len(fifo)
        BY <1>1, <2>2, <3>2
      <4> QED
        BY <1>2, <2>2, <4>1 DEF FifoFrom
    <3> QED
      BY <3>1, <3>2
  <2>4. c + Len(fifo') = n + 1
    BY <1>1, <1>3, <2>2
  <2> QED
    BY <1>5, <2>3, <2>4 DEF FifoFrom, AtMostTotal
<1>7. CASE ~(Len(fifo) < Depth) /\ tick < Total
  <2>1. lost' = (lost \/ tick < Total)
    BY <1>7 DEF Sample
  <2> QED
    BY <1>7, <2>1
<1>8. CASE ~(Len(fifo) < Depth) /\ ~(tick < Total)
  <2>1. UNCHANGED <<fifo, tick>>
    BY <1>8 DEF Sample
  <2> QED
    BY <1>1, <1>2, <2>1, FifoKept
<1> QED
  BY <1>6, <1>7, <1>8

\* What a thread has yet to do depends on the points, the FIFO and itself.
LEMMA ReadsKept ==
    ASSUME SweepTyped, NEW r \in Readers, NEW c \in 0 .. Total, Reads(r, c),
           reader'[r] = reader[r], UNCHANGED current, FifoFrom(c)', fifo # <<>> => fifo' # <<>>,
           \A n \in Nat : NetUpTo(n) => NetUpTo(n)'
    PROVE  Reads(r, c)'
<1>1. reader'[r].cntr = c
  BY DEF Reads
<1>2. CASE /\ reader[r].at = "test" \/ (reader[r].at = "read" /\ fifo # <<>>)
           /\ reader[r].buffer = Gathered(c) /\ NetUpTo(c \div PerPoint)
  <2>0. c \in Nat
    BY SweepSizes
  <2>1. PICK k \in Nat : k = c \div PerPoint
    BY <2>0, PartsOf
  <2>2. NetUpTo(k)'
    BY <1>2, <2>1
  <2>3. Gathered(c)' = Gathered(c)
    BY DEF Gathered
  <2> QED
    BY <1>1, <1>2, <2>1, <2>2, <2>3 DEF Reads
<1>3. ASSUME NEW k \in 0 .. Size - 1, reader[r].at = "send",
             c = (k + 1) * PerPoint, reader[r].buffer = {<<current, k>>}, NetUpTo(k)
      PROVE  Reads(r, c)'
  <2>1. NetUpTo(k)'
    BY <1>3
  <2> QED
    BY <1>1, <1>3, <2>1 DEF Reads
<1> QED
  BY <1>2, <1>3 DEF Reads

LEMMA OthersKept ==
    ASSUME NEW r \in Readers, OthersRest(r), \A s \in Readers \ {r} : reader'[s] = reader[s]
    PROVE  OthersRest(r)'
  BY DEF OthersRest, Rests

\* A sweep under way is left alone by whatever leaves its parts alone.
LEMMA RunningKept ==
    ASSUME SweepTyped, Running, pc' \in {"frequencies", "recv"},
           UNCHANGED <<current, offset, net, commands, sock_thread, reader, sweep,
                       tick, fifo, lost>>
    PROVE  Running'
<1>1. CASE lost
  BY <1>1 DEF Running
<1>2. CASE Swept
  <2>1. \A n \in Nat : NetUpTo(n) => NetUpTo(n)'
    BY NetKept
  <2>2. CASE NetUpTo(Size) /\ AllRest
    BY <1>2, <2>1, <2>2, RestKept, SweepSizes DEF Running, Swept
  <2>3. ASSUME NEW r \in Readers, NEW c \in 0 .. Total, Reads(r, c), OthersRest(r)
        PROVE  Reads(r, c)' /\ OthersRest(r)'
    <3>1. FifoFrom(c)'
      BY <2>3, FifoKept, SweepSizes DEF Reads
    <3> QED
      BY <2>1, <2>3, <3>1, ReadsKept, OthersKept
  <2> QED
    BY <1>2, <2>2, <2>3 DEF Running, Swept
<1> QED
  BY <1>1, <1>2 DEF Running

LEMMA ClientSweep ==
    ASSUME SweepTyped, OneSweep, Connect \/ Sweep \/ Cancel \/ Receive \/ Leave
    PROVE  OneSweep'
<1>1. CASE Connect
  BY <1>1 DEF OneSweep, Connect, client
<1>2. CASE Sweep
  <2>1. SUFFICES ASSUME ~hurried' PROVE Asked' /\ conn' = "open"
    BY DEF OneSweep
  <2>2. AtRest
    BY <1>2, <2>1 DEF Sweep
  <2>3. conn' = "open" /\ pc' = "recv" /\ net' = <<>> /\ offset' = 0
    BY <1>2, <2>2 DEF Sweep, AtRest, receiver
  <2>4. commands' = <<[kind |-> "sweep", sweep |-> current']>>
    BY <1>2, <2>2 DEF Sweep, AtRest
  <2>5. AllRest'
    BY <1>2, <2>2 DEF Sweep, AtRest, AllRest, Rests
  <2> QED
    BY <2>3, <2>4, <2>5 DEF Asked
<1>3. CASE Cancel
  BY <1>3 DEF OneSweep, Cancel, StopReading
<1>4. CASE Leave
  BY <1>4 DEF OneSweep, Leave, StopReading
<1>5. CASE Receive
  <2>1. SUFFICES ASSUME mode' = "reading", ~hurried'
                 PROVE  conn' = "open" /\ Running'
    BY DEF OneSweep
  <2>2. /\ mode = "reading" /\ ~hurried /\ offset' = offset + 1
        /\ net # <<>> /\ net' = Tail(net)
    BY <1>5, <2>1 DEF Receive, StopReading
  <2>3. conn = "open" /\ Running
    BY <2>2 DEF OneSweep, Asked, Begun
  <2>4. UNCHANGED <<conn, current, commands, pc, sock_thread, reader, sweep, tick,
                    fifo, lost>>
    BY <1>5 DEF Receive, receiver
  <2>5. CASE lost
    BY <2>3, <2>4, <2>5 DEF Running
  <2>6. CASE Swept
    <3>1. \A n \in Nat : NetUpTo(n) => NetUpTo(n)'
      BY <2>2, <2>4, NetTaken
    <3>2. CASE NetUpTo(Size) /\ AllRest
      BY <2>3, <2>4, <2>6, <3>1, <3>2, RestKept, SweepSizes DEF Running, Swept
    <3>3. ASSUME NEW r \in Readers, NEW c \in 0 .. Total, Reads(r, c), OthersRest(r)
          PROVE  Reads(r, c)' /\ OthersRest(r)'
      <4>1. FifoFrom(c)'
        BY <2>4, <3>3, FifoKept, SweepSizes DEF Reads
      <4> QED
        BY <2>4, <3>1, <3>3, <4>1, ReadsKept, OthersKept
    <3> QED
      BY <2>3, <2>4, <2>6, <3>2, <3>3 DEF Running, Swept
  <2> QED
    BY <2>3, <2>4, <2>5, <2>6 DEF Running
<1> QED
  BY <1>1, <1>2, <1>3, <1>4, <1>5

LEMMA SampleSweep == SweepTyped /\ OneSweep /\ Sample => OneSweep'
<1> SUFFICES ASSUME SweepTyped, OneSweep, Sample, mode' = "reading", ~hurried'
             PROVE  conn' = "open" /\ (Asked' \/ Begun' \/ Running')
  BY DEF OneSweep
<1>1. UNCHANGED <<mode, current, offset, hurried, conn, commands, net, pc, sock_thread,
                  reader, rst, sweep>>
  BY DEF Sample, client, sockets
<1>2. conn = "open" /\ (Asked \/ Begun \/ Running)
  BY <1>1 DEF OneSweep
<1>3. CASE Asked
  BY <1>1, <1>2, <1>3, RestKept DEF Asked
<1>4. CASE Begun
  BY <1>4 DEF Begun, Sample
<1>5. CASE Running /\ lost
  <2>1. lost' = TRUE
    BY <1>5, Zenon DEF Sample
  <2> QED
    BY <1>1, <1>2, <1>5, <2>1 DEF Running
<1>6. CASE Running /\ Swept
  <2>1. \A n \in Nat : NetUpTo(n) => NetUpTo(n)'
    BY <1>1, NetKept
  <2>2. CASE NetUpTo(Size) /\ AllRest
    BY <1>1, <1>2, <1>6, <2>1, <2>2, RestKept, SweepSizes DEF Running, Swept
  <2>3. ASSUME NEW r \in Readers, NEW c \in 0 .. Total, Reads(r, c), OthersRest(r)
        PROVE  lost' \/ (Reads(r, c)' /\ OthersRest(r)')
    <3>1. lost' \/ FifoFrom(c)'
      BY <1>6, <2>3, FifoFed DEF Reads, Swept
    <3>2. fifo # <<>> => fifo' # <<>>
      <4>1. fifo' = fifo \/ fifo' = Append(fifo, <<sweep, tick>>)
        BY DEF Sample
      <4>2. <<sweep, tick>> \in (0 .. 1) \X (0 .. Total)
            /\ fifo \in Seq((0 .. 1) \X (0 .. Total))
        BY DEF SweepTyped
      <4> QED
        BY <4>1, <4>2
    <3> QED
      BY <1>1, <2>1, <2>3, <3>1, <3>2, ReadsKept, OthersKept
  <2> QED
    BY <1>1, <1>2, <1>6, <2>2, <2>3 DEF Running, Swept
<1> QED
  BY <1>2, <1>3, <1>4, <1>5, <1>6 DEF Running

LEMMA MainSweep == SweepTyped /\ OneSweep /\ Main => OneSweep'
<1> SUFFICES ASSUME SweepTyped, OneSweep, Main, mode' = "reading", ~hurried'
             PROVE  conn' = "open" /\ (Asked' \/ Begun' \/ Running')
  BY DEF OneSweep
<1>1. UNCHANGED <<mode, current, offset, hurried, net>>
  BY DEF Main, Accept, StartSweep, CreateReader, Release, StopReceiver, ClearSocket,
         client, sockets
<1>2. conn = "open" /\ (Asked \/ Begun \/ Running)
  BY <1>1 DEF OneSweep
<1>3. pc \in {"recv", "create", "frequencies"}
  BY <1>2 DEF Asked, Begun, Running
<1>4. ~Accept /\ ~ClearSocket
  BY <1>3 DEF Accept, ClearSocket, Goto
<1>5. commands = <<>> \/ (Asked /\ Head(commands).kind = "sweep")
  BY <1>2 DEF Asked, Begun, Running
<1>6. ~StopReceiver
  BY <1>2, <1>5 DEF StopReceiver, NextCommand, Goto
<1>7. CASE StartSweep
  <2>1. Asked
    BY <1>2, <1>7 DEF StartSweep, NextCommand, Begun, Running
  <2>2. Head(commands) = [kind |-> "sweep", sweep |-> current] /\ commands' = <<>>
    BY <1>7, <2>1 DEF StartSweep, NextCommand, Asked
  <2>3. UNCHANGED <<conn, reader>>
    BY <1>7 DEF StartSweep
  <2>4. AllRest'
    BY <2>1, <2>3, RestKept DEF Asked
  <2> QED
    BY <1>1, <1>2, <1>7, <2>1, <2>2, <2>3, <2>4 DEF StartSweep, Begun, Asked
<1>8. CASE CreateReader
  <2>1. Begun
    BY <1>2, <1>8 DEF CreateReader, Goto, Asked, Running
  <2>2. /\ pc' = "frequencies" /\ sock_thread' = TRUE
        /\ UNCHANGED <<conn, commands, sweep, tick, fifo>>
    BY <1>8 DEF CreateReader, Goto, sockets
  <2>3. CASE lost' = TRUE
    BY <1>2, <2>1, <2>2, <2>3 DEF Begun, Running
  <2>4. CASE Free # {} /\ reader' = [reader EXCEPT ![CHOOSE r \in Free : TRUE] =
                                        [None EXCEPT !.at = "test"]]
    <3>1. PICK r : r = CHOOSE q \in Free : TRUE
      OBVIOUS
    <3>2. r \in Readers
      BY <2>4, <3>1 DEF Free
    <3>3. reader' = [reader EXCEPT ![r] = [None EXCEPT !.at = "test"]]
      BY <2>4, <3>1
    <3>4. /\ reader'[r] = [at |-> "test", cntr |-> 0, buffer |-> {}]
          /\ \A s \in Readers \ {r} : reader'[s] = reader[s]
      BY <3>2, <3>3 DEF SweepTyped, None
    <3>5. OthersRest(r)
      BY <2>1 DEF Begun, AllRest, OthersRest
    <3>6. OthersRest(r)'
      BY <3>2, <3>4, <3>5, OthersKept
    <3>7. FifoFrom(0)'
      BY <2>1, <2>2, SweepSizes DEF Begun, FifoFrom, AtMostTotal
    <3>8. NetUpTo(0)'
      BY <1>1, <2>1 DEF Begun, NetUpTo
    <3>9. Gathered(0)' = {}
      BY PointsOfSweep, SweepSizes DEF Gathered
    <3>10. Reads(r, 0)'
      BY <3>4, <3>7, <3>8, <3>9, PointsOfSweep DEF Reads
    <3> QED
      BY <1>1, <1>2, <2>1, <2>2, <3>2, <3>6, <3>10, NothingYet DEF Begun, Running, Swept
  <2> QED
    BY <1>8, <2>3, <2>4 DEF CreateReader
<1>9. CASE Release
  <2>1. Running
    BY <1>2, <1>9 DEF Release, Goto, Asked, Begun
  <2>2. /\ pc' = "recv"
        /\ UNCHANGED <<conn, commands, sock_thread, reader, sweep, tick, fifo, lost>>
    BY <1>9 DEF Release, Goto, sockets
  <2> QED
    BY <1>1, <1>2, <2>1, <2>2, RunningKept
<1> QED
  BY <1>4, <1>6, <1>7, <1>8, <1>9 DEF Main

\* A thread without a part in the sweep can only end.
LEMMA RestingEnds ==
    ASSUME SweepTyped, NEW s \in Readers, Rests(s), Reader(s)
    PROVE  /\ reader'[s].at = "none" /\ Rests(s)'
           /\ \A r \in Readers \ {s} : reader'[r] = reader[r]
           /\ UNCHANGED <<conn, mode, current, offset, hurried, commands, net, pc,
                          sock_thread, rst, sweep, tick, fifo, lost>>
<1>1. reader[s].at \notin {"read", "send"}
  BY DEF Rests
<1>2. TestReader(s) /\ reader[s].at = "test" /\ Done(s)
  BY <1>1 DEF Reader, TestReader, ReadSample, SendPoint, Step, Rests, Done
<1>3. reader' = [reader EXCEPT ![s] = None]
  BY <1>2 DEF TestReader, Step
<1>4. UNCHANGED <<conn, mode, current, offset, hurried, commands, net, pc,
                  sock_thread, rst, sweep, tick, fifo, lost>>
  BY <1>2 DEF TestReader, client, sockets, receiver
<1> QED
  BY <1>3, <1>4 DEF SweepTyped, None, Rests

\* The thread of the sweep takes a sample.
LEMMA SampleRead ==
    ASSUME SweepTyped, NEW r \in Readers, NEW c \in 0 .. Total, Reads(r, c), ReadSample(r)
    PROVE  c + 1 \in 0 .. Total /\ Reads(r, c + 1)'
<1>1. /\ fifo \in Seq((0 .. 1) \X (0 .. Total)) /\ Len(fifo) \in Nat
      /\ c \in Nat /\ Total \in Nat
  BY SweepSizes, SeqSteps DEF SweepTyped
<1>2. /\ reader[r].at = "read" /\ reader[r].cntr = c /\ fifo # <<>> /\ FifoFrom(c)
      /\ reader[r].buffer = Gathered(c) /\ NetUpTo(c \div PerPoint)
  BY DEF Reads, ReadSample, Step
<1>3. c < Total /\ c + 1 \in 0 .. Total
  BY <1>1, <1>2 DEF SweepTyped
<1>4. UNCHANGED <<current, offset, net, tick>> /\ fifo' = Tail(fifo)
  BY <1>2 DEF ReadSample, client, sockets
<1>5. /\ Len(fifo) >= 1 /\ Len(fifo') = Len(fifo) - 1 /\ Head(fifo) = fifo[1]
      /\ \A i \in 1 .. Len(fifo) - 1 : fifo'[i] = fifo[i + 1]
  BY <1>1, <1>2, <1>4, SeqSteps
<1>6. FifoFrom(c + 1)'
  <2>1. ASSUME NEW i \in 1 .. Len(fifo')
        PROVE  fifo'[i] = <<current', AtMostTotal(c + 1 + i - 1)>>
    <3>1. i + 1 \in 1 .. Len(fifo) /\ fifo'[i] = fifo[i + 1]
      BY <1>1, <1>5
    <3>2. c + (i + 1) - 1 = c + 1 + i - 1
      BY <1>1
    <3> QED
      BY <1>2, <1>4, <3>1, <3>2 DEF FifoFrom
  <2>2. c + 1 + Len(fifo') = c + Len(fifo)
    BY <1>1, <1>5
  <2> QED
    BY <1>2, <1>4, <2>1, <2>2 DEF FifoFrom, AtMostTotal
<1>7. Head(fifo) = <<current, c>>
  <2>1. 1 \in 1 .. Len(fifo) /\ c + 1 - 1 = c
    BY <1>1, <1>5
  <2>2. AtMostTotal(c) = c
    BY <1>1, <1>3, AtMostFacts
  <2> QED
    BY <1>2, <1>5, <2>1, <2>2 DEF FifoFrom
<1>8. PICK k \in 0 .. Size - 1 : k = c \div PerPoint
  BY <1>3, PointsOfSweep
<1>9. PICK j \in 0 .. PerPoint - 1 : j = c % PerPoint
  BY <1>1, PartsOf
<1>10. /\ reader'[r].cntr = c + 1
       /\ reader'[r].at = IF (c + 1) % PerPoint = 0 THEN "send" ELSE "test"
       /\ reader'[r].buffer = IF j < Settle THEN {}
                                ELSE reader[r].buffer \cup {Value(<<current, c>>)}
  BY <1>2, <1>7, <1>9 DEF ReadSample, Step, Skipped, SweepTyped
<1>11. NetUpTo(k)'
  BY <1>2, <1>4, <1>8, NetKept, SweepSizes
<1>12. j >= Settle => reader'[r].buffer = {<<current, k>>}
  <2> SUFFICES ASSUME j >= Settle PROVE reader'[r].buffer = {<<current, k>>}
    OBVIOUS
  <2>1. ~(j < Settle)
    BY SweepSizes
  <2>2. Value(<<current, c>>) = <<current, k>>
    BY <1>8, <1>9, <2>1 DEF Value
  <2>3. reader[r].buffer \subseteq {<<current, k>>}
    BY <1>2, <1>8 DEF Gathered
  <2> QED
    BY <1>10, <2>1, <2>2, <2>3
<1>13. j < Settle => reader'[r].buffer = {}
  BY <1>10
<1>14. CASE j = PerPoint - 1
  <2>1. c + 1 = (k + 1) * PerPoint /\ (c + 1) % PerPoint = 0
    BY <1>1, <1>8, <1>9, <1>14, NextPart
  <2>2. j >= Settle
    BY <1>14, SweepSizes
  <2>3. /\ reader'[r].at = "send" /\ reader'[r].cntr = c + 1
        /\ reader'[r].buffer = {<<current', k>>}
    BY <1>4, <1>10, <1>12, <2>1, <2>2
  <2> QED
    BY <1>3, <1>6, <1>8, <1>11, <2>1, <2>3 DEF Reads
<1>15. CASE j # PerPoint - 1
  <2>1. (c + 1) % PerPoint = j + 1 /\ (c + 1) \div PerPoint = k
    BY <1>1, <1>8, <1>9, <1>15, NextPart
  <2>2. reader'[r].at = "test"
    BY <1>9, <1>10, <2>1
  <2>3. reader'[r].buffer = Gathered(c + 1)'
    <3>1. CASE j < Settle
      <4>1. j + 1 <= Settle
        BY <1>9, <3>1, SweepSizes
      <4> QED
        BY <1>13, <2>1, <3>1, <4>1 DEF Gathered
    <3>2. CASE j >= Settle
      <4>1. ~(j + 1 <= Settle)
        BY <1>9, <3>2, SweepSizes
      <4> QED
        BY <1>4, <1>12, <2>1, <3>2, <4>1 DEF Gathered
    <3> QED
      BY <1>9, <3>1, <3>2, SweepSizes
  <2> QED
    BY <1>3, <1>6, <1>10, <1>11, <2>1, <2>2, <2>3 DEF Reads
<1> QED
  BY <1>14, <1>15

\* The thread of the sweep sends a point.
LEMMA PointSent ==
    ASSUME SweepTyped, NEW r \in Readers, NEW c \in 0 .. Total, Reads(r, c), SendPoint(r),
           sock_thread, conn = "open"
    PROVE  Reads(r, c)'
<1>1. PICK k \in 0 .. Size - 1 :
         /\ reader[r].at = "send" /\ c = (k + 1) * PerPoint
         /\ reader[r].buffer = {<<current, k>>} /\ NetUpTo(k)
  BY DEF Reads, SendPoint, Step
<1>2. /\ net' = Append(net, {<<current, k>>})
      /\ reader' = [reader EXCEPT ![r] = [reader[r] EXCEPT !.at = "test", !.buffer = {}]]
      /\ UNCHANGED <<current, offset, fifo, tick>>
  BY <1>1 DEF SendPoint, Step, client, receiver
<1>3. /\ reader'[r].at = "test" /\ reader'[r].buffer = {} /\ reader'[r].cntr = c
  BY <1>2 DEF SweepTyped, Reads
<1>4. FifoFrom(c)'
  BY <1>2, FifoKept, SweepSizes DEF Reads
<1>5. k \in Nat /\ {<<current, k>>} \in SUBSET Values
  BY <1>1, SweepSizes DEF SweepTyped, Values
<1>6. NetUpTo(k + 1)'
  BY <1>1, <1>2, <1>5, NetSent
<1>7. c % PerPoint = 0 /\ c \div PerPoint = k + 1
  <2>1. k + 1 \in Int /\ 0 \in 0 .. PerPoint - 1 /\ (k + 1) * PerPoint + 0 = c
    BY <1>1, <1>5, SweepSizes
  <2>2. /\ ((k + 1) * PerPoint + 0) % PerPoint = 0
        /\ ((k + 1) * PerPoint + 0) \div PerPoint = k + 1
    BY <2>1, PointOf
  <2> QED
    BY <2>1, <2>2, Zenon
<1>8. Gathered(c)' = {}
  BY <1>7, SweepSizes DEF Gathered
<1> QED
  BY <1>3, <1>4, <1>6, <1>7, <1>8 DEF Reads

LEMMA ReaderSweep ==
    ASSUME SweepTyped, OneSweep, NEW s \in Readers, Reader(s)
    PROVE  OneSweep'
<1> SUFFICES ASSUME mode' = "reading", ~hurried'
             PROVE  conn' = "open" /\ (Asked' \/ Begun' \/ Running')
  BY DEF OneSweep
<1>1. UNCHANGED <<mode, current, offset, hurried, conn, commands, pc, sock_thread,
                  rst, sweep, tick, lost>>
  BY DEF Reader, TestReader, ReadSample, SendPoint, client, sockets, receiver
<1>2. conn = "open" /\ (Asked \/ Begun \/ Running)
  BY <1>1 DEF OneSweep
<1>3. CASE AllRest /\ (Asked \/ Begun \/ (Running /\ Swept /\ NetUpTo(Size)))
  <2>1. Rests(s)
    BY <1>3 DEF AllRest
  <2>2. AllRest' /\ UNCHANGED <<net, fifo>>
    BY <1>3, <2>1, RestingEnds DEF AllRest, Rests
  <2>3. NetUpTo(Size) => NetUpTo(Size)'
    BY <1>1, <2>2, NetKept, SweepSizes
  <2> QED
    BY <1>1, <1>2, <1>3, <2>2, <2>3 DEF Asked, Begun, Running, Swept
<1>4. CASE Running /\ lost
  BY <1>1, <1>2, <1>4 DEF Running
<1>5. ASSUME Running, Swept, NEW r \in Readers, NEW c \in 0 .. Total, Reads(r, c),
             OthersRest(r)
      PROVE  Running'
  <2>1. SUFFICES \/ NetUpTo(Size)' /\ AllRest'
                 \/ \E d \in 0 .. Total : Reads(r, d)' /\ OthersRest(r)'
    BY <1>1, <1>5 DEF Running, Swept
  <2>2. CASE s # r
    <3>1. Rests(s)
      BY <1>5, <2>2 DEF OthersRest
    <3>2. /\ reader'[s].at = "none" /\ UNCHANGED <<net, fifo>>
          /\ \A q \in Readers \ {s} : reader'[q] = reader[q]
      BY <3>1, RestingEnds
    <3>3. OthersRest(r)'
      BY <1>5, <3>2 DEF OthersRest, Rests
    <3>4. FifoFrom(c)'
      BY <1>1, <1>5, <3>2, FifoKept, SweepSizes DEF Reads
    <3>5. \A n \in Nat : NetUpTo(n) => NetUpTo(n)'
      BY <1>1, <3>2, NetKept
    <3>6. Reads(r, c)'
      BY <1>1, <1>5, <2>2, <3>2, <3>4, <3>5, ReadsKept
    <3> QED
      BY <3>3, <3>6
  <2>3. CASE s = r
    <3>1. \A q \in Readers \ {r} : reader'[q] = reader[q]
      BY <2>3 DEF Reader, TestReader, ReadSample, SendPoint, Step, SweepTyped
    <3>2. OthersRest(r)'
      BY <1>5, <3>1, OthersKept
    <3>3. CASE ReadSample(r)
      BY <1>5, <3>2, <3>3, SampleRead
    <3>4. CASE SendPoint(r)
      BY <1>2, <1>5, <3>2, <3>4, PointSent DEF Swept
    <3>5. CASE TestReader(r)
      <4>1. /\ reader[r].at = "test" /\ reader[r].cntr = c /\ FifoFrom(c)
            /\ reader[r].buffer = Gathered(c) /\ NetUpTo(c \div PerPoint)
        BY <1>5, <3>5 DEF TestReader, Step, Reads
      <4>2. UNCHANGED <<net, fifo>>
        BY <3>5 DEF TestReader, sockets, receiver
      <4>3. PICK k \in Nat : k = c \div PerPoint
        BY PointsOfSweep, SweepSizes
      <4>4. NetUpTo(k)'
        BY <1>1, <4>1, <4>2, <4>3, NetKept
      <4>5. CASE Done(r)
        <5>1. reader'[r].at = "none"
          BY <3>5, <4>5 DEF TestReader, Step, None, SweepTyped
        <5>2. AllRest'
          BY <3>2, <5>1 DEF AllRest, OthersRest, Rests
        <5>3. k = Size
          BY <4>1, <4>3, <4>5, PointsOfSweep DEF Done
        <5> QED
          BY <4>4, <5>2, <5>3
      <4>6. CASE ~Done(r)
        <5>1. /\ fifo # <<>> /\ reader' = [reader EXCEPT ![r] = [reader[r] EXCEPT !.at = "read"]]
          BY <1>5, <3>5, <4>6 DEF TestReader, Step, Swept
        <5>2. /\ reader'[r].at = "read" /\ reader'[r].cntr = c
              /\ reader'[r].buffer = Gathered(c)
          BY <4>1, <5>1 DEF SweepTyped
        <5>3. FifoFrom(c)'
          BY <1>1, <4>1, <4>2, FifoKept, SweepSizes
        <5>4. Gathered(c)' = Gathered(c)
          BY <1>1 DEF Gathered
        <5>5. Reads(r, c)'
          BY <4>2, <4>3, <4>4, <5>1, <5>2, <5>3, <5>4 DEF Reads
        <5> QED
          BY <3>2, <5>5
      <4> QED
        BY <4>5, <4>6
    <3> QED
      BY <2>3, <3>3, <3>4, <3>5 DEF Reader
  <2> QED
    BY <2>2, <2>3
<1> QED
  BY <1>1, <1>2, <1>3, <1>4, <1>5 DEF Running, Swept, Asked, Begun

-----------------------------------------------------------------------------
\* The points of a sweep.

LEMMA SweepNext == SweepIInv /\ [VnaNext]_vna => SweepIInv'
<1> SUFFICES ASSUME SweepTyped, OneSweep, [VnaNext]_vna PROVE SweepTyped' /\ OneSweep'
  BY DEF SweepIInv
<1>1. CASE Connect \/ Sweep \/ Cancel \/ Receive \/ Leave
  BY <1>1, ClientTyped, ClientSweep
<1>2. CASE Sample
  BY <1>2, SampleTyped, SampleSweep
<1>3. CASE Main
  BY <1>3, MainTyped, MainSweep
<1>4. CASE \E r \in Readers : Reader(r)
  BY <1>4, ReaderTyped, ReaderSweep
<1>5. CASE UNCHANGED vna
  <2>1. UNCHANGED <<conn, mode, current, offset, hurried, commands, net, pc,
                    sock_thread, reader, rst, sweep, tick, fifo, lost>>
    BY <1>5 DEF vna
  <2>2. SweepTyped'
    BY <2>1 DEF SweepTyped
  <2>3. mode' = "reading" /\ ~hurried' => conn' = "open" /\ (Asked' \/ Begun' \/ Running')
    <3> SUFFICES ASSUME mode = "reading", ~hurried
                 PROVE  conn' = "open" /\ (Asked' \/ Begun' \/ Running')
      BY <2>1
    <3>1. conn = "open" /\ (Asked \/ Begun \/ Running)
      BY DEF OneSweep
    <3>2. Asked => Asked'
      BY <2>1, RestKept DEF Asked
    <3>3. Begun => Begun'
      BY <2>1, RestKept DEF Begun
    <3>4. Running => Running'
      BY <2>1, RunningKept DEF Running
    <3> QED
      BY <2>1, <3>1, <3>2, <3>3, <3>4
  <2> QED
    BY <2>2, <2>3 DEF OneSweep
<1> QED
  BY <1>1, <1>2, <1>3, <1>4, <1>5 DEF VnaNext

THEOREM SweepIInvTheorem == VnaSpec => []SweepIInv
<1>1. VnaInit => SweepIInv
  BY SweepInitTyped, InitSweep DEF SweepIInv
<1> QED
  BY <1>1, SweepNext, PTL DEF VnaSpec

\* What the client stores as the k-th point of a sweep is made of the samples of the
\* k-th frequency and of no others, for every list, rate and FIFO, and every
\* number of threads.
THEOREM SweepTheorem == VnaSpec => SweepExact
<1>1. SweepIInv => VnaTypeOK
  <2> SUFFICES ASSUME SweepTyped PROVE VnaTypeOK
    BY DEF SweepIInv
  <2>1. {current, sweep} \subseteq 0 .. 1 /\ offset \in 0 .. Size /\ tick \in 0 .. Total
    BY SweepSizes DEF SweepTyped
  <2>2. {hurried, sock_thread, lost} \subseteq BOOLEAN
    BY Zenon DEF SweepTyped
  <2>3. \A i \in DOMAIN net : net[i] \subseteq Values
    BY DEF SweepTyped
  <2>4. \A r \in Readers : /\ reader[r].at \in {"none", "test", "read", "send"}
                            /\ reader[r].cntr \in 0 .. Total
                            /\ reader[r].buffer \subseteq Values
    BY DEF SweepTyped
  <2> QED
    BY <2>1, <2>2, <2>3, <2>4 DEF SweepTyped, VnaTypeOK
<1>2. SweepIInv /\ [VnaNext]_vna
        => [(mode = "reading" /\ net # <<>> /\ net' = Tail(net) /\ conn' = conn)
              => Head(net) = {<<current, offset>>} \/ hurried \/ lost]_vna
  <2> SUFFICES ASSUME SweepTyped, OneSweep, mode = "reading", net # <<>>, ~hurried, ~lost
               PROVE  Head(net) = {<<current, offset>>}
    BY DEF SweepIInv
  <2>1. Running /\ Swept
    BY DEF OneSweep, Asked, Begun, Running
  <2>2. PICK n : NetUpTo(n)
    BY <2>1 DEF Swept, Reads
  <2>3. 1 \in 1 .. Len(net) /\ Head(net) = net[1] /\ offset + 1 - 1 = offset
    BY SeqSteps, SweepSizes DEF SweepTyped
  <2> QED
    BY <2>2, <2>3 DEF NetUpTo
<1> QED
  BY <1>1, <1>2, SweepIInvTheorem, PTL DEF VnaSpec, SweepExact, PointsExact
=============================================================================
