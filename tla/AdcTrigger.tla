----------------------------- MODULE AdcTrigger -----------------------------
(* cores/adc.v, the always block: when the rectified sum of both channels   *)
(* reaches the trigger level the core sends a series of limiter_val words,  *)
(* one every clock and without looking at tready, the last one with tlast.  *)
(* One step is one rising edge of aclk (or aresetn going low).              *)
(*                                                                          *)
(* The samples matter only through sum_abs, and the delay line in front of  *)
(* it (int_dat, abs) turns an arbitrary input into an arbitrary sum.  Of    *)
(* the word sent, the two type bits are kept.  The software drives the two  *)
(* reset wires through the configuration registers, at any edge; it writes  *)
(* the limiter while aresetn is low.                                        *)
(*                                                                          *)
(* The comment at cores/adc.v:212 says that sending stops at the limit OR   *)
(* when the sum is below the level.  The condition below it has only the    *)
(* limit, and the type bits 2'b10 mark the words of a series that lie below *)
(* the level: the module has what the code does.                            *)
EXTENDS Integers

CONSTANTS Level,      \* trigger_level
          Sums,       \* the values sum_abs can have
          Limits,     \* the values 2^limiter can have
          CountMod,   \* modulus of triggers_count, 2^16 in the source
          MaxSamples  \* bound: samples between two resets

ASSUME TriggerAssumption ==
    /\ Level \in Nat \ {0}
    /\ Sums \subseteq Nat /\ 0 \in Sums
    /\ Limits \subseteq Nat \ {0}
    /\ CountMod \in Nat \ {0}
    /\ MaxSamples \in Nat

VARIABLES
    sum_abs, max_sum_abs, max_sum_out,
    trigger_activated, triggers_count, first_trigged, last_detrigged,
    sample_counter, samples_sent, limiter_val, cur_limiter,
    m_axis_tvalid, m_axis_tlast,
    axis_type,        \* axis_data_reg[31:30]
    fresh,            \* was axis_data_reg written at the last edge?
    sent_before,      \* samples_sent when the trigger was last reset
    pulse             \* of the newest series: no sample yet at or below the
                      \* level ("up"), or some ("fell"); "none" without one

max_sum == <<max_sum_abs, max_sum_out>>
stats == <<triggers_count, first_trigged, last_detrigged>>
stream == <<m_axis_tvalid, m_axis_tlast, axis_type>>
vars == <<sum_abs, max_sum_abs, max_sum_out, trigger_activated, triggers_count,
          first_trigged, last_detrigged, sample_counter, samples_sent,
          limiter_val, cur_limiter, m_axis_tvalid, m_axis_tlast, axis_type,
          fresh, sent_before, pulse>>

Above == "00"         \* the three types of a word
Below == "10"
LastWord == "11"

trigger_now == Level <= sum_abs \/ trigger_activated

AtLimit == cur_limiter = limiter_val - 1

-----------------------------------------------------------------------------
Init ==
    /\ sum_abs = 0 /\ max_sum_abs = 0 /\ max_sum_out = 0
    /\ trigger_activated = FALSE
    /\ triggers_count = 0 /\ first_trigged = 0 /\ last_detrigged = 0
    /\ sample_counter = 0 /\ samples_sent = 0
    /\ limiter_val \in Limits /\ cur_limiter = 0
    /\ m_axis_tvalid = FALSE /\ m_axis_tlast = FALSE /\ axis_type = Above
    /\ fresh = FALSE /\ sent_before = 0 /\ pulse = "none"

\* aresetn goes low; m_axis_tlast is not in its list.
Reset ==
    /\ sum_abs' = 0 /\ max_sum_abs' = 0 /\ max_sum_out' = 0
    /\ trigger_activated' = FALSE
    /\ triggers_count' = 0 /\ first_trigged' = 0 /\ last_detrigged' = 0
    /\ sample_counter' = 0 /\ samples_sent' = 0
    /\ limiter_val' \in Limits /\ cur_limiter' = 0
    /\ m_axis_tvalid' = FALSE /\ axis_type' = Above /\ UNCHANGED m_axis_tlast
    /\ fresh' = FALSE /\ sent_before' = 0 /\ pulse' = "none"

\* The largest sum since the software last reset it.
TrackMaximum(nreset_max_sum) ==
    /\ max_sum_abs' = IF ~nreset_max_sum THEN 0
                      ELSE IF sum_abs > max_sum_abs THEN sum_abs ELSE max_sum_abs
    /\ max_sum_out' = max_sum_abs

NextSample(sum) ==
    /\ sample_counter < MaxSamples
    /\ sample_counter' = sample_counter + 1
    /\ sum_abs' = sum

\* (the slip of not counting a series that starts right behind another)
Lazy_StartSeries ==
    /\ triggers_count' = IF m_axis_tvalid THEN triggers_count
                         ELSE (triggers_count + 1) % CountMod
    /\ first_trigged' = sample_counter

\* (the slip of taking the time after the edge, not the one before it)
Late_StartSeries ==
    /\ triggers_count' = (triggers_count + 1) % CountMod
    /\ first_trigged' = sample_counter + 1

StartSeries ==
    /\ triggers_count' = (triggers_count + 1) % CountMod
    /\ first_trigged' = sample_counter

\* (the slip of counting in the branch of the words above the level only)
Uncounted_SendWord ==
    /\ cur_limiter' = IF AtLimit THEN 0
                      ELSE IF sum_abs <= Level THEN cur_limiter ELSE cur_limiter + 1
    /\ axis_type' = IF AtLimit THEN LastWord
                    ELSE IF sum_abs <= Level THEN Below ELSE Above
    /\ m_axis_tlast' = AtLimit
    /\ m_axis_tvalid' = TRUE /\ fresh' = TRUE
    /\ samples_sent' = samples_sent + 1

SendWord ==
    /\ cur_limiter' = IF AtLimit THEN 0 ELSE cur_limiter + 1
    /\ axis_type' = IF AtLimit THEN LastWord
                    ELSE IF sum_abs <= Level THEN Below ELSE Above
    /\ m_axis_tlast' = AtLimit
    /\ m_axis_tvalid' = TRUE /\ fresh' = TRUE
    /\ samples_sent' = samples_sent + 1

\* The trigger fires or a series is under way: one more word.
Send ==
    /\ trigger_now
    /\ IF trigger_activated THEN UNCHANGED <<triggers_count, first_trigged>>
                            ELSE StartSeries
    /\ trigger_activated' = ~AtLimit
    /\ SendWord
    /\ last_detrigged' = IF sum_abs <= Level THEN sample_counter
                                             ELSE last_detrigged
    /\ pulse' = IF sum_abs <= Level THEN "fell"
                ELSE IF trigger_activated THEN pulse ELSE "up"
    /\ UNCHANGED <<limiter_val, sent_before>>

\* No trigger and no series: tvalid goes low.
Silent ==
    /\ ~trigger_now
    /\ m_axis_tvalid' = FALSE /\ m_axis_tlast' = FALSE
    /\ fresh' = FALSE
    /\ UNCHANGED <<trigger_activated, stats, samples_sent, limiter_val,
                   cur_limiter, axis_type, sent_before, pulse>>

\* nreset_trigger is low: the trigger is cleared, the sampling stands still,
\* and the stream registers keep what they have.
Hold ==
    /\ triggers_count' = 0 /\ first_trigged' = 0 /\ last_detrigged' = 0
    /\ trigger_activated' = FALSE /\ cur_limiter' = 0
    /\ fresh' = FALSE /\ sent_before' = samples_sent /\ pulse' = "none"
    /\ UNCHANGED <<sum_abs, sample_counter, samples_sent, limiter_val, stream>>

Next ==
    \/ \E sum \in Sums, nreset_max_sum \in BOOLEAN :
          /\ NextSample(sum)
          /\ Send \/ Silent
          /\ TrackMaximum(nreset_max_sum)
    \/ \E nreset_max_sum \in BOOLEAN : Hold /\ TrackMaximum(nreset_max_sum)
    \/ Reset

Spec == Init /\ [][Next]_vars

-----------------------------------------------------------------------------
Times == 0 .. MaxSamples

\* Types; no time and no word that is not covered by a sample.
TypeOK ==
    /\ {sum_abs, max_sum_abs, max_sum_out} \subseteq Sums
    /\ {trigger_activated, m_axis_tvalid, m_axis_tlast, fresh} \subseteq BOOLEAN
    /\ triggers_count \in 0 .. CountMod - 1
    /\ {first_trigged, last_detrigged, sample_counter} \subseteq Times
    /\ sent_before \in Times /\ samples_sent \in sent_before .. sample_counter
    /\ limiter_val \in Limits /\ cur_limiter \in 0 .. limiter_val - 1
    /\ axis_type \in {Above, Below, LastWord}
    /\ pulse \in {"none", "up", "fell"}

\* Words, series and triggers add up: since the trigger was last reset the
\* core sent as many whole series of limiter_val words as it counted triggers,
\* or one less and the part of a series that is under way.
SeriesLedger ==
    LET whole == samples_sent - sent_before - cur_limiter
        begun == whole \div limiter_val + (IF trigger_activated THEN 1 ELSE 0)
    IN  /\ whole % limiter_val = 0
        /\ triggers_count = begun % CountMod
        /\ trigger_activated <=> cur_limiter # 0

\* tlast, the type of the word and the position in the series agree: a word
\* written at the last edge carries tlast iff it completed a series.
LastMarked ==
    fresh => /\ m_axis_tvalid
             /\ m_axis_tlast <=> cur_limiter = 0
             /\ m_axis_tlast <=> axis_type = LastWord

\* What the program counts on when it maps words to triggers.
SeriesCounted == TypeOK /\ SeriesLedger /\ LastMarked

\* The difference of the two times is a pulse length only once a sample of the
\* newest series was at or below the level; before that last_detrigged belongs
\* to an earlier series and lies before first_trigged (adc.c subtracts them as
\* unsigned numbers, whatever the order).
PulseReadable ==
    /\ pulse = "fell" => first_trigged <= last_detrigged
    /\ pulse = "up" => last_detrigged < first_trigged
    /\ pulse = "none" => first_trigged = 0 /\ last_detrigged = 0

\* A series is sent without a gap and covers limiter_val samples, whatever the
\* sum does meanwhile: the word at place k of a series is the sample taken k
\* edges after first_trigged, and its last word is sent limiter_val edges after
\* that time.  (The number of a line in the file of adc.c is the time since the
\* trigger; cores/adc.v:212 says that the series would end earlier.)
SeriesUnbroken ==
    /\ trigger_activated => sample_counter = first_trigged + cur_limiter
    /\ fresh /\ m_axis_tlast => sample_counter = first_trigged + limiter_val
=============================================================================
