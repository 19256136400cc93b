------------------------------- MODULE AdcApp -------------------------------
(* projects/adc_test/adc.c against the cores it drives: the program takes a *)
(* buffer from the CMA driver (patches/cma.c), resets and configures the    *)
(* cores through the configuration registers, polls the position of the     *)
(* writer and, when it has moved, writes one series of the buffer to a file *)
(* and exits.  Its statements interleave with the cores, which go on by     *)
(* themselves.                                                              *)
(*                                                                          *)
(* Of the cores (cores/adc.v, cores/ram_writer.v: modules AdcTrigger and    *)
(* RamWriter) a burst is one unit: the trigger starts a series of SeriesLen *)
(* bursts, a burst waits in the FIFO, is under way from the moment its      *)
(* address is handed over (the position steps then) and at last lies in its *)
(* slot.  The memory keeps pace with the stream, so the FIFO is never full. *)
(* The buffers of all runs are one piece of memory: CMA hands out the same  *)
(* region when it is free, and old contents are never cleared.              *)
(*                                                                          *)
(* The four words that the file takes beyond the series (65536+4 lines) are *)
(* the head of the next slot and count as one more burst.  A position that  *)
(* goes exactly round between two polls looks still: since, filled and      *)
(* lapped are histories that tell such a poll from the others.              *)
EXTENDS Integers, Sequences

CONSTANTS SeriesLen,  \* bursts in a series (2^16 words of 32 in the source)
          Ring,       \* slots of the ring (65536 in the source)
          Depth,      \* bursts the FIFO holds
          Loads,      \* is the bitstream loaded before a run, as run.sh does?
          MaxSeries,  \* bound: series over all runs
          MaxReplays, \* bound: bursts of a repeated word over all runs
          MaxRuns     \* bound: runs of the program

ASSUME AppAssumption ==
    /\ SeriesLen \in Nat \ {0} /\ Depth \in Nat \ {0}
    /\ Ring \in Nat /\ Ring > SeriesLen
    /\ Ring % SeriesLen = 0      \* both are powers of two
    /\ Loads \subseteq BOOLEAN
    /\ MaxSeries \in Nat /\ MaxReplays \in Nat /\ MaxRuns \in Nat

VARIABLES
    pc,               \* where the program is; "off": no program runs
    run,              \* number of the run, and of the buffer it allocates
    loaded,           \* was the bitstream loaded before this run?
    interrupted, prev_position, position,
    due,              \* newest series when the last poll was made
    csv,              \* the bursts written to the file in this run
    ended,            \* how the last run ended, "none" once the bitstream is loaded
    cma,              \* run whose buffer is allocated, 0 when none is
    rx_rst,           \* the bits 0 .. 2 of cfg[0], TRUE releases the core
    rx_addr,          \* the run whose buffer the register points to, or 0
    series,           \* series started so far
    left,             \* bursts of the series under way still to be sent
    stuck,            \* does tvalid stay high while the trigger is held?
    replays,          \* bursts of a repeated word sent so far
    fifo,             \* bursts in the FIFO
    writing,          \* bursts under way: at most one
    slot,             \* the position of the writer (rx_cntr)
    mem,              \* what lies in each slot of the memory
    armed,            \* series started before the trigger was last released
    since,            \* slots passed since the last poll or the reset of the
                      \* writer: 0 when none, Ring after whole laps
    filled,           \* has a slot been passed since the reset of the writer?
    lapped            \* has this run polled after whole laps?

program == <<pc, run, loaded, interrupted, prev_position, position, due, csv, ended>>
registers == <<rx_rst, rx_addr>>
adc == <<series, left, stuck, replays>>
history == <<since, filled, lapped>>
writer == <<fifo, writing, slot, mem, history>>
vars == <<pc, run, loaded, interrupted, prev_position, position, due, csv,
          ended, cma, rx_rst, rx_addr, series, left, stuck, replays, fifo, writing,
          slot, mem, armed, since, filled, lapped>>

Slots == 0 .. Ring - 1
Old == <<0, 0>>       \* a burst from before the first run
Replay == <<0, 1>>    \* a burst of one word, sent over and over

NextSlot(s) == IF s < Ring - 1 THEN s + 1 ELSE 0

\* The bits of rx_rst.
ADC == 0
WRITER == 1
TRIGGER == 2

AllLow == [b \in {ADC, WRITER, TRIGGER} |-> FALSE]

Init ==
    /\ pc = "off" /\ run = 0 /\ loaded = FALSE /\ interrupted = FALSE
    /\ prev_position = 0 /\ position = 0 /\ due = 0
    /\ csv = <<>> /\ ended = "none"
    /\ cma = 0 /\ rx_rst = AllLow /\ rx_addr = 0
    /\ series = 0 /\ left = 0 /\ stuck = FALSE /\ replays = 0
    /\ fifo = <<>> /\ writing = <<>>
    /\ slot = 0 /\ mem = [s \in Slots |-> Old] /\ armed = 0
    /\ since = 0 /\ filled = FALSE /\ lapped = FALSE

-----------------------------------------------------------------------------
\* The cores.

\* A burst leaves the ADC; a writer held in reset loses it.
Push(burst) == IF rx_rst[WRITER]
                 THEN Len(fifo) < Depth /\ fifo' = Append(fifo, burst)
                 ELSE UNCHANGED fifo

\* The input reaches the level.
TriggerFires ==
    /\ rx_rst[ADC] /\ rx_rst[TRIGGER] /\ left = 0
    /\ series < MaxSeries
    /\ series' = series + 1 /\ left' = SeriesLen
    /\ UNCHANGED <<program, cma, registers, stuck, replays, writer, armed>>

SendBurst ==
    /\ rx_rst[ADC] /\ rx_rst[TRIGGER] /\ left > 0
    /\ left' = left - 1
    /\ Push(<<series, SeriesLen - left + 1>>)
    /\ UNCHANGED <<program, cma, registers, series, stuck, replays,
                   writing, slot, mem, history, armed>>

\* While the trigger is held tvalid keeps its value, and the last word is
\* taken again at every edge.
SendReplay ==
    /\ rx_rst[ADC] /\ ~rx_rst[TRIGGER] /\ stuck
    /\ replays < MaxReplays
    /\ replays' = replays + 1
    /\ Push(Replay)
    /\ UNCHANGED <<program, cma, registers, series, left, stuck,
                   writing, slot, mem, history, armed>>

\* The address of a burst is handed over: the position steps.
StartBurst ==
    /\ rx_rst[WRITER] /\ fifo # <<>> /\ writing = <<>>
    /\ writing' = <<[burst |-> Head(fifo), slot |-> slot]>>
    /\ fifo' = Tail(fifo) /\ slot' = NextSlot(slot)
    /\ since' = (since % Ring) + 1 /\ filled' = TRUE
    /\ UNCHANGED <<program, cma, registers, adc, mem, armed, lapped>>

\* The burst under way has reached memory.
LandBurst ==
    /\ writing # <<>>
    /\ mem' = [mem EXCEPT ![writing[1].slot] = writing[1].burst]
    /\ writing' = <<>>
    /\ UNCHANGED <<program, cma, registers, adc, fifo, slot, history, armed>>

Cores == \/ TriggerFires \/ SendBurst \/ SendReplay
         \/ StartBurst \/ LandBurst

-----------------------------------------------------------------------------
\* What the bits do to the cores.

\* Bit 0 low: adc.v is reset as a whole.
HoldAdc == /\ left' = 0 /\ stuck' = FALSE
           /\ UNCHANGED <<series, replays>>

\* Bit 1 low: ram_writer.v is reset, in the middle of a burst if there is one
\* (its slot keeps what it held).
HoldWriter == /\ fifo' = <<>> /\ writing' = <<>> /\ slot' = 0
              /\ since' = 0 /\ filled' = FALSE /\ lapped' = FALSE
              /\ UNCHANGED mem

\* Bit 2 low: the series under way is over, tvalid keeps its value.
HoldTrigger == /\ left' = 0 /\ stuck' = (left > 0)
               /\ UNCHANGED <<series, replays>>

Set(b) == rx_rst' = [rx_rst EXCEPT ![b] = TRUE]

Clear(b) == rx_rst' = [rx_rst EXCEPT ![b] = FALSE]

-----------------------------------------------------------------------------
\* The program.

Goto(from, to) == pc = from /\ pc' = to
data == <<run, loaded, interrupted, prev_position, position, due, csv, ended>>

\* The process ends: the kernel closes /dev/cma, which frees the buffer.
Exit(how) == /\ pc' = "off" /\ ended' = how /\ cma' = 0
             /\ UNCHANGED <<run, loaded, interrupted, prev_position, position, due, csv>>

\* run.sh loads the bitstream before it starts adc: every register is cleared,
\* and the driver (patches/xilinx_devcfg.c) resets the AXI ports with them, so
\* that no burst is left half done.
LoadBitstream ==
    /\ rx_rst' = AllLow /\ rx_addr' = 0
    /\ HoldAdc /\ HoldWriter

\* adc is started, by run.sh or by hand on the cores as they are.
NewRun ==
    /\ pc = "off" /\ run < MaxRuns
    /\ pc' = "alloc" /\ run' = run + 1
    /\ loaded' \in Loads
    /\ interrupted' = FALSE /\ prev_position' = 0 /\ position' = 0
    /\ due' = 0
    /\ csv' = <<>>
    /\ IF loaded'
         THEN LoadBitstream /\ ended' = "none"
         ELSE UNCHANGED <<registers, adc, writer, ended>>
    /\ UNCHANGED <<cma, armed>>

\* CMA_ALLOC frees the buffer of before, if any, and may fail.
Alloc ==
    /\ pc = "alloc"
    /\ \/ pc' = "adc_low" /\ cma' = run /\ UNCHANGED data
       \/ Exit("failed")
    /\ UNCHANGED <<registers, adc, writer, armed>>

\* CLEAR_BIT(*rx_rst, 0); CLEAR_BIT(*rx_rst, 1);
ResetAdc ==
    /\ Goto("adc_low", "writer_low") /\ Clear(ADC) /\ HoldAdc
    /\ UNCHANGED <<data, cma, rx_addr, writer, armed>>

ResetWriter ==
    /\ Goto("writer_low", "configure") /\ Clear(WRITER) /\ HoldWriter
    /\ UNCHANGED <<data, cma, rx_addr, adc, armed>>

\* The registers, usleep(250), signal().
Configure ==
    /\ Goto("configure", "adc_high") /\ rx_addr' = run
    /\ UNCHANGED <<data, cma, rx_rst, adc, writer, armed>>

\* SET_BIT(*rx_rst, 0); SET_BIT(*rx_rst, 1);
ReleaseAdc ==
    /\ Goto("adc_high", "writer_high") /\ Set(ADC)
    /\ UNCHANGED <<data, cma, rx_addr, adc, writer, armed>>

ReleaseWriter ==
    /\ Goto("writer_high", "trigger_low") /\ Set(WRITER)
    /\ UNCHANGED <<data, cma, rx_addr, adc, writer, armed>>

\* CLEAR_BIT(*rx_rst, 2); usleep(20);
ResetTrigger ==
    /\ Goto("trigger_low", "trigger_high") /\ Clear(TRIGGER) /\ HoldTrigger
    /\ UNCHANGED <<data, cma, rx_addr, writer, armed>>

\* SET_BIT(*rx_rst, 2): at the next edge tvalid goes low.
ReleaseTrigger ==
    /\ Goto("trigger_high", "poll") /\ Set(TRIGGER)
    /\ stuck' = FALSE /\ armed' = series
    /\ UNCHANGED <<data, cma, rx_addr, series, left, replays, writer>>

\* A poll: was it after whole laps?
Look == /\ since' = 0 /\ lapped' = (lapped \/ since = Ring)
        /\ UNCHANGED filled

\* (the slip of reading the position before the old one is saved)
Blind_Poll ==
    /\ pc = "poll" /\ ~interrupted
    /\ position' = slot /\ prev_position' = slot /\ due' = series
    /\ pc' = IF prev_position' # position' THEN "settle" ELSE "poll"
    /\ Look
    /\ UNCHANGED <<run, loaded, interrupted, csv, ended, cma, registers, adc,
                   fifo, writing, slot, mem, armed>>

\* The body of the loop: has the position moved since the last poll?
Poll ==
    /\ pc = "poll" /\ ~interrupted
    /\ prev_position' = position /\ position' = slot /\ due' = series
    /\ pc' = IF prev_position' # position' THEN "settle" ELSE "poll"
    /\ Look
    /\ UNCHANGED <<run, loaded, interrupted, csv, ended, cma, registers, adc,
                   fifo, writing, slot, mem, armed>>

\* (the slip of reading the buffer at once)
Rash_Settle ==
    /\ pc = "settle"
    /\ pc' = "dump" /\ UNCHANGED data
    /\ UNCHANGED <<cma, registers, adc, writer, armed>>

\* Whatever the poll saw under way has reached memory.
Settled == /\ left = 0 \/ series > due
           /\ \A i \in DOMAIN fifo : fifo[i][1] > due
           /\ writing # <<>> => writing[1].burst[1] > due

\* usleep(10000): far longer than a series takes, but SIGINT cuts it short.
\* Then fopen(), which may fail.
Settle ==
    /\ pc = "settle" /\ (interrupted \/ Settled)
    /\ \/ pc' = "dump" /\ cma' = cma /\ UNCHANGED data
       \/ Exit("failed")
    /\ UNCHANGED <<registers, adc, writer, armed>>

\* The loop over the buffer, a burst at a time and at the end the head of one
\* more.
Dump ==
    /\ pc = "dump" /\ Len(csv) < SeriesLen + 1
    /\ csv' = Append(csv, mem[Len(csv)])
    /\ UNCHANGED <<pc, run, loaded, interrupted, prev_position, position, due,
                   ended, cma, registers, adc, writer, armed>>

\* close(fd); exit(0);
Captured ==
    /\ pc = "dump" /\ Len(csv) = SeriesLen + 1
    /\ Exit("captured")
    /\ UNCHANGED <<registers, adc, writer, armed>>

\* (the slip of leaving by exit(), like the capture does)
Leaving_Stop ==
    /\ pc = "poll" /\ interrupted
    /\ Exit("interrupted")
    /\ UNCHANGED <<registers, adc, writer, armed>>

\* The loop ends, SIGINT has its default again ...
Stop ==
    /\ interrupted /\ Goto("poll", "leave")
    /\ UNCHANGED <<data, cma, registers, adc, writer, armed>>

\* ... and the ADC is reset.
StopAdc ==
    /\ Goto("leave", "drain") /\ Clear(ADC) /\ HoldAdc
    /\ UNCHANGED <<data, cma, rx_addr, writer, armed>>

\* (the slip of resetting the writer in the same breath)
Rash_Finish ==
    /\ pc = "drain"
    /\ Clear(WRITER) /\ HoldWriter /\ Exit("interrupted")
    /\ UNCHANGED <<rx_addr, adc, armed>>

\* usleep(500) is long enough for the writer to drain; then it is reset.
Finish ==
    /\ pc = "drain" /\ fifo = <<>> /\ writing = <<>>
    /\ Clear(WRITER) /\ HoldWriter /\ Exit("interrupted")
    /\ UNCHANGED <<rx_addr, adc, armed>>

Program == \/ NewRun \/ Alloc \/ ResetAdc \/ ResetWriter \/ Configure
           \/ ReleaseAdc \/ ReleaseWriter \/ ResetTrigger \/ ReleaseTrigger
           \/ Poll \/ Settle \/ Dump \/ Captured \/ Stop \/ StopAdc \/ Finish

\* Ctrl-C: handled between signal(SIGINT, signal_handler) and the end of the
\* loop, fatal before and after.
Handled == pc \in {"adc_high", "writer_high", "trigger_low", "trigger_high",
                   "poll", "settle", "dump"}

CtrlC ==
    /\ pc # "off"
    /\ IF Handled
         THEN interrupted' = TRUE
              /\ UNCHANGED <<pc, run, loaded, prev_position, position, due, csv,
                           ended, cma>>
         ELSE Exit("killed")
    /\ UNCHANGED <<registers, adc, writer, armed>>

Next == Cores \/ Program \/ CtrlC

\* Clock and scheduler run: SCHED_FIFO at the highest priority on a CPU of its
\* own.  Nothing makes the trigger fire, nor anybody start the program.
Fairness ==
    /\ WF_vars(SendBurst) /\ WF_vars(StartBurst) /\ WF_vars(LandBurst)
    /\ WF_vars(Program /\ pc # "off")

Spec == Init /\ [][Next]_vars /\ Fairness

-----------------------------------------------------------------------------
Bursts == (1 .. MaxSeries) \X (1 .. SeriesLen) \cup {Old, Replay}

HistoryTyped == {filled, lapped} \subseteq BOOLEAN /\ since \in 0 .. Ring

StateTyped ==
    /\ pc \in {"off", "alloc", "adc_low", "writer_low", "configure", "adc_high",
               "writer_high", "trigger_low", "trigger_high", "poll", "settle",
               "dump", "leave", "drain"}
    /\ ended \in {"none", "failed", "killed", "interrupted", "captured"}
    /\ run \in 0 .. MaxRuns /\ cma \in {0, run} /\ rx_addr \in 0 .. run
    /\ pc \notin {"off", "alloc"} => cma = run
    /\ {loaded, interrupted} \subseteq BOOLEAN /\ stuck \in BOOLEAN
    /\ rx_rst \in [{ADC, WRITER, TRIGGER} -> BOOLEAN]
    /\ {position, prev_position, slot} \subseteq Slots
    /\ {armed, due} \subseteq 0 .. series /\ series <= MaxSeries /\ left \in 0 .. SeriesLen
    /\ replays \in 0 .. MaxReplays
    /\ mem \in [Slots -> Bursts]
    /\ Len(fifo) <= Depth /\ Len(writing) <= 1 /\ Len(csv) <= SeriesLen + 1

\* Types; never more than one buffer, and it belongs to the run.
TypeOK == StateTyped /\ HistoryTyped

\* The last run did not go through its reset mode: it left by exit() after a
\* capture or a failed call, or by a signal that was not handled; and no
\* bitstream has been loaded since.
Abandoned == ended \in {"captured", "failed", "killed"}

\* The registers change only while both cores are held: cores/adc.v reads the
\* limiter and the level, and the writer its base address, at every edge.
ConfiguredInReset ==
    [][rx_addr' # rx_addr => ~rx_rst'[ADC] /\ ~rx_rst'[WRITER]]_vars

\* A program that resets the writer in the middle of a burst leaves the AXI
\* port with a burst that never ends.  That happens only when it is started by
\* hand after an abandoned run, by its first statements and to the burst of
\* that run: neither a run that lasts, nor the end of one, nor the one after a
\* run that left by the end of its loop does it.
CutAfterAbandonment ==
    [][pc # "off" /\ writing # <<>> /\ rx_rst[WRITER] /\ ~rx_rst'[WRITER]
         => ~loaded /\ Abandoned /\ rx_addr # run]_vars

\* Memory outside the buffer is written only when a run was abandoned; and
\* then until the next run has loaded the bitstream or configured the writer.
\* A run that lasts, and one that leaves by the end of its loop, owns every
\* burst that lands.
OwnedUnlessAbandoned ==
    [][mem' # mem => \/ rx_addr = cma
                     \/ Abandoned /\ (pc = "off" \/ (rx_addr # run /\ ~loaded))]_vars

\* No core is configured while it works, and the writer of this run writes to
\* the buffer of this run.
MemoryOwned == ConfiguredInReset /\ OwnedUnlessAbandoned

\* Each of the first SeriesLen bursts of the file is from a series that began
\* after this run had released its trigger, and lies at its place in that
\* series: never data of an earlier run, of before the first trigger, or a
\* burst that had not landed.  The four words beyond are old or begin another
\* series of this run.
CaptureAfterTrigger ==
    \A k \in DOMAIN csv :
        \/ csv[k][1] > armed /\ csv[k][2] = (IF k <= SeriesLen THEN k ELSE 1)
        \/ k = SeriesLen + 1 /\ csv[k][1] <= armed

\* So it is whenever run.sh has started the program, unless Ctrl-C has cut the
\* sleep before the file is written.  Without the bitstream loaded first, the
\* series of an earlier run may be what the file holds.
CaptureAligned == TypeOK /\ (loaded /\ ~interrupted => CaptureAfterTrigger)

\* A program that polls does not miss the data: once the writer has passed a
\* slot it does not go on polling for ever, back at the start of the ring or
\* anywhere in it, unless one of its polls came after exactly whole laps.
CaptureNotMissed == ~<>[](pc = "poll" /\ filled /\ ~lapped)
=============================================================================
