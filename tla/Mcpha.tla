------------------------------- MODULE Mcpha --------------------------------
(* projects/mcpha/server/mcpha-server.c: the main thread serves one client  *)
(* at a time, command by command; a pulser thread feeds the generator; the  *)
(* oscilloscope writes a ring of memory that the main thread reads.         *)
(*                                                                          *)
(* The two threads share enable_thread, active_thread and hist[], and the   *)
(* FIFO of the generator, of whose words the kind is kept: a pulse is a     *)
(* word of amplitude and one of interval.  The oscilloscope (external to    *)
(* the server: cores/axis_oscilloscope.v) passes a word for every sample to *)
(* cores/axis_ram_writer.v, which puts it into memory when it has a burst   *)
(* of them (AxisRamWriter has its handshakes; the microseconds that a burst *)
(* takes are left out here).  Samples are numbered from the start, modulo   *)
(* Numbers.  The commands that only write a register that nothing here      *)
(* depends on are left out.                                                 *)
EXTENDS Integers, Sequences

CONSTANTS Asked,     \* bound: the sets of commands that one behaviour sees
          Bins,      \* bins of the spectrum (4096 in the source): 0 .. Bins - 1
          Weights,   \* what a bin can be set to
          RAND_MAX,  \* the random numbers are 0 .. RAND_MAX - 1
          Full,      \* words in the FIFO above which the pulser waits (6000)
          RingSize,  \* words in the ring (2^23)
          Burst,     \* words of a burst: 16 beats of two (32)
          Rounding,  \* the trigger is rounded to a multiple of this (64)
          Windows    \* bound: <<before the trigger, in total>> that are asked for

ASSUME McphaAssumption ==
    /\ {Bins, RAND_MAX, RingSize, Burst, Rounding} \subseteq Nat \ {0} /\ Full \in Nat
    /\ RingSize % Burst = 0 /\ Rounding % Burst = 0
    /\ Weights \subseteq Nat /\ Windows \subseteq Nat \X Nat /\ Windows # {}
    /\ \A w \in Windows : 0 < w[1] /\ w[1] < w[2] /\ w[2] < RingSize

VARIABLES
    asked,          \* the commands of this behaviour
    pc,             \* where the main thread is
    keep_pulsing, enable_thread, active_thread, spectrum, hist,
    weights,        \* the spectrum when the pulser was started
    pulser,         \* where the pulser threads are ("failed": was not created)
    amplitude,      \* what each has drawn
    gen,            \* the FIFO of the generator
    crossed,        \* was the generator reset while a pulser was running?
    window,         \* <<pre, tot>> of the oscilloscope
    scope,          \* the registers of axis_oscilloscope
    fifo,           \* the words that the writer has, less than a burst of them
    position,       \* where it writes the next burst, in words
    ram,            \* the ring
    number,         \* of the next sample
    trigger,        \* number of the sample at the trigger
    proper,         \* "reset" since the last start, "yes" for a capture that was
                    \* started then and left alone, else "no"
    readout         \* the words sent by the last readout, <<>> before it

threads == <<enable_thread, active_thread, hist, weights, pulser, amplitude>>
generator == <<gen, crossed>>
oscilloscope == <<window, scope, fifo, position, ram, number, trigger, proper, readout>>
vars == <<asked, pc, keep_pulsing, enable_thread, active_thread, spectrum, hist,
          weights, pulser, amplitude, gen, crossed, window, scope, fifo,
          position, ram, number, trigger, proper, readout>>

Threads == {1, 2}
Ring == 0 .. RingSize - 1
Numbers == 2 * RingSize
Old == -1                \* a word from before the capture
Flat == [b \in 0 .. Bins - 1 |-> 0]
Idle == [run |-> FALSE, pre |-> FALSE, trg |-> FALSE, tot |-> FALSE, addr |-> 0, cntr |-> 0]

Init ==
    /\ asked \in Asked
    /\ pc = "accept" /\ keep_pulsing = FALSE
    /\ enable_thread = 0 /\ active_thread = 0
    /\ spectrum = Flat /\ hist = Flat /\ weights = Flat
    /\ pulser = [t \in Threads |-> "none"] /\ amplitude = [t \in Threads |-> 0]
    /\ gen = <<>> /\ crossed = FALSE
    /\ window = (CHOOSE w \in Windows : TRUE) /\ scope = Idle /\ fifo = <<>> /\ position = 0
    /\ ram = [a \in Ring |-> Old] /\ number = 0 /\ trigger = 0
    /\ proper = "no" /\ readout = <<>>

-----------------------------------------------------------------------------
\* The pulser.

\* hist[i] == value * RAND_MAX / total - 1, value the sum of the bins up to i.
Sum(s) == LET f[i \in 0 .. Bins - 1] == s[i] + (IF i = 0 THEN 0 ELSE f[i - 1]) IN f
Total(s) == Sum(s)[Bins - 1]

Histogram(s) == [i \in 0 .. Bins - 1 |-> (Sum(s)[i] * RAND_MAX) \div Total(s) - 1]

\* The binary search of lower_bound(hist, size, value).
lower_bound(array, value) ==
    LET search[span \in (0 .. Bins) \X (0 .. Bins)] ==
            LET i == span[1]
                j == span[2]
                k == i + (j - i) \div 2
            IN  IF i >= j THEN i
                  ELSE IF value > array[k] THEN search[<<k + 1, j>>]
                  ELSE search[<<i, k>>]
    IN  search[<<0, Bins>>]

Move(t, from, to) == pulser[t] = from /\ pulser' = [pulser EXCEPT ![t] = to]

\* *gen = 0; *gen = 125000; and the test of the loop after every pair.
WriteAmplitude(t) ==
    /\ Move(t, "first", "second") \/ Move(t, "drawn", "second")
    /\ gen' = Append(gen, "amplitude") /\ amplitude' = [amplitude EXCEPT ![t] = 0]
    /\ UNCHANGED <<asked, pc, keep_pulsing, enable_thread, active_thread, spectrum, hist,
                   weights, crossed, oscilloscope>>

WriteInterval(t) ==
    /\ Move(t, "second", "test") /\ gen' = Append(gen, "interval")
    /\ UNCHANGED <<asked, pc, keep_pulsing, enable_thread, active_thread, spectrum, hist,
                   weights, amplitude, crossed, oscilloscope>>

TestEnabled(t) ==
    /\ enable_thread = 1 /\ Move(t, "test", "wait")
    /\ UNCHANGED <<asked, pc, keep_pulsing, spectrum, enable_thread, active_thread, hist,
                   weights, amplitude, generator, oscilloscope>>

\* (the slip of a return that leaves active_thread)
Silent_EndPulser(t) ==
    /\ enable_thread = 0 /\ Move(t, "test", "none")
    /\ UNCHANGED <<asked, pc, keep_pulsing, spectrum, enable_thread, active_thread, hist,
                   weights, amplitude, generator, oscilloscope>>

EndPulser(t) ==
    /\ enable_thread = 0 /\ Move(t, "test", "none")
    /\ active_thread' = 0
    /\ UNCHANGED <<asked, pc, keep_pulsing, spectrum, enable_thread, hist, weights,
                   amplitude, generator, oscilloscope>>

\* The wait for room, then rand() % RAND_MAX.
Draw(t) ==
    /\ Move(t, "wait", "drawn") /\ Len(gen) <= Full
    /\ \E value \in 0 .. RAND_MAX - 1 :
           amplitude' = [amplitude EXCEPT ![t] = lower_bound(hist, value)]
    /\ UNCHANGED <<asked, pc, keep_pulsing, spectrum, enable_thread, active_thread, hist,
                   weights, generator, oscilloscope>>

Pulser(t) == \/ WriteAmplitude(t) \/ WriteInterval(t) \/ TestEnabled(t)
             \/ EndPulser(t) \/ Draw(t)

\* The generator takes two words as a pulse, the interval after the last.
Pulse ==
    /\ Len(gen) >= 2 /\ gen' = SubSeq(gen, 3, Len(gen))
    /\ UNCHANGED <<asked, pc, keep_pulsing, spectrum, threads, crossed, oscilloscope>>

-----------------------------------------------------------------------------
\* The main thread: one client after another.

Goto(from, to) == pc = from /\ pc' = to
\* A command is received.
Command(name) == pc = "recv" /\ name \in asked

Accept ==
    /\ Goto("accept", "recv")
    /\ UNCHANGED <<asked, keep_pulsing, spectrum, threads, generator, oscilloscope>>

\* Codes 27 and 28: the spectrum is cleared, or a bin of it is set.
SetSpectrum ==
    /\ Command("spectrum")
    /\ \/ spectrum' = Flat
       \/ \E b \in 0 .. Bins - 1, w \in Weights : spectrum' = [spectrum EXCEPT ![b] = w]
    /\ UNCHANGED <<asked, pc, keep_pulsing, threads, generator, oscilloscope>>

\* Code 29 up to the wait for the pulser of before; code 30 likewise.
StartPulser ==
    /\ Command("start") /\ pc' = "restart"
    /\ keep_pulsing' \in BOOLEAN /\ enable_thread' = 0
    /\ UNCHANGED <<asked, spectrum, active_thread, hist, weights, pulser, amplitude,
                   generator, oscilloscope>>

StopPulser ==
    /\ Command("stop") /\ pc' = "stop" /\ enable_thread' = 0
    /\ UNCHANGED <<asked, keep_pulsing, spectrum, active_thread, hist, weights, pulser,
                   amplitude, generator, oscilloscope>>

\* (the slip of asking the pulser to end and not waiting for it)
Rash_Disconnect ==
    /\ pc = "recv" /\ pc' = "accept"
    /\ enable_thread' = IF keep_pulsing THEN enable_thread ELSE 0
    /\ UNCHANGED <<asked, keep_pulsing, spectrum, active_thread, hist, weights, pulser,
                   amplitude, generator, oscilloscope>>

\* The client leaves: the pulser goes on if it was asked to.
Disconnect ==
    /\ pc = "recv"
    /\ IF keep_pulsing THEN pc' = "accept" /\ UNCHANGED enable_thread
         ELSE pc' = "leave" /\ enable_thread' = 0
    /\ UNCHANGED <<asked, keep_pulsing, spectrum, active_thread, hist, weights, pulser,
                   amplitude, generator, oscilloscope>>

\* rst[1] &= ~0x8000; rst[1] |= 0x8000;
ResetGenerator == gen' = <<>> /\ crossed' = FALSE

\* (the slip of going on at once)
Rash_Stopped ==
    /\ Goto("stop", "recv") \/ Goto("leave", "accept")
    /\ ResetGenerator
    /\ UNCHANGED <<asked, keep_pulsing, spectrum, threads, oscilloscope>>

\* while(active_thread) usleep(1000); then the generator is reset.
Stopped ==
    /\ Goto("stop", "recv") \/ Goto("leave", "accept")
    /\ active_thread = 0
    /\ ResetGenerator
    /\ UNCHANGED <<asked, keep_pulsing, spectrum, threads, oscilloscope>>

\* The same wait and reset in code 29; then the histogram and the new thread.
\* A failure of pthread_create() is not seen (`< 0'), and nobody clears
\* active_thread.
Started ==
    /\ Goto("restart", "recv") /\ active_thread = 0
    /\ ResetGenerator
    /\ IF Total(spectrum) < 1
         THEN UNCHANGED threads
         ELSE /\ hist' = Histogram(spectrum) /\ weights' = spectrum
              /\ enable_thread' = 1 /\ active_thread' = 1 /\ UNCHANGED amplitude
              /\ \E t \in Threads : Move(t, "none", "first") \/ Move(t, "none", "failed")
    /\ UNCHANGED <<asked, keep_pulsing, spectrum, oscilloscope>>

\* Code 3 resets the generator whatever the pulser does.
Reset ==
    /\ Command("reset") /\ gen' = <<>>
    /\ crossed' = \E t \in Threads : pulser[t] # "none"
    /\ UNCHANGED <<asked, pc, keep_pulsing, spectrum, threads, oscilloscope>>

-----------------------------------------------------------------------------
\* The oscilloscope.

\* trg_flag is looked at in every clock, whether or not there is a sample in it.
Trigger ==
    /\ scope.run /\ scope.pre /\ ~scope.trg
    /\ scope' = [scope EXCEPT !.trg = TRUE]
    /\ UNCHANGED <<asked, pc, keep_pulsing, spectrum, threads, generator, window, fifo,
                   position, ram, number, trigger, proper, readout>>

\* axis_ram_writer: int_valid_wire is (int_count_wire > 15).
Write(word) ==
    LET words == Append(fifo, word)
    IN  IF Len(words) < Burst
          THEN fifo' = words /\ UNCHANGED <<position, ram>>
          ELSE /\ fifo' = <<>> /\ position' = (position + Burst) % RingSize
               /\ ram' = [a \in Ring |-> IF a \in position .. position + Burst - 1
                                          THEN words[a - position + 1] ELSE ram[a]]

\* A clock of axis_oscilloscope with a sample, which is passed on while it runs.
Sample ==
    /\ scope.run
    /\ LET stop == scope.tot /\ scope.cntr = window[2] - 1
           mark == ~scope.tot /\ scope.trg
       IN  /\ scope' = [scope EXCEPT
                  !.run = ~stop,
                  !.pre = @ \/ scope.cntr = window[1] - 1,
                  !.tot = @ \/ mark,
                  !.addr = IF mark THEN scope.cntr ELSE @,
                  !.cntr = (IF mark THEN window[1] - 1 + (@ % Rounding) ELSE @ + 1) % RingSize]
           /\ trigger' = IF mark THEN number ELSE trigger
    /\ Write(number) /\ number' = (number + 1) % Numbers
    /\ UNCHANGED <<asked, pc, keep_pulsing, spectrum, threads, generator, window, proper, readout>>

\* (the slip of resetting the scope and not the writer)
Half_ResetScope ==
    /\ Command("scope_reset")
    /\ scope' = Idle /\ proper' = "reset"
    /\ UNCHANGED <<asked, pc, keep_pulsing, spectrum, threads, generator, window, fifo,
                   position, ram, number, trigger, readout>>

\* Code 2: the scope and, when it has come to rest, the writer with its FIFO.
ResetScope ==
    /\ Command("scope_reset")
    /\ scope' = Idle /\ fifo' = <<>> /\ position' = 0 /\ proper' = "reset"
    /\ UNCHANGED <<asked, pc, keep_pulsing, spectrum, threads, generator, window,
                   ram, number, trigger, readout>>

\* Codes 17 and 18.
SetWindow ==
    /\ Command("window") /\ window' \in Windows
    /\ proper' = IF proper = "yes" THEN "no" ELSE proper
    /\ UNCHANGED <<asked, pc, keep_pulsing, spectrum, threads, generator, scope, fifo,
                   position, ram, number, trigger, readout>>

\* Code 19: a pulse of run_flag, which a running scope ignores.
StartScope ==
    /\ Command("scope_start") /\ ~scope.run
    /\ scope' = [Idle EXCEPT !.run = TRUE]
    /\ fifo' = [i \in DOMAIN fifo |-> Old] /\ ram' = [a \in Ring |-> Old]
    /\ number' = 0 /\ trigger' = 0 /\ readout' = <<>>
    /\ proper' = IF proper = "reset" THEN "yes" ELSE "no"
    /\ UNCHANGED <<asked, pc, keep_pulsing, spectrum, threads, generator, window, position>>

Words(first, count) == [k \in 1 .. count |-> ram[first + k - 1]]

\* Code 20.  The client asks for it when the status says that the scope has
\* stopped.
ReadScope ==
    /\ Command("scope_read") /\ ~scope.run
    /\ LET start == (scope.addr - window[1]) % RingSize
           tot == window[2]
           top == RingSize - 1
       IN  readout' = IF start + tot <= top THEN Words(start, tot)
                        ELSE Words(start, top - start) \o Words(0, start + tot - top)
    /\ UNCHANGED <<asked, pc, keep_pulsing, spectrum, threads, generator, window, scope,
                   fifo, position, ram, number, trigger, proper>>

Main == \/ Accept \/ SetSpectrum \/ StartPulser \/ StopPulser \/ Disconnect
        \/ Stopped \/ Started \/ Reset
        \/ ResetScope \/ SetWindow \/ StartScope \/ ReadScope

Next == Main \/ (\E t \in Threads : Pulser(t)) \/ Pulse \/ Trigger \/ Sample

\* Threads are scheduled, and an interval, a second at most, ends.
Fairness == /\ WF_vars(Stopped \/ Started) /\ WF_vars(Pulse)
            /\ \A t \in Threads : WF_vars(Pulser(t))

Spec == Init /\ [][Next]_vars /\ Fairness

-----------------------------------------------------------------------------
ScopeTyped ==
    /\ window \in Windows
    /\ scope \in [run : BOOLEAN, pre : BOOLEAN, trg : BOOLEAN, tot : BOOLEAN,
                  addr : Ring, cntr : Ring]
    /\ fifo \in Seq(Int) /\ Len(fifo) < Burst /\ position \in Ring
    /\ number \in 0 .. Numbers - 1 /\ proper \in {"no", "reset", "yes"}

\* Types; the FIFO of the generator takes every pulse.
TypeOK ==
    /\ pc \in {"accept", "recv", "restart", "stop", "leave"}
    /\ keep_pulsing \in BOOLEAN /\ {enable_thread, active_thread} \subseteq {0, 1}
    /\ pulser \in [Threads -> {"none", "failed", "first", "second", "test", "wait", "drawn"}]
    /\ Len(gen) <= Full + 2 /\ crossed \in BOOLEAN
    /\ ScopeTyped

\* enable_thread and active_thread, without a lock, keep it at one pulser, also
\* when it is started twice before the first has begun to run.
OnePulser == \A t, u \in Threads : pulser[t] # "none" /\ pulser[u] # "none" => t = u

\* The generator never takes an interval for an amplitude: the FIFO is reset
\* between two pulses, unless code 3 resets it under a running pulser.
PulsesWhole ==
    ~crossed => \A i \in DOMAIN gen : gen[i] = IF i % 2 = 1 THEN "amplitude" ELSE "interval"

\* A pulse has an amplitude that occurs in the spectrum of the last start,
\* however the client edits the spectrum while the pulser runs: a bin of weight
\* 0 is never drawn, nor one beyond the last.
AmplitudesFromSpectrum ==
    \A t \in Threads : pulser[t] = "drawn" => /\ amplitude[t] \in DOMAIN weights
                                             /\ weights[amplitude[t]] > 0

\* No pulses of a client that has left, and did not ask for them to go on, are
\* left for the next.
QuietForNext ==
    pc = "accept" /\ ~keep_pulsing =>
        gen = <<>> /\ enable_thread = 0 /\ \A t \in Threads : pulser[t] = "none"

\* Start, stop, disconnect and the pulser's own end leave one pulser or none.
PulserKept == TypeOK /\ OnePulser /\ QuietForNext

\* The generator is fed whole pulses of the spectrum it was started with.
PulsesFaithful == PulsesWhole /\ AmplitudesFromSpectrum

\* The main thread does not wait for ever for a pulser to end, unless there is
\* none because pthread_create() failed.
Joining == pc \in {"restart", "stop", "leave"}
Orphaned == \E t \in Threads : pulser[t] = "failed"
StopEnds == Joining ~> (~Joining \/ Orphaned)

\* After reset, start and trigger a readout holds the samples from `pre' before
\* the trigger on, each in its place, with four exceptions of the code: a readout
\* that reaches the end of the ring skips its last word; the samples that the
\* rounding of the trigger takes from the end of the window are missing, and so
\* are those after the last full burst, which stay in the writer (how many is
\* up to the window alone); and a window as long as the ring but for a word can
\* have lost its first sample to its last.
ReadoutExact ==
    proper = "yes" /\ scope.tot /\ ~scope.run
        /\ window[2] - window[1] >= Rounding - 1 =>
    \A k \in DOMAIN readout :
        LET start == (scope.addr - window[1]) % RingSize
            shift == IF start + window[2] >= RingSize /\ k >= RingSize - start THEN 1 ELSE 0
            offset == k - 1 + shift
            last == window[2] + 1 - (scope.addr % Rounding)
            held == (window[2] - window[1] + 2) % Burst
        IN  offset \in (last - RingSize + 1) .. (last - held)
                => readout[k] = (trigger - window[1] + offset) % Numbers
=============================================================================
