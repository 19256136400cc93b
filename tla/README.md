# A TLA+ model of switcheck

The repository is a fork of *red-pitaya-notes*: FPGA designs for the Red Pitaya
board, the Linux system they run under, and the servers that drive them.  What
the fork adds is **switcheck** (`projects/adc_test`): an oscilloscope-like
instrument that waits until the input of a fast ADC reaches a level, sends a
series of samples through DMA into memory, and lets a program on the ARM core
write the series to a file.  This directory models that chain, from the register
stages of a stream to the program and its driver, and the four of upstream's servers
that have several threads, and proves what matters most about them.

## 1. The system

```
 samples                  AXI-Stream             AXI writes             /dev/cma
 ───────► adc.v ──────────► ram_writer.v ──────────► memory ◄─────────── cma.c
            ▲  times, count   ▲   │ position                 mmap          ▲
            │  bits 0, 2      │bit 1▼                                      │
            └──────── axi_hub_modified.v (cfg / sts words) ◄──── adc.c ────┘
                                                     run.sh: bitstream, start
```

| Component | State it keeps | Operations | Hard behaviour | Correct when |
|---|---|---|---|---|
| Register stages `modules/*.v` | one or two registered words, ready bits | one clock, reset | accept and deliver at the same edge; ready known one clock late | no word lost, doubled or changed; full bandwidth |
| Upstream writer `cores/axis_ram_writer.v` | FIFO, address, beat counter, two output buffers | one clock, reset | address and data channels stall independently | one address per burst, beats in order, FIFO never runs dry |
| Switcheck writer `cores/ram_writer.v` | the same, `tlast_pending_reg`, `awlen_reg` | one clock, reset | bursts of variable length, one pending bit for many series, stream that ignores `tready` | WLAST agrees with AWLEN, a finished series reaches memory |
| ADC core `cores/adc.v` | trigger, series counter, times, maximum, stream outputs | one sample, reset of trigger, of core, of maximum | series, marks and times kept by separate branches | tlast on exactly the last word; counts and times add up |
| Register hub `cores/axi_hub_modified.v` | cfg words, buffers of the AXI channels | register write, status read | channels in any order | a read sees the write before it |
| Program `projects/adc_test/adc.c` | bits it set, position of the last poll, buffer | configure, poll, dump, leave | cores go on between statements; Ctrl-C; exits that skip the reset | each line of the file is at its place in a series of this run |
| CMA driver `patches/cma.c` | one buffer for all openers | alloc, mmap, release | global without a lock | nobody uses freed memory |
| Streaming server `adc_test/server` | halves of the ring, `rx_rst`, `rx_addr`, socket | open, bind, serve, poll, send, signal | a client slower than the stream; a second server; signals in every window | halves sent whole and in turn, memory written only by its owner |
| `sdr_transceiver` server | `sock_thread[4]`, settings of two directions, PTT pin, two FIFOs | accept, name a role, command, samples, leave | four handlers and the accepting thread share slots without a lock; full and empty FIFOs | one handler per role; settings and PTT belong to its client; blocks whole |
| `mcpha` server | `enable_thread`, `active_thread`, `hist[]`, generator, ring of the oscilloscope | start, stop, reset, read | two threads and two plain integers; a ring that wraps | one pulser or none; a readout is the window asked for |
| `vna` server | `sock_thread`, list of frequencies, FIFO | sweep, cancel, reconnect | a reader notices a cancel late and reads the next sweep | a point averages the samples of its frequency |
| `sdr_transceiver_hpsdr` server | session, FIFO of the transmitter, PTT, relays, keyer | datagrams, Morse key, RF | lost and repeated datagrams; three threads on one register | one session; carrier only under PTT; relays follow |
| Other upstream servers and cores | registers, counters, FIFOs | commands; one clock | one client, no threads; back pressure | see section 5 |

They interact through shared state only: wires at every clock between cores,
memory-mapped words between program and cores (`cfg`, `sts`), memory between
writer and program, plain variables between the threads of a server.  There are no
interrupts; a program learns what a core did by polling it.

What is hard here: the interleaving of two AXI channels; a stream nobody can
stall; registers that a reset leaves alone; a position that leads the data and
wraps; a program that leaves by `exit(0)` while the hardware goes on; the next
start of that program; and threads of upstream's servers that agree by setting and
polling integers, with clients that stop reading, vanish, or come back too early.
`PROJECT.json` lists each hazard at its line with the
properties that cover it.

## 2. Modules

| Module | Models | Composes |
|---|---|---|
| `StreamBuffers` | the two register stages as operators of one clock | |
| `StreamPipe` | abstract: a pipe that holds at most `Cap` words | |
| `InoutBuffer`, `SamplingProofs` | `inout_buffer.v`, which implements `StreamPipe` | `StreamBuffers` |
| `BurstStream` | abstract: bursts of `B` beats, an address each, walking round a ring | |
| `AxisRamWriter`, `AxisRamWriterProofs` | `axis_ram_writer.v`, which implements `BurstStream` | `StreamBuffers` |
| `RamWriter`, `RamWriterProofs` | `ram_writer.v`, which does so until a series ends in the middle of a burst | `StreamBuffers` |
| `AdcTrigger`, `SamplingProofs` | `adc.v` | |
| `RegisterFile` (with `Accesses`) | abstract: registers written and read over a bus that takes several accesses at a time | |
| `AxiHub`, `MCAxiHub`, `PlatformProofs` | `axi_hub_modified.v`, which implements `RegisterFile` | `StreamBuffers` |
| `AdcApp`, `AdcAppProofs` | `adc.c` with `cma.c`, `run.sh`, and the cores at the level of bursts | what the modules above show |
| `CmaServer`, `PlatformProofs` | `cma.c`, statement by statement, under `adc-test-server.c` | driver, any number of servers, writer |
| `SdrTransceiver`, `SdrTransceiverProofs` | `sdr_transceiver/server/sdr-transceiver.c` | main thread, handlers, clients, FIFOs, radio |
| `Mcpha`, `MCMcpha`, `McphaProofs` | `mcpha/server/mcpha-server.c` | main thread, pulser, generator, oscilloscope |
| `Vna`, `SamplingProofs` | `vna/server/vna.c`, with the sweep of `vna/client/vna.py` | main thread, readers, client, receiver |
| `Hpsdr`, `HpsdrProofs` | `sdr_transceiver_hpsdr/server/sdr-transceiver-hpsdr.c` | main thread, sender, keyer, transmitter |

`SamplingProofs` and `PlatformProofs` hold the proofs of several components, which share
no state; each of their theorems is about one.  So that one module can extend them
all, the names of some specifications carry a prefix: `StageInit`, `StageNext`, ... of
the register stages, `HubInit`, ... of the hub, `VnaInit`, ... of the network analyzer.

One step of a core's module is one rising clock edge.  Words of a stream are
serial numbers: the cores move data without looking at them, so a word that is
lost, doubled, or out of order shows in its number, and nothing else about it
matters.

**StreamBuffers / InoutBuffer.**  `OutputEdge` and `InputEdge` are the `always`
blocks of the stages, `OutputReady`, `InputValid`, `InputData` their wires.  The
writer of the stage offers a word or not (`Idle` is what lies on the wires then),
the reader is ready or not, at will.  Ghost counters `sent` and `rcvd` number the
words.

**AxisRamWriter.**  The variables are the registers of the source:
`int_awvalid_reg`, `int_wvalid_reg`, `int_addr_reg`, `int_cntr_reg` and the two
output buffers; the FIFO is the words from `read + 1` to `written`, and `slave` is
what the slave has taken.  `AddressEdge` and `DataEdge` are the parts of the `always` blocks
that drive one channel each; `Clock` is a whole edge.  The slave stalls either
channel at will.  AXI lets a slave take data ahead of its address; `Ahead` is
how many beats it will take.  The writer loses an address when a slave takes
2B-1 beats ahead, because a new burst then starts while `int_awvalid_reg` still
stands for the one before; for `Ahead <= 2B-2` it never does, and the proof
needs exactly that assumption.  `Reset` happens between bursts (`Quiet`); when the
program may break that, `AdcApp!CutAfterAbandonment` says.

**RamWriter.**  The fork packs `Ratio` stream words in a beat, takes tlast into
`tlast_pending_reg` and may announce a short burst.  The stream offers series of
the lengths in `Series` and never looks at `tready`, as the ADC core does not
(`tready` is not connected in `tmp/adc_test.gen/.../system.v`): a word that meets the
full FIFO is lost, wherever in its series it stands, but its tlast is not.  Two
histories say what has happened since the reset: `lost`, and `ragged`, a series ended
with words that do not fill their burst.  The slave takes addresses first, as the port
of the Zynq does.  `drain` in the fairness is the part of the state a waiting series
depends on.

**AdcTrigger.**  An edge takes a sum of magnitudes from `Sums`.  `Send`/`Silent`
are the branches of an edge with the trigger released, `Hold` is
`nreset_trigger` low, `Reset` is the core's reset, after which another
`limiter_val` may be configured.  Ghosts: `samples_sent`, `sent_before` (at the last
release of the trigger), `fresh` (was the word on the wires written at the last
edge?), `pulse`.

**AxiHub.**  The accesses the program will make are chosen at the start (`writes`,
`reads`); the processor sends addresses, data and requests on three channels and
takes answers on two, all at its own pace.  The three incoming `inout_buffer`s are
queues of two words, which is what `SamplingProofs!PipeTheorem` allows to
say of them; `CfgEdge` is the array of flip-flops, `CounterEdge` the two counters,
`cpu` the processor's side.  A byte of a register remembers the beat that wrote
it.  Ghost: `cpu.since`, the writes that had been answered when a read was
requested.

**AdcApp.**  One action per statement that touches the world: `Alloc`,
`ResetAdc`, `ResetWriter`, `Configure`, `ReleaseAdc`, `ReleaseWriter`,
`ResetTrigger`, `ReleaseTrigger`, `Poll`, `Settle`, `Dump`, `Captured`, `Stop`,
`StopAdc`, `Finish`.  `CtrlC` may come between any two: it sets a flag once the handler is
installed, and kills the program before and after.  The cores are reduced to what
the program can tell apart, bursts: a series is `SeriesLen` bursts, a burst
waits in the FIFO, is under way from the moment its address is handed over (the
position steps at that moment, as `AxisRamWriter!PositionLead` bounds) and then
lies in memory.  The file has 65536+4 lines: the four words beyond the series are
the head of the next slot, and `Dump` counts them as one more burst.  A program starts
after `run.sh` has loaded the bitstream, or on the cores as they are (`Loads`).
Histories: `ended`, how the last run ended; `since`, how far the position has gone
since the last poll, as a whole number of laps looks like none; `lapped`, that a poll
met just that; `filled`, that the writer has passed a slot.

**CmaServer.**  `pc[p]` is where each process is; a process in `cma.c` takes one
step per statement of `cma_free()`, of the ioctl and of `release`, so that two calls
interleave.  `allocated` is what the kernel has given away, `cpu_addr` the driver's
global.  `Bind` lets one process have the port; the others leave by `Exit`, after
they have allocated and written `rx_addr`.  `Advance` moves the writer and completes
a half (the position stands for the data, which are two bursts behind at most);
`Interrupt` is SIGINT, a flag while the handler is installed (`Handled`), the
end elsewhere; `Kill` is SIGKILL.  Ghosts `killed`, `intruded`, `overlapped` and
`late` remember the four things that the properties excuse.

**SdrTransceiver.**  A connection `c` has a client's end (`client`, `hello`, `inbox`)
and a server's end (`thread[c]`, from `"queued"` to the states of its handler).
`Accept`, `Refuse` and `Serve` are the main thread, which waits for the word of the
connection in `line`; `StartCtrl`, `ReadCommand`, `EndCtrl`, `Restore` are the control
handlers, `StartRx` .. `SendFails` and `StartTx` .. `EndTx` the data handlers, `Free`
the last statement of each.  `Sample` and `Drain` are the radio at the two FIFOs.
`Die` and `Restart` are the process.  A FIFO unit is a fraction of a block; of a unit
only what a property asks is kept.

**Mcpha.**  `pulser[t]` is where a pulser thread is; `StartPulser`, `StopPulser` and
`Disconnect` lead into waits (`Joining`) that end in `Started` and `Stopped` when
`active_thread` has fallen.  `Draw` is the search in the histogram, a recursive
function over the bins with the scaling of the source.  `Trigger` is a clock in which
`trg_flag` is high, `Sample` one with a sample; both cores behind it are there:
`axis_oscilloscope` counts and stops, and `Write` is `axis_ram_writer`, which keeps
words until it has a burst of them.  `ResetScope`, `StartScope` and `ReadScope` are the
commands, the last with the readout that wraps.

**Vna.**  `pc` is the main thread, `reader[r]` a thread of a sweep with the counter
and the buffer it averages; `sock_thread` says only whether there is a client.  The
client sweeps, cancels, reads and leaves; `hurried` says that it started a sweep
before the last one had come to rest, `lost` that the FIFO has dropped samples.

**Hpsdr.**  `pc` is the main thread with the datagrams of a `recvmmsg()` in `batch`;
`sender[h]` a sending thread; `keyer` the steps of the Morse keyer, which sets PTT,
multiplexer, flag and carrier one at a time.  Any datagram may come at any time, which
is what UDP does with loss, repetition and reordering; one with samples carries two
frames (`"frame"`, `"frame 2"`).  `Fail` is the socket's error, at which `main()` returns.
`Press` moves PTT and key, `Transmit` empties the FIFO under `tx_mux_data`.

## 3. Runs

| Run | Question | Bounds and why they are enough |
|---|---|---|
| `inout_buffer` | Does the stage lose, double, change or delay words, and does it deliver? | `MaxWords` 6: two registers are full, drained and refilled several times |
| `axis_ram_writer` | Addresses, beats, FIFO and position of upstream's writer, against every slave with `Ahead` = 2B-2, the worst it survives | B 4, `Depth` 8 = two bursts, the least that lets the next one wait; `MaxAddr` 2 so that the ring wraps; `MaxWords` 26: six bursts, twice round the ring |
| `ram_writer` | Is nothing the FIFO took lost, reordered or left behind, and do bursts stay whole, when series of whole bursts may lose any of their words at the full FIFO? | series of one and two bursts of 4 beats of 2 words; FIFO of a burst and a half, which a stalled slave fills within a series; `MaxWords` 26 words taken: three bursts and more, the ring is full once |
| `ram_writer_flush` | *violation*: tlast is forgotten, and the rest of a series stays in the FIFO | series of half a burst |
| `adc_trigger` | Series, marks, counts and times for every input and every reset | sums below, at and above the level; limiters 1, 2, 3 (1 makes the first word also the last); the count wraps at `CountMod` 4; `MaxSamples` 9: three longest series |
| `axi_hub` | Is the hub a register file, may `SET_BIT` read, change and write back, and is every access answered? | two words of two bytes, two writes (one byte, 64 bits) against two reads (a word, 64 bits of status): a second access waits behind the first on every channel; `MaxStatus` 1 |
| `adc_app` | The program, twice, with every interleaving, Ctrl-C and failing call: is each line of the file at its place in a series of this run, which program cuts a burst or writes foreign memory, and when does a poll miss the data? | series of 2 bursts in a ring of 4, so that the third wraps (`MaxSeries` 3) and a poll can come after just one lap; `MaxReplays` 2 bursts of a repeated word; `MaxRuns` 2: every pair of starts |
| `sdr_transceiver` | Are settings, PTT, blocks and roles right for clients that come, stall, leave and come back? | two connections contend for every role; three sets of roles (`Asked`) in behaviours of their own: both control roles with a word that names none, and each data role against itself; `Block` 2, FIFOs of two blocks |
| `mcpha` | One pulser or none, whole pulses of the spectrum, exact readouts, no endless join? | spectra of 3 bins with weights 1 and 3 over 5 random numbers: bins of weight 0 at both ends; ring of 8 with a window that fits and one that nearly fills it, so that readouts wrap; bursts of 4 words and `Rounding` 4: the windows leave 2 words and 3 in the writer; pulser and scope in behaviours of their own (`Asked`) |
| `vna` | Are the points of a sweep right, do sweeps complete, do readers end? | 2 frequencies, one sample skipped and one averaged for each; FIFO of 2, so that it overflows; two readers alive at a time |
| `hpsdr` | One session, carrier under PTT, relays, signal and main thread under any datagrams | two clients, two sending threads; FIFO of 2 with 1 of silence; hang time 2; one datagram of two frames in a batch (the same run with `MaxBatch` 2, where a second datagram comes before the relays are looked at, passes too and takes two and a half times as long) |
| `cma_server` | Is memory neither lost nor freed twice nor written by a stranger, are halves in turn, do servers end that have caught SIGINT? | two processes and two buffers: every pair of calls; halves of 2 positions |

`MaxWords`, `MaxSamples`, `MaxSeries`, `MaxReplays`, `MaxRuns`, `MaxCommands`,
`MaxStatus`, `Asked`, `Readers` and `Handlers` are bounds in guards; every other
constant is a size of the design.  Deadlock is not looked for where the system may
really stop: `adc_app` (the program ends), `mcpha` (nobody need command anything), and
`cma_server` (the model ends with a double free, after which the kernel's memory is
undefined).

**Fairness.**  Cores: the clock ticks, a slave that owes an answer eventually
gives it, and a processor that has asked takes its answer; nothing is assumed of the
stream.  `adc.c` runs under `SCHED_FIFO` with the highest priority on a CPU of its own
(line 72 on), so every statement is eventually executed; nothing makes the trigger
fire or anybody start the program.  Servers: the scheduler runs every thread that can
go on, and the radio takes and gives a sample at every period.  Clients are not fair,
with one exception: a `send()` to a client that has closed fails in the end.  In
`CmaServer` the fairness is on `Proceed`, which is every statement but `accept()` and
`send()`.  In `Vna`
the points on the network arrive if the client is there.

**What properties excuse**, and why.  Each excuse is one named disjunct or history, so
the run shows that nothing else is behind a failure; where the code itself is at
fault the next section says so.

* `BurstsWhole`, `NoJunk`, `StreamSpec`, `SeriesFlushed`: a series that has ended
  `ragged`, with words that do not fill their burst; `SeriesFlushed` only if words were
  `lost` too, as a series that is short by itself is what `ram_writer_flush` is about.
  `NothingLost` has no excuse.
* `CaptureAligned`: a program started by hand, and a Ctrl-C that cuts the sleep before
  the file is written.  `CutAfterAbandonment`, `MemoryOwned`: the start by hand after a
  run that left by `exit()` or a signal.  `CaptureNotMissed`: a poll after exactly whole
  laps (`lapped`).
* `StreamsWhole`: an overflow in the middle of a copy, and a short `recv()`, which the
  code does not look for.  `GivenBack`: a thread that could not be created (`orphan`).
  `Answered`: a client that does not name its role.
* `PulsesWhole`: a generator reset under a running pulser (`crossed`).  `StopEnds`: a
  pulser that could not be created.  `ReadoutExact`: the last word of a ring that wraps,
  the words that the rounding of the trigger takes, those that have not filled a burst
  of the writer, and the first sample of a window that is only one shorter than the
  ring.
* `SweepExact`: a client that does not wait (`hurried`), or does not read (`lost`).
* `MainReturns`: the two waits without an end listed below, and the socket's failure.
  `RelaysSwitched`: the same for the keyer, and that the release waits for the next
  frame.
* `BufferOwned`: overlapping calls, intruders, SIGKILL, one window of SIGINT.
  `HalvesInTurn`: a client that was late.  `InterruptEnds`: a server that stays in
  `send()` for good.

**Assumptions of AdcApp.**  Memory keeps pace with the stream, so the FIFO is never
full (`ram_writer` shows what happens otherwise).  `usleep(10000)`
in `Settle` is longer than a series takes to reach memory (0.5 ms) unless SIGINT cuts
it short, and
`usleep(500)` in `Finish` is longer than the writer needs to drain.  Loading the
bitstream resets the AXI ports with the logic (`patches/xilinx_devcfg.c`).  The ring
holds whole series: `limiter` is a power of two (`adc.c` 216), and so is the ring.

### What the code does that one may not expect

The shipped configuration has series of 2^n words with n large: they are whole
bursts, and `ram_writer` is the behaviour one sees.

* `ram_writer.v`: the short-burst path, the reason for the fork, does not work.  It is
  taken at the end of a series that is no number of bursts, or has become so because
  words met the full FIFO: `adc.v` does not look at `tready` and sends its tlast all
  the same.  It
  announces one beat too many (`AWLEN` counts beats minus one, `int_count_wire` on
  line 151 does not) and so reads an empty FIFO; the beat counter is not reset when
  the first beat leaves with its address (line 156); and a tlast behind another burst
  is forgotten, which `ram_writer_flush` shows.  After such an end bursts may have a
  beat without words, and WLAST need not come with the beat that AWLEN announced, until
  the writer is reset; the words that the FIFO took are in order all the same.
* `adc.v`: a trigger held in reset in the middle of a series leaves `tvalid` high and
  repeats the last word at every clock until it is released.  The comment at line 212
  says that sending is switched off when the series has its maximum number of samples
  *or* the sum is below the trigger ("Отключение посылки данных если достигнуто
  максимальное число отсчетов на серию или или сумма значений менее тригера"); the
  condition below it has only the limit, and the type bits `2'b10` mark words of a series
  below the level, so the model and `SeriesUnbroken` have what the code does.
* `adc.c`: a start without the bitstream (the commented line of `run.sh` would do so)
  still finds bit 2 set; what fires between the release of the cores (227) and the
  reset of the trigger (236) is taken for a capture, and the rest of the file is
  whatever the memory held.  A start by hand after a capture, a failed call or a signal
  resets a writer that may be in the middle of a burst, and until it sets the address
  that writer writes to memory that the program does not own (`CutAfterAbandonment`,
  `MemoryOwned`).  The file ends with four lines that are not of the series: the loop at
  336 takes 65536+4 words.  The position goes round in about 17 ms while the trigger
  keeps firing, and the program sleeps for 60 ms before its first poll and 500 us
  between polls: when it looks after exactly whole laps, nothing has moved.  Ctrl-C cuts
  `usleep(10000)`, and the file then gets what has landed.  With an odd series a word stays in the FIFO.  The numbers
  printed at 254 and after may belong to different series.
* `cma.c`: two ioctls at a time may free a buffer twice.  `adc-test-server.c`: a second
  server frees the buffer of the first and redirects its writer before `bind()` turns
  it away; between line 149 and the reset of the writer SIGINT is not handled.  The server
  is built with `-D_GNU_SOURCE`, so `signal()` installs a handler that restarts calls: a
  `send()` (141) that is blocked by a client which neither reads nor leaves goes on after
  SIGINT, the test of `interrupted` (131) is not reached, and only SIGKILL ends it.
* `sdr-transceiver.c`: `pthread_create() < 0` never holds (147), so a failure takes the
  role away until a restart; a client that says nothing keeps all others out; a client
  that vanishes without a FIN leaves the PTT up until TCP gives up.
* `mcpha-server.c`: a readout that wraps skips ring word 0x7FFFFF; the rounding of the
  trigger leaves up to about 61 old samples at the end of a window; the words that do not
  fill a burst of 32 stay in the writer (`axis_ram_writer.v` 61), 18 with the defaults of
  `mcpha.py` (10000 before the trigger, 100000 in all), and a readout has old words in
  their place; with fewer than 63 samples after
  the trigger the capture can go round the whole ring; the first sample of a window of 0x7FFFFF
  words is overwritten when the address of the trigger is a multiple of 64; code 3 under a running pulser swaps
  amplitudes and intervals; the histogram overflows for sums beyond 2^63 / RAND_MAX;
  a failed `pthread_create()` makes the next join endless; code 19 without code 2 is
  misaligned.
* `vna.c`: a cancel and a sweep within a millisecond leave two readers on one FIFO.
* `sdr-transceiver-hpsdr.c`: the main thread that waits for room (761) while the keyer
  takes the transmitter away waits as long as the key is held; `alex_data_0` keeps the
  keyer's PTT until the next frame; when `recvmmsg()` fails (747) `main()` returns and
  leaves relays, PTT and carrier as they are; `1200 / cw_speed` (1502) divides by what a datagram
  says, and zero is not refused.

## 4. Proofs

All theorems hold for every value of the constants that satisfies the named
`ASSUME` of the module.

* `SamplingProofs`, register stages.  `StageTypeOK /\ WordsHeld` is inductive as it
  stands: a word is parked in the input register only behind one in the output register, and
  together they number the words from `rcvd + 1` to `sent`.  `HeldTheorem` proves
  it, `StableTheorem` follows for one edge, and `PipeTheorem` maps every edge to a
  step, or a stutter, of `StreamPipe` with two words.
* `AxisRamWriterProofs`.  `OneAddressPerBurst` is the ledger of addresses (sent,
  waiting in the buffer, pending in the register) against bursts (in the slave,
  in the buffer, being counted).  It is not inductive alone: a new burst must find
  `int_awvalid_reg` low, or the pending address is lost.  `IInv` adds what that
  takes: `AddressesInOrder` (a pending address means an occupied buffer),
  `BeatsInOrder` (where in its burst each beat is), `BurstCovered` (a burst under
  way is in the FIFO) and `LeadBound` (the slave's `Ahead`).  The lemma
  `AddressHandedOver` draws the conclusion: a burst that started over a pending
  address would mean a slave 2B-1 beats ahead.  `IInvTheorem` yields `TypeTheorem`,
  `AddressTheorem`, `BeatTheorem`, `LeadTheorem`, and `StreamTheorem`: every step is a
  step or a stutter of `BurstStream`.
* `SamplingProofs`, ADC core.  `IInv` adds to the types that no time lies in the future
  (`TimesPast`), that a series is under way exactly when its counter is not zero
  (`UnderWay`) and what `pulse` knows of the two times (`PulseKnown`); from it follow
  `TypeTheorem`, `MarkTheorem`, `PulseTheorem` and `UnbrokenTheorem`.  `SeriesLedger`
  speaks of `%` and `\div`; the proof carries it as `Ledger`, *there is a number of
  whole series k such that ...*, which a step changes by zero or one, and
  `ModUnique` and `ModSucc` lead back to the remainders in `LedgerTheorem`.
* `RamWriterProofs`.  Nothing is assumed of the lengths of the series or of what they
  lose at the full FIFO.  `IInv` has two layers.  `Linked` is the data and always holds:
  memory, the beat on the port, the FIFO and the next word to be taken form one rising
  line without a gap.  `Whole` holds until a series ends ragged, and says that no short
  burst is ever announced: `BurstsCovered`, the words taken so far without those of the
  FIFO that no burst under way needs are a number of whole bursts, and a pending tlast
  finds at least one of them; so a tlast with words that fill their burst can only be
  pending over whole bursts, however many words were lost before it.  `HandedOver` (an
  address leaves at the edge that begins its burst), `OneAddressPerBurst` and
  `BeatsCounted` are the ledgers.  `WordsTheorem`, `BurstsTheorem`, and `StreamTheorem`:
  up to a ragged end, and again from the next reset, the fork is a `BurstStream`.
* `AdcAppProofs`.  `CaptureAligned` speaks of the file only.  `IInv` follows a burst from
  the ADC to its slot: `InPlace` says that the word to be sent next, the FIFO, the
  burst under way and the position are consecutive places of a series (the lemma
  `PlaceNext`: the ring holds whole series, so places go round with it), `Fresh` that
  all are newer than the release of the trigger, `FirstLap` that those of the first
  series go to the first slots, and `Landed` that each of them has arrived, is on its
  way, or has yet to be sent.  The wait of `Settle` excludes all but the first, which
  is `Seen`; of the burst beyond the series it is enough that it is old or the first of
  another series (`InPlace` again).  It starts from `Quiet`: after the bitstream nothing
  moves before the trigger is released.  `Bits` and `Owner` tie the reset bits, `rx_addr`
  and the buffer to the program counter; `MemoryOwned` follows.  `Idle` says that a run
  which left by its reset mode leaves no burst under way, whatever starts next, and with
  `Owner` that any other burst is one of the abandoned run: `CutTheorem`.
  `CaptureTheorem`, `CutTheorem`, `OwnedTheorem`.
* `PlatformProofs`, driver and server.  `DriverAlone` says what `cpu_addr` is at each
  statement of the driver while calls do not overlap, `OnePort` that one process has passed `bind()`,
  `Undisturbed` that its buffer is then the writer's, and `TurnsKept` relates position,
  `limit` and the half that is complete.  `OwnedTheorem`, `TurnTheorem`.
* `PlatformProofs`, register hub.  `HubIInv`: `WritesInTurn` says that the queues hold
  addresses and beats in the order of the accesses and that the next address is that
  of the beat to be applied next, because an address leaves with the last beat of its
  access and its answer enters at the same edge; `ReadsInTurn` the same of requests,
  the beat counter and the reply on the port; `BytesNew` that every byte is at
  least as new as the newest applied beat that names it; `RequestsDated` ties each read to the writes
  answered when it was requested.  The lemmas `QueueFacts`, `IdsAdvance` and
  `BeatsAdvance` are about queues, once for all five channels.  `AnswersTheorem`: a read
  sees every write answered before it.  `RegisterTheorem`: every edge is a step or a
  stutter of `RegisterFile`.
* `SdrTransceiverProofs`.  `Served`: a handler has the role its client named, and
  `sock_thread[]` names it (`Owned`), a connection waits in one place only
  (`Waiting`), and what has been commanded is in the registers (`Commanded`).  It
  yields `ServedTheorem`, `SettingsTheorem` and `KeyedTheorem`.  On top of it `Streams` counts
  the samples of a block that is copied through block and FIFO, and knows the room
  that a transmitting handler has found (`Filling`), whence `WholeTheorem`.
* `McphaProofs`.  `PulserKnown`: `active_thread` is raised as long as a pulser exists,
  and `enable_thread` is low while the main thread joins; `RoomKnown`: what a pulser
  has found of the FIFO only gets better.  `PulserTheorem`.
  The histogram is a recursive sum and `Draw` a recursive search in it.  The library's
  induction cannot be used, so the lemma `Induction` speaks of a set of numbers that
  holds 0 and every successor; with it `SumDefined` and `SearchDefined` show that the
  recursions define functions, `SumValues` that the histogram never falls, and
  `SearchFinds` that the search ends at the first bin above the number drawn, whose
  weight is then positive.  `Faithful` (what the generator holds has the parity of
  what the pulser does next) gives `FaithfulTheorem`.
  `Captured` follows the oscilloscope in `View`, the ring as it will be when the writer
  has written what it has: before the trigger `Held(n)`, the last n samples are in it
  each at its address modulo the ring; after it the same for as many as the window has
  taken since, whatever the rounding made of the counter.  What the writer still has at
  the end is what the length of the window leaves of whole bursts, since the rounding is
  a number of bursts.  `ReadCaptured` folds the ring into the two copies of the readout;
  `ReadoutTheorem` is the window, with the excuses above.
* `SamplingProofs`, network analyzer.  `OneSweep` says where a sweep is whose client has
  waited for the last one to come to rest: on its way to the server (`Asked`), in
  reset (`Begun`), or under way (`Running`), when one thread at most has a part in it
  (`Reads`) and all others have ended or are about to (`Rests`).  That thread has
  read the samples before those in the FIFO, has added up those of one frequency, and
  what the client has stored and what is on its way are the points before.  The
  lemmas `NextPart` and `PointsOfSweep` lead from samples to points; `SampleRead` and
  `PointSent` are the two steps that matter.  `SweepTheorem` is `SweepExact`.
* `HpsdrProofs`.  `ThreadKnown` is to the sending thread what `PulserKnown` is to the
  pulser, `KeyerKnows` lists what the keyer has set at each of its steps, `MainKnows`
  keeps the room that was found; all of them outlive the failing socket.
  `AgreeTheorem`.

Only model-checked: liveness (`Delivered`, `BurstsDrain`, `SeriesFlushed`,
`AllAnswered`, `CaptureNotMissed`, `GivenBack`, `Answered`, `StopEnds`,
`SweepCompletes`, `ReadersEnd`, `MainReturns`, `RelaysSwitched`, `HostSilenced`,
`InterruptEnds`), which is out of the prover's reach.  Every other property of a passing
run is a theorem.

## 5. Not modelled

A 64-bit status word is read in two beats (the time of a trigger, for instance): the
hub shows each half at its own clock edge, so the two halves may be of different
times, which `RegisterFile` says and no property forbids.  The read data of the hub
are an OR over wires of which most are not driven in this version; they count as
zero, as the synthesis takes them.
The conversion of a sample pair into a sum of magnitudes, the arithmetic of
`max_sum_abs` beyond its reset, and printing.  The internals of the vendor's FIFO
(`xpm_fifo_sync`): a queue whose count, full flag and first word are exact, which is
what both writers assume.  A dump that runs while the ring goes round: at most
one lap of the ring is promised by nobody, and `CaptureAligned` holds lines to
their place, not to one series.  Vendored and generated code, build scripts, and
the components whose status is `not_modelled` in `PROJECT.json`.

By lines the repository is mostly not its own: four copies of a generated
`ps7_init` file make up 50,000 of its 76,000 lines, the vendored device driver, display
libraries and simulation wrappers much of the rest.  They have no behaviour of this
project to model.  Of the servers, those that differ from a modelled one in constants
or in the width of a sample (`sdr_transceiver_122_88`, `sdr_transceiver_wide`,
`sdr_transceiver_hpsdr_122_88`, `vna_122_88`, the receivers) get no module of their own,
nor do those with one client and no thread (`scanner`, `pulsed_nmr`, `adc_recorder`, ...),
of which `AdcApp` and `Mcpha` show the pattern.  In the servers that are modelled the
commands that only write a register, the contents of frames, the codecs and the I2C
bus are left out.

## 6. Plan

What is left, the most useful first:

1. Composition: `AdcTrigger` feeding `RamWriter`, shown to implement the cores
   that `AdcApp` assumes.
2. The stream cores with control: `axis_ram_reader`, `axis_packetizer`,
   `axis_oscilloscope`, `axis_histogram`, `axis_gate_controller`.
