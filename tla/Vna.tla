-------------------------------- MODULE Vna ---------------------------------
(* projects/vna/server/vna.c with its client, vna/client/vna.py: a sweep is *)
(* a list of frequencies, of each of which the receiver delivers Settle     *)
(* samples to be skipped and Rate to be averaged; when the list has ended   *)
(* it goes on delivering.  The main thread starts a sweep and creates a     *)
(* thread that reads the FIFO and sends a point for each frequency to       *)
(* whatever sock_thread says; a cancelled thread notices within a           *)
(* millisecond, and nobody waits for it.                                    *)
(*                                                                          *)
(* Samples are numbered within a sweep; a point is the set of what the      *)
(* samples that it averages are values of, a sweep and one of its           *)
(* frequencies, or Noise.  Number, rate and range of the frequencies stay   *)
(* as they are in a behaviour: the client locks them while it reads a       *)
(* sweep.                                                                   *)
EXTENDS Integers, Sequences

CONSTANTS Size,        \* frequencies of a sweep
          Settle,      \* samples skipped after a change of frequency (10)
          Rate,        \* samples averaged
          Depth,       \* samples the FIFO holds (512)
          MaxNet,      \* points on their way that make send() wait
          MaxCommands, \* bound: commands on their way
          Readers      \* bound: threads that are alive at a time

ASSUME VnaAssumption ==
    /\ {Size, Rate, Depth, MaxNet, MaxCommands} \subseteq Nat \ {0} /\ Settle \in Nat

VARIABLES
    conn,         \* "none", "open", or "closed" by the client
    mode,         \* the client: "idle" or "reading"
    current,      \* the sweep it has asked for, modulo 2
    offset,       \* points of it that the client has stored
    hurried,      \* did it ask before the sweep of before had come to rest?
    commands,     \* commands on their way to the server
    net,          \* points on their way to the client
    pc,           \* where the main thread is
    sock_thread,  \* does sock_thread name a connection?
    reader,       \* the threads: where they are, cntr, and what buffer holds
    rst,          \* the two bits: FIFO and frequencies, receiver
    sweep,        \* the sweep the receiver works at
    tick,         \* samples it has delivered of that
    fifo,
    lost          \* did the FIFO lose samples of the sweep, or has it no thread?

client == <<mode, current, offset, hurried>>
sockets == <<conn, commands, net>>
receiver == <<rst, sweep, tick, fifo, lost>>
vna == <<conn, mode, current, offset, hurried, commands, net, pc,
          sock_thread, reader, rst, sweep, tick, fifo, lost>>

PerPoint == Settle + Rate
Total == Size * PerPoint
Noise == <<>>       \* the value of a sample that is none
None == [at |-> "none", cntr |-> 0, buffer |-> {}]

VnaInit ==
    /\ conn = "none" /\ mode = "idle" /\ current = 0 /\ offset = 0
    /\ hurried = FALSE /\ commands = <<>> /\ net = <<>>
    /\ pc = "accept" /\ sock_thread = FALSE /\ reader = [r \in Readers |-> None]
    /\ rst = {} /\ sweep = 0 /\ tick = 0 /\ fifo = <<>> /\ lost = FALSE

-----------------------------------------------------------------------------
\* The client.

Connect ==
    /\ conn = "none" /\ conn' = "open"
    /\ UNCHANGED <<client, commands, net, pc, sock_thread, reader, receiver>>

\* Has everything that an earlier sweep set going come to rest?
AtRest == /\ pc = "recv" /\ commands = <<>> /\ net = <<>>
          /\ \A r \in Readers : \/ reader[r].at = "none"
                               \/ (reader[r].at = "test" /\ reader[r].cntr = Total)

Sweep ==
    /\ conn = "open" /\ mode = "idle" /\ Len(commands) < MaxCommands
    /\ mode' = "reading" /\ offset' = 0 /\ hurried' = ~AtRest
    /\ current' = (current + 1) % 2
    /\ commands' = Append(commands, [kind |-> "sweep", sweep |-> current'])
    /\ UNCHANGED <<conn, net, pc, sock_thread, reader, receiver>>

\* (offset and hurried are of no use then)
StopReading == mode' = "idle" /\ offset' = 0 /\ hurried' = FALSE

Cancel ==
    /\ conn = "open" /\ mode = "reading" /\ Len(commands) < MaxCommands
    /\ StopReading /\ commands' = Append(commands, [kind |-> "cancel"])
    /\ UNCHANGED <<conn, current, net, pc, sock_thread, reader, receiver>>

\* A client that does not read a sweep throws away what comes.
Receive ==
    /\ net # <<>> /\ net' = Tail(net)
    /\ IF mode = "reading" /\ offset + 1 < Size
         THEN offset' = offset + 1 /\ UNCHANGED <<mode, hurried>>
         ELSE StopReading
    /\ UNCHANGED <<conn, current, commands, pc, sock_thread, reader, receiver>>

\* abort(): what is on its way may be lost.
Leave ==
    /\ conn = "open" /\ conn' = "closed" /\ StopReading
    /\ commands' \in {commands, <<>>} /\ net' = <<>>
    /\ UNCHANGED <<current, pc, sock_thread, reader, receiver>>

-----------------------------------------------------------------------------
\* The receiver: a sample of every 2500 clocks, lost when the FIFO is full.

Sample ==
    /\ rst = {1, 2}
    /\ tick' = IF tick < Total THEN tick + 1 ELSE tick
    /\ IF Len(fifo) < Depth THEN fifo' = Append(fifo, <<sweep, tick>>) /\ UNCHANGED lost
         ELSE lost' = (lost \/ tick < Total) /\ UNCHANGED fifo
    /\ UNCHANGED <<client, sockets, pc, sock_thread, reader, rst, sweep>>

-----------------------------------------------------------------------------
\* The main thread.

Goto(from, to) == pc = from /\ pc' = to

Accept ==
    /\ Goto("accept", "recv") /\ conn # "none"
    /\ UNCHANGED <<client, sockets, sock_thread, reader, receiver>>

NextCommand(kind) ==
    /\ pc = "recv" /\ commands # <<>> /\ Head(commands).kind = kind
    /\ commands' = Tail(commands)

\* (the slip of starting the receiver as it is)
Rash_StartSweep ==
    /\ NextCommand("sweep") /\ pc' = "create"
    /\ rst' = {2} /\ sweep' = Head(commands).sweep /\ tick' = 0 /\ lost' = FALSE
    /\ UNCHANGED <<client, conn, net, sock_thread, reader, fifo>>

\* *rst &= ~3; *rst |= 2;
StartSweep ==
    /\ NextCommand("sweep") /\ pc' = "create"
    /\ rst' = {2} /\ fifo' = <<>> /\ sweep' = Head(commands).sweep /\ tick' = 0
    /\ lost' = FALSE
    /\ UNCHANGED <<client, conn, net, sock_thread, reader>>

Free == {r \in Readers : reader[r].at = "none"}

\* sock_thread is set and the thread created, if it can be.
CreateReader ==
    /\ Goto("create", "frequencies") /\ sock_thread' = TRUE
    /\ \/ /\ Free # {}
          /\ reader' = [reader EXCEPT ![CHOOSE r \in Free : TRUE] =
                            [None EXCEPT !.at = "test"]]
          /\ UNCHANGED lost
       \/ UNCHANGED reader /\ lost' = TRUE
    /\ UNCHANGED <<client, sockets, rst, sweep, tick, fifo>>

\* (the slip of setting the bit instead of adding it)
Stuck_Release ==
    /\ Goto("frequencies", "recv") /\ rst' = {1}
    /\ UNCHANGED <<client, sockets, sock_thread, reader, sweep, tick, fifo, lost>>

\* The list is written, then *rst |= 1.
Release ==
    /\ Goto("frequencies", "recv") /\ rst' = {1, 2}
    /\ UNCHANGED <<client, sockets, sock_thread, reader, sweep, tick, fifo, lost>>

\* Cancel, and the end of a connection: *rst &= ~3; sock_thread = -1.
StopReceiver ==
    /\ \/ NextCommand("cancel") /\ pc' = "cancel"
       \/ Goto("recv", "close") /\ conn = "closed" /\ commands = <<>> /\ UNCHANGED commands
    /\ rst' = {} /\ fifo' = <<>> /\ tick' = 0 /\ lost' = FALSE
    /\ UNCHANGED <<client, conn, net, sock_thread, reader, sweep>>

ClearSocket ==
    /\ \/ Goto("cancel", "recv") /\ UNCHANGED conn
       \/ Goto("close", "accept") /\ conn' = "none"
    /\ sock_thread' = FALSE
    /\ UNCHANGED <<client, commands, net, reader, receiver>>

Main == \/ Accept \/ StartSweep \/ CreateReader \/ Release \/ StopReceiver \/ ClearSocket

-----------------------------------------------------------------------------
\* read_handler.

Step(r, from, to) == reader[r].at = from /\ reader' = [reader EXCEPT ![r] = to]

\* The end of the loop.
Done(r) == reader[r].cntr = Total

\* (the slip of testing for the cancel after the wait for samples)
Late_TestReader(r) ==
    /\ \/ Done(r) /\ Step(r, "test", None)
       \/ ~Done(r) /\ fifo # <<>>
          /\ Step(r, "test", IF sock_thread THEN [reader[r] EXCEPT !.at = "read"] ELSE None)
    /\ UNCHANGED <<client, sockets, pc, sock_thread, receiver>>

\* The tests at the head of the loop; while the FIFO is empty they are repeated
\* every millisecond.
TestReader(r) ==
    /\ \/ (Done(r) \/ ~sock_thread) /\ Step(r, "test", None)
       \/ ~Done(r) /\ sock_thread /\ fifo # <<>>
          /\ Step(r, "test", [reader[r] EXCEPT !.at = "read"])
    /\ UNCHANGED <<client, sockets, pc, sock_thread, receiver>>

\* i < 10
Skipped(cntr) == cntr % PerPoint < Settle

\* What a sample is a value of, once the receiver has settled; and an empty
\* FIFO reads as something else.
Value(sample) == IF sample[2] % PerPoint < Settle THEN Noise
                   ELSE <<sample[1], sample[2] \div PerPoint>>

\* A sample is skipped or added; with the last of a point the point is sent.
ReadSample(r) ==
    LET this == reader[r]
        value == IF fifo = <<>> THEN Noise ELSE Value(Head(fifo))
        sent == (this.cntr + 1) % PerPoint = 0
    IN  /\ Step(r, "read", [at |-> IF sent THEN "send" ELSE "test",
                            cntr |-> this.cntr + 1,
                            buffer |-> IF Skipped(this.cntr) THEN {}
                                         ELSE this.buffer \cup {value}])
        /\ fifo' = IF fifo = <<>> THEN <<>> ELSE Tail(fifo)
        /\ UNCHANGED <<client, sockets, pc, sock_thread, rst, sweep, tick, lost>>

\* send() waits for room; it fails without a connection, and may go unnoticed
\* with one that the client has left.
SendPoint(r) ==
    LET further == [reader[r] EXCEPT !.at = "test", !.buffer = {}]
    IN  /\ \/ /\ sock_thread /\ conn = "open" /\ Len(net) < MaxNet
              /\ Step(r, "send", further) /\ net' = Append(net, reader[r].buffer)
           \/ /\ sock_thread /\ conn = "closed"
              /\ Step(r, "send", further) \/ Step(r, "send", None)
              /\ UNCHANGED net
           \/ ~sock_thread /\ Step(r, "send", None) /\ UNCHANGED net
        /\ UNCHANGED <<client, conn, commands, pc, sock_thread, receiver>>

Reader(r) == TestReader(r) \/ ReadSample(r) \/ SendPoint(r)

VnaNext == \/ Connect \/ Sweep \/ Cancel \/ Receive \/ Leave
        \/ Sample \/ Main \/ \E r \in Readers : Reader(r)

\* The threads are scheduled and the receiver has a clock; the client is driven
\* by its event loop and takes what comes.
VnaFairness == /\ WF_vna(Main) /\ WF_vna(Sample) /\ WF_vna(Receive)
            /\ \A r \in Readers : WF_vna(Reader(r))

VnaSpec == VnaInit /\ [][VnaNext]_vna /\ VnaFairness

-----------------------------------------------------------------------------
Values == {Noise} \cup ((0 .. 1) \X (0 .. Size))

\* Types; a thread ends with the last sample of its sweep.
VnaTypeOK ==
    /\ conn \in {"none", "open", "closed"} /\ mode \in {"idle", "reading"}
    /\ {current, sweep} \subseteq 0 .. 1 /\ offset \in 0 .. Size
    /\ {hurried, sock_thread, lost} \subseteq BOOLEAN
    /\ Len(commands) <= MaxCommands
    /\ Len(net) <= MaxNet /\ \A i \in DOMAIN net : net[i] \subseteq Values
    /\ pc \in {"accept", "recv", "create", "frequencies", "cancel", "close"}
    /\ \A r \in Readers : /\ reader[r].at \in {"none", "test", "read", "send"}
                          /\ reader[r].cntr \in 0 .. Total
                          /\ reader[r].buffer \subseteq Values
    /\ rst \in {{}, {2}, {1, 2}} /\ tick \in 0 .. Total /\ Len(fifo) <= Depth

\* What the client stores as the k-th point of a sweep is the average of just
\* the samples of its k-th frequency, with one sweep right after the other, a
\* cancel or a new connection in between: unless it did not wait for a
\* cancelled sweep to come to rest (then an old thread shares the FIFO, or old
\* points are on their way), or stalled until the FIFO was full.
PointsExact ==
    [][(mode = "reading" /\ net # <<>> /\ net' = Tail(net) /\ conn' = conn)
          => Head(net) = {<<current, offset>>} \/ hurried \/ lost]_vna

\* The points of a sweep are right, and no more of it is read than there is.
SweepExact == []VnaTypeOK /\ PointsExact

\* A sweep that is neither hurried, lost nor cancelled delivers all its points.
SweepCompletes == (mode = "reading" /\ ~hurried) ~> (mode = "idle" \/ hurried \/ lost)

\* After a cancel, or when the client has left, no thread goes on for ever, although
\* no more samples come.
ReadersEnd == ~sock_thread ~> (sock_thread \/ \A r \in Readers : reader[r].at = "none")
=============================================================================
