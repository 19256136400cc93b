---------------------------- MODULE InoutBuffer ----------------------------
(* modules/inout_buffer.v: an input_buffer followed by an output_buffer, so *)
(* that neither valid nor ready crosses the stage combinationally.  One     *)
(* step is one rising edge of aclk.  in_valid, in_data and out_ready are    *)
(* the wires the neighbours drive between two edges: the writer offers word *)
(* sent + 1 whenever it likes and may withdraw it, the reader raises and    *)
(* drops ready as it likes.                                                 *)
EXTENDS Naturals, StreamBuffers

CONSTANT MaxWords     \* bound: words the writer offers between two resets

ASSUME MaxWordsAssumption == MaxWords \in Nat

VARIABLES
    buf_0,            \* registers of the input_buffer: [ready, data]
    buf_1,            \* registers of the output_buffer: [valid, data]
    in_valid, in_data, out_ready,
    sent,             \* serial of the last word accepted at the input
    rcvd              \* serial of the last word taken from the output

regs == <<buf_0, buf_1>>
wires == <<in_valid, in_data, out_ready>>
stage == <<buf_0, buf_1, in_valid, in_data, out_ready, sent, rcvd>>

Idle == 0             \* what in_data shows while in_valid is low
Word == 1 .. MaxWords

in_ready == buf_0.ready
int_valid_wire == InputValid(buf_0, in_valid)
int_data_wire == InputData(buf_0, in_data)
int_ready_wire == OutputReady(buf_1, out_ready)
out_valid == buf_1.valid
out_data == buf_1.data

\* The neighbours drive the wires for the next edge.
Drive == /\ in_valid' \in BOOLEAN
         /\ out_ready' \in BOOLEAN
         /\ in_valid' => sent' < MaxWords
         /\ in_data' = IF in_valid' THEN sent' + 1 ELSE Idle

StageInit ==
    /\ buf_0 = [ready |-> TRUE, data |-> Idle]
    /\ buf_1 = [valid |-> FALSE, data |-> Idle]
    /\ sent = 0 /\ rcvd = 0
    /\ in_valid = FALSE /\ in_data = Idle /\ out_ready = FALSE

\* A clock edge with aresetn high.
StageClock ==
    /\ buf_0' = InputEdge(buf_0, in_valid, in_data, int_ready_wire)
    /\ buf_1' = OutputEdge(buf_1, int_valid_wire, int_data_wire, out_ready)
    /\ sent' = IF in_valid /\ in_ready THEN in_data ELSE sent
    /\ rcvd' = IF out_valid /\ out_ready THEN out_data ELSE rcvd
    /\ Drive

\* A clock edge with aresetn low: writer and reader start again with it.
StageReset ==
    /\ buf_0' = InputReset(buf_0, in_data)
    /\ buf_1' = OutputReset(buf_1, int_data_wire, out_ready)
    /\ sent' = 0 /\ rcvd' = 0
    /\ Drive

StageNext == StageClock \/ StageReset

\* The clock runs and the reader is ready again and again.
StageFairness == WF_stage(StageClock /\ out_ready')

StageSpec == StageInit /\ [][StageNext]_stage /\ StageFairness

-----------------------------------------------------------------------------
\* Types; never more words delivered than accepted since the last reset.
StageTypeOK ==
    /\ buf_0 \in [ready : BOOLEAN, data : Word \cup {Idle}]
    /\ buf_1 \in [valid : BOOLEAN, data : Word \cup {Idle}]
    /\ in_valid \in BOOLEAN /\ out_ready \in BOOLEAN
    /\ in_data \in Word \cup {Idle}
    /\ sent \in Word \cup {Idle}
    /\ rcvd \in 0 .. sent

Parked == IF buf_0.ready THEN 0 ELSE 1
Waiting == IF buf_1.valid THEN 1 ELSE 0

\* The words accepted and not yet delivered are exactly the ones in the two
\* registers, oldest in buf_1; a word is parked in buf_0 only behind another.
\* (The skid register captures on every ready edge, so what it holds is only
\* meaningful while ready is low.)
WordsHeld ==
    /\ in_valid => in_data = sent + 1
    /\ sent = rcvd + Parked + Waiting
    /\ buf_1.valid => buf_1.data = rcvd + 1
    /\ ~buf_0.ready => buf_1.valid /\ buf_0.data = sent

\* AXI4-Stream: a word offered to the reader stays offered, unchanged, until
\* the reader takes it, although the writer may withdraw its own.
OutputStable ==
    [][StageClock /\ out_valid /\ ~out_ready
         => out_valid' /\ out_data' = out_data]_stage

\* Registering ready costs no bandwidth: the stage stops accepting only after
\* an edge at which the reader was not ready.
NoBubble == [][StageClock /\ in_ready /\ out_ready => in_ready']_stage

\* What a register stage may not do to a stream it is put into: lose, double
\* or reorder a word, take an offer back, or cost bandwidth.
HandshakeKept == [](StageTypeOK /\ WordsHeld) /\ OutputStable /\ NoBubble

\* The stage is a pipe of two words (refinement of the abstract pipe).
Pipe == INSTANCE StreamPipe WITH Cap <- 2
PipeSpec == Pipe!Spec

\* Every word accepted is delivered, unless a reset drops it.
Delivered ==
    \A k \in Word : sent >= k ~> (rcvd >= k \/ sent < k)
=============================================================================
