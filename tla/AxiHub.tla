------------------------------- MODULE AxiHub -------------------------------
(* cores/axi_hub_modified.v: the file of configuration and status registers *)
(* between the processor's bus and the cores.  One step is one rising edge  *)
(* of aclk.  The processor offers addresses, data and requests, and takes   *)
(* answers, whenever it likes, data even before their address.  Addresses,  *)
(* data and requests wait in an inout_buffer each, which is a queue of two  *)
(* words (SamplingProofs!PipeTheorem) whose ready is low when it is full    *)
(* (InoutBuffer!WordsHeld); answers leave through an output_buffer each.    *)
(*                                                                          *)
(* The accesses the program makes are fixed in writes and reads.  A write   *)
(* has a word, a length in beats and the bytes it names; a read is of the   *)
(* configuration or of the status.  64-bit accesses have two beats.         *)
(*                                                                          *)
(* What a data register holds while its valid is low is left out; so are    *)
(* the port of a stream that this version of the hub no longer has, whose   *)
(* wires are not driven, and the addresses no program uses.                 *)
EXTENDS Naturals, Sequences, StreamBuffers, Accesses

CONSTANTS Words,      \* configuration words
          Lanes,      \* bytes of a word
          Writes,     \* what a write may be: [word, len, strobe]
          Reads,      \* what a read may be: [word, len, status]
          MaxWrites, MaxReads,  \* bounds: accesses between two resets
          MaxStatus   \* bound: changes of the status

Fits(access) == access.len > 0 /\ access.word + access.len <= Words

ASSUME HubAssumption ==
    /\ {Words, Lanes} \subseteq Nat \ {0}
    /\ {MaxWrites, MaxReads, MaxStatus} \subseteq Nat
    /\ Writes \subseteq [word : Nat, len : Nat, strobe : SUBSET (1 .. Lanes)]
    /\ Reads \subseteq [word : Nat, len : Nat, status : BOOLEAN]
    /\ \A access \in Writes \cup Reads : Fits(access)

VARIABLES
    writes, reads,    \* the accesses of the program, in order
    int_awcntr_reg, int_arcntr_reg,   \* beats done of the access under way
    buf_0, buf_1, buf_3,  \* write addresses, write data, read requests
    buf_2, buf_4,     \* write answer, read reply
    cfg_data, sts_data,
    cpu               \* what the processor has sent and received

hub == <<writes, reads, int_awcntr_reg, int_arcntr_reg, buf_0, buf_1, buf_2,
         buf_3, buf_4, cfg_data, sts_data, cpu>>

-----------------------------------------------------------------------------
\* The wires.

in_ready(buf) == Len(buf) < 2

int_awvalid_wire == buf_0 # <<>>
int_awid_wire == IF int_awvalid_wire THEN Head(buf_0) ELSE 0
int_wvalid_wire == buf_1 # <<>>
int_wdata_wire == IF int_wvalid_wire THEN Head(buf_1) ELSE Never
int_arvalid_wire == buf_3 # <<>>
int_arid_wire == IF int_arvalid_wire THEN Head(buf_3) ELSE 0

int_bready_wire(bready) == OutputReady(buf_2, bready)
int_rready_wire(rready) == OutputReady(buf_4, rready)

int_wlast_wire ==
    /\ int_wvalid_wire
    /\ int_wdata_wire.beat + 1 = writes[int_wdata_wire.of].len

\* (the slip of answering with the first beat)
Early_int_bvalid_wire == int_awvalid_wire /\ int_wvalid_wire

int_bvalid_wire == int_awvalid_wire /\ int_wvalid_wire /\ int_wlast_wire

\* (the slip of letting the address go with the first beat)
First_int_awready_wire(bready) ==
    int_bready_wire(bready) /\ int_wvalid_wire /\ int_wdata_wire.beat = 0

int_awready_wire(bready) == int_bready_wire(bready) /\ int_wlast_wire

int_wready_wire(bready) == int_bready_wire(bready) /\ int_awvalid_wire

int_we_wire(bready) ==
    int_bready_wire(bready) /\ int_awvalid_wire /\ int_wvalid_wire

int_rlast_wire ==
    int_arvalid_wire => int_arcntr_reg + 1 = reads[int_arid_wire].len

int_arready_wire(rready) == int_rready_wire(rready) /\ int_rlast_wire
int_re_wire(rready) == int_rready_wire(rready) /\ int_arvalid_wire

Cleared == [w \in 0 .. Words - 1 |-> [l \in 1 .. Lanes |-> Never]]
NoReply == [place |-> Never, value |-> [l \in 1 .. Lanes |-> Never]]

\* int_rdata_wire[0] with its address; nothing while there is no request.
int_rdata_wire ==
    IF ~int_arvalid_wire THEN NoReply ELSE
    LET read == reads[int_arid_wire]
    IN  [place |-> [of |-> int_arid_wire, beat |-> int_arcntr_reg],
         value |-> IF read.status
                     THEN [l \in 1 .. Lanes |-> [of |-> sts_data, beat |-> 0]]
                     ELSE cfg_data[read.word + int_arcntr_reg]]

-----------------------------------------------------------------------------
HubInit ==
    /\ writes \in [1 .. MaxWrites -> Writes]
    /\ reads \in [1 .. MaxReads -> Reads]
    /\ int_awcntr_reg = 0 /\ int_arcntr_reg = 0
    /\ buf_0 = <<>> /\ buf_1 = <<>> /\ buf_3 = <<>>
    /\ buf_2 = [valid |-> FALSE, data |-> 0]
    /\ buf_4 = [valid |-> FALSE, data |-> NoReply]
    /\ cfg_data = Cleared /\ sts_data = 0
    /\ cpu = [aw |-> 1, w |-> First, b |-> 0, ar |-> 1, r |-> First,
              since |-> <<>>]

\* (the slip of writing all bytes of a word)
Wide_CfgEdge(bready) ==
    cfg_data' =
        IF int_we_wire(bready)
          THEN [cfg_data EXCEPT ![writes[int_awid_wire].word + int_awcntr_reg] =
                    [l \in 1 .. Lanes |-> int_wdata_wire]]
          ELSE cfg_data

\* The flip-flops of the word and of the bytes that a beat names.
CfgEdge(bready) ==
    cfg_data' =
        IF int_we_wire(bready)
          THEN [cfg_data EXCEPT ![writes[int_awid_wire].word + int_awcntr_reg] =
                    [l \in 1 .. Lanes |->
                        IF l \in writes[int_wdata_wire.of].strobe
                          THEN int_wdata_wire ELSE @[l]]]
          ELSE cfg_data

CounterEdge(bready, rready) ==
    /\ int_awcntr_reg' = IF ~int_we_wire(bready) THEN int_awcntr_reg
                         ELSE IF int_wlast_wire THEN 0 ELSE int_awcntr_reg + 1
    /\ int_arcntr_reg' = IF ~int_re_wire(rready) THEN int_arcntr_reg
                         ELSE IF int_rlast_wire THEN 0 ELSE int_arcntr_reg + 1

\* An inout_buffer delivers when its reader is ready.
QueueEdge(buf, in_valid, in_data, out_ready) ==
    LET rest == IF buf # <<>> /\ out_ready THEN Tail(buf) ELSE buf
    IN  IF in_valid THEN Append(rest, in_data) ELSE rest

\* The processor's side of the five channels.
CpuEdge(awvalid, wvalid, bready, arvalid, rready) ==
    LET data == buf_4.valid /\ rready
        complete == data /\ After(reads, cpu.r).beat = 0
        since == IF arvalid THEN Append(cpu.since, cpu.b) ELSE cpu.since
    IN  cpu' = [aw |-> IF awvalid THEN cpu.aw + 1 ELSE cpu.aw,
                w  |-> IF wvalid THEN After(writes, cpu.w) ELSE cpu.w,
                b  |-> IF buf_2.valid /\ bready THEN cpu.b + 1 ELSE cpu.b,
                ar |-> IF arvalid THEN cpu.ar + 1 ELSE cpu.ar,
                r  |-> IF data THEN After(reads, cpu.r) ELSE cpu.r,
                since |-> IF complete THEN Tail(since) ELSE since]

\* A clock edge with aresetn high.  An offer the hub does not take leaves no
\* trace, so only those that it takes are counted as one.
HubClock(awvalid, wvalid, bready, arvalid, rready) ==
    /\ awvalid => cpu.aw <= MaxWrites /\ in_ready(buf_0)
    /\ wvalid => cpu.w.of <= MaxWrites /\ in_ready(buf_1)
    /\ arvalid => cpu.ar <= MaxReads /\ in_ready(buf_3)
    /\ CfgEdge(bready) /\ CounterEdge(bready, rready)
    /\ buf_0' = QueueEdge(buf_0, awvalid, cpu.aw, int_awready_wire(bready))
    /\ buf_1' = QueueEdge(buf_1, wvalid, cpu.w, int_wready_wire(bready))
    /\ buf_2' = OutputEdge(buf_2, int_bvalid_wire, int_awid_wire, bready)
    /\ buf_3' = QueueEdge(buf_3, arvalid, cpu.ar, int_arready_wire(rready))
    /\ buf_4' = OutputEdge(buf_4, int_arvalid_wire, int_rdata_wire, rready)
    /\ CpuEdge(awvalid, wvalid, bready, arvalid, rready)
    /\ sts_data' \in {sts_data, sts_data + 1} /\ sts_data' <= MaxStatus
    /\ UNCHANGED <<writes, reads>>

\* aresetn low: the processor and the bus start again with the hub.
HubReset ==
    /\ int_awcntr_reg' = 0 /\ int_arcntr_reg' = 0
    /\ buf_0' = <<>> /\ buf_1' = <<>> /\ buf_3' = <<>>
    /\ buf_2' = [valid |-> FALSE, data |-> 0]
    /\ buf_4' = [valid |-> FALSE, data |-> NoReply]
    /\ cfg_data' = Cleared
    /\ cpu' = [aw |-> 1, w |-> First, b |-> 0, ar |-> 1, r |-> First,
               since |-> <<>>]
    /\ UNCHANGED <<writes, reads, sts_data>>

HubNext ==
    \/ \E awvalid, wvalid, bready, arvalid, rready \in BOOLEAN :
            HubClock(awvalid, wvalid, bready, arvalid, rready)
    \/ HubReset

\* The clock runs, also while nothing new is offered (there are only so many
\* accesses), and the processor takes the answers it has asked for.
HubFairness ==
    /\ WF_hub(\E rready \in BOOLEAN : HubClock(FALSE, FALSE, TRUE, FALSE, rready))
    /\ WF_hub(\E bready \in BOOLEAN : HubClock(FALSE, FALSE, bready, FALSE, TRUE))

HubSpec == HubInit /\ [][HubNext]_hub /\ HubFairness

-----------------------------------------------------------------------------
\* Types; the beat counters stay within the access under way.
HubTypeOK ==
    /\ writes \in [1 .. MaxWrites -> Writes]
    /\ reads \in [1 .. MaxReads -> Reads]
    /\ int_awcntr_reg \in 0 .. Words - 1 /\ int_arcntr_reg \in 0 .. Words - 1
    /\ int_awcntr_reg > 0 /\ int_awvalid_wire
         => int_awcntr_reg < writes[int_awid_wire].len
    /\ int_arcntr_reg > 0 => int_arcntr_reg < reads[int_arid_wire].len
    /\ cpu.b \in 0 .. MaxWrites /\ cpu.aw \in 1 .. MaxWrites + 1
    /\ cpu.ar \in 1 .. MaxReads + 1
    /\ sts_data \in 0 .. MaxStatus
    /\ \A w \in 0 .. Words - 1, l \in 1 .. Lanes :
          cfg_data[w][l].of \in 0 .. MaxWrites

\* The writes that name byte l of word w.
Naming(w, l) == {k \in 1 .. MaxWrites : /\ l \in writes[k].strobe
                                        /\ w \in writes[k].word ..
                                             writes[k].word + writes[k].len - 1}

\* Read after write: a reply on the port shows, in every byte, a write at least
\* as new as any that had been answered when the read was requested.  This is
\* what SET_BIT and CLEAR_BIT of adc.c rest on, which read a byte of the
\* register, change a bit and write it back.
ReadsSeeAnswers ==
    LET place == buf_4.data.place
        read == reads[place.of]
    IN  buf_4.valid /\ ~read.status =>
            \A l \in 1 .. Lanes :
                \A k \in Naming(read.word + place.beat, l) :
                    k <= Head(cpu.since) => k <= buf_4.data.value[l].of

\* The register hub answers what it was asked, from within its ranges.
AnswersKept == HubTypeOK /\ ReadsSeeAnswers

\* Two stages late and five channels wide, the hub is a register file
\* (refinement of the abstract one).
InTurn(valid, data, next) == IF valid THEN data ELSE next
Registers ==
    INSTANCE RegisterFile WITH
        cfg <- cfg_data, sts <- sts_data,
        applied <- InTurn(int_wvalid_wire, int_wdata_wire, cpu.w),
        answered <- cpu.b + (IF buf_2.valid THEN 1 ELSE 0),
        fetched <- [of |-> InTurn(int_arvalid_wire, int_arid_wire, cpu.ar),
                    beat |-> int_arcntr_reg],
        taken <- cpu.r,
        reply <- IF buf_4.valid THEN <<buf_4.data>> ELSE <<>>
RegisterSpec == Registers!Spec

\* Every write whose address and data have been accepted is answered, and all
\* of a read that has been accepted is replied to.
AllAnswered ==
    /\ \A k \in 1 .. MaxWrites :
          cpu.aw > k /\ cpu.w.of > k ~> (cpu.b >= k \/ cpu.aw <= k \/ cpu.w.of <= k)
    /\ \A k \in 1 .. MaxReads : cpu.ar > k ~> (cpu.r.of > k \/ cpu.ar <= k)
=============================================================================
