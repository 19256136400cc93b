--------------------------- MODULE AxisRamWriter ---------------------------
(* cores/axis_ram_writer.v: a stream of words goes through a FIFO into      *)
(* memory, in bursts of B beats (16 in the source) on an AXI write port,    *)
(* round a ring of MaxAddr + 1 burst slots; sts_data tells the software how *)
(* far it has got.  One step is one rising edge of aclk.  Words are named   *)
(* by serial number and an address by its slot: the core computes with      *)
(* neither the data nor min_addr.                                           *)
(*                                                                          *)
(* Around the core, modelled from its ports: the stream writer honours      *)
(* tready; the AXI slave takes addresses and data when it likes, but takes  *)
(* at most Ahead beats whose address it does not have yet (0: address       *)
(* first); the FIFO is exact, its first word falls through, a write to a    *)
(* full one and a read of an empty one do nothing.  Reset is taken between  *)
(* bursts: what a slave does with a burst cut in two is its own affair.     *)
EXTENDS Integers, StreamBuffers

CONSTANTS B,          \* beats in a burst
          Depth,      \* words the FIFO holds
          MaxAddr,    \* cfg_data: the last slot of the ring
          Ahead,      \* beats the slave takes ahead of their address
          MaxWords    \* bound: words the stream writer offers between resets

ASSUME WriterAssumption ==
    /\ B \in Nat /\ B >= 2
    /\ Depth \in Nat /\ Depth >= B
    /\ MaxAddr \in Nat
    /\ MaxWords \in Nat
    /\ Ahead \in Nat /\ Ahead <= 2 * B - 2   \* see LeadBound

VARIABLES
    int_awvalid_reg, int_wvalid_reg, int_cntr_reg, int_addr_reg,
    buf_0,            \* output_buffer of the address: [valid, data]
    buf_1,            \* output_buffer of the data, data = [last, word]
    written, read,    \* words that went into the FIFO and came out of it
    slave             \* what the AXI slave took: [open, addr, word, beat]

drain == <<int_awvalid_reg, int_wvalid_reg, int_cntr_reg, int_addr_reg,
           buf_0, buf_1, read, slave>>     \* all but the stream writer's side
vars == <<int_awvalid_reg, int_wvalid_reg, int_cntr_reg, int_addr_reg,
          buf_0, buf_1, written, read, slave>>

Junk == 0             \* what an empty FIFO shows

-----------------------------------------------------------------------------
\* The wires, as functions of the registers.

int_count_wire == written - read

int_full_wire == int_count_wire = Depth
int_wdata_wire == IF int_count_wire > 0 THEN read + 1 ELSE Junk

\* (the slip of waiting for one word more than a burst needs)
Strict_int_valid_wire == int_count_wire > B /\ ~int_wvalid_reg

int_valid_wire == int_count_wire >= B /\ ~int_wvalid_reg
int_awvalid_wire == int_valid_wire \/ int_awvalid_reg
int_wvalid_wire == int_valid_wire \/ int_wvalid_reg

int_wlast_wire == int_cntr_reg = B - 1
\* The counter of log2(B) bits.
NextBeat(n) == IF n = B - 1 THEN 0 ELSE n + 1

sts_data == int_addr_reg
s_axis_tready == ~int_full_wire

\* (the slip of a ring one slot too short)
Short_NextSlot(a) == IF a + 1 < MaxAddr THEN a + 1 ELSE 0

NextSlot(a) == IF a < MaxAddr THEN a + 1 ELSE 0

-----------------------------------------------------------------------------
\* The slave's side.

\* Beats taken ahead of their address; negative while it waits for data.
Lead == slave.beat - B * slave.open

Take(aw, w) ==
    LET last == w /\ buf_1.data.last
    IN  [open |-> slave.open + (IF aw THEN 1 ELSE 0) - (IF last THEN 1 ELSE 0),
         addr |-> IF aw THEN buf_0.data ELSE slave.addr,
         word |-> IF w THEN buf_1.data.word ELSE slave.word,
         beat |-> IF last THEN 0 ELSE slave.beat + (IF w THEN 1 ELSE 0)]

Nothing == [open |-> 0, addr |-> MaxAddr, word |-> 0, beat |-> 0]

-----------------------------------------------------------------------------
Empty(d) == [valid |-> FALSE, data |-> d]
NoBeat == [last |-> FALSE, word |-> Junk]

Init == /\ int_awvalid_reg = FALSE /\ int_wvalid_reg = FALSE
        /\ int_cntr_reg = 0 /\ int_addr_reg = 0
        /\ buf_0 = Empty(0) /\ buf_1 = Empty(NoBeat)
        /\ written = 0 /\ read = 0
        /\ slave = Nothing

\* (the slip of not remembering an address the buffer had no room for)
Forgetful_AddressEdge(awready) ==
    LET sent == int_awvalid_wire /\ OutputReady(buf_0, awready)
    IN  /\ int_awvalid_reg' = FALSE
        /\ int_addr_reg' = IF sent THEN NextSlot(int_addr_reg) ELSE int_addr_reg
        /\ buf_0' = OutputEdge(buf_0, int_awvalid_wire, int_addr_reg, awready)

\* (the slip of handing the same address over again and again)
Repeating_AddressEdge(awready) ==
    LET sent == int_awvalid_wire /\ OutputReady(buf_0, awready)
    IN  /\ int_awvalid_reg' = int_awvalid_wire
        /\ int_addr_reg' = IF sent THEN NextSlot(int_addr_reg) ELSE int_addr_reg
        /\ buf_0' = OutputEdge(buf_0, int_awvalid_wire, int_addr_reg, awready)

\* The address half of the edge: the slot goes to buf_0 and the ring steps.
AddressEdge(awready) ==
    LET sent == int_awvalid_wire /\ OutputReady(buf_0, awready)
    IN  /\ int_awvalid_reg' = (int_awvalid_wire /\ ~sent)
        /\ int_addr_reg' = IF sent THEN NextSlot(int_addr_reg) ELSE int_addr_reg
        /\ buf_0' = OutputEdge(buf_0, int_awvalid_wire, int_addr_reg, awready)

\* The data half: a word goes from the FIFO to buf_1; the burst ends when the
\* last one has gone.
DataEdge(wready) ==
    LET int_wready_wire == OutputReady(buf_1, wready)
        int_rden_wire == int_wvalid_wire /\ int_wready_wire
    IN  /\ int_cntr_reg' = IF int_rden_wire THEN NextBeat(int_cntr_reg)
                                            ELSE int_cntr_reg
        /\ int_wvalid_reg' = (int_wvalid_wire
                                /\ ~(int_wready_wire /\ int_wlast_wire))
        /\ read' = IF int_rden_wire /\ int_count_wire > 0 THEN read + 1 ELSE read
        /\ buf_1' = OutputEdge(buf_1, int_wvalid_wire,
                        [last |-> int_wlast_wire, word |-> int_wdata_wire], wready)

\* A clock edge with aresetn high.
Clock(tvalid, awready, wready) ==
    /\ tvalid => written < MaxWords
    /\ buf_1.valid /\ wready => Lead < Ahead
    /\ AddressEdge(awready)
    /\ DataEdge(wready)
    /\ written' = IF tvalid /\ s_axis_tready THEN written + 1 ELSE written
    /\ slave' = Take(buf_0.valid /\ awready, buf_1.valid /\ wready)

\* Between bursts: nothing on its way to the slave and nothing owed to it.
Quiet == /\ ~int_awvalid_reg /\ ~int_wvalid_reg
         /\ ~buf_0.valid /\ ~buf_1.valid
         /\ slave.open = 0 /\ slave.beat = 0

\* A clock edge with aresetn low, the neighbours starting again with it.
Reset ==
    /\ Quiet
    /\ int_awvalid_reg' = FALSE /\ int_wvalid_reg' = FALSE
    /\ int_cntr_reg' = 0 /\ int_addr_reg' = 0
    /\ buf_0' = OutputReset(buf_0, int_addr_reg, FALSE)
    /\ buf_1' = OutputReset(buf_1, [last |-> int_wlast_wire,
                                    word |-> int_wdata_wire], FALSE)
    /\ written' = 0 /\ read' = 0
    /\ slave' = Nothing

Next == \/ \E tvalid, awready, wready \in BOOLEAN : Clock(tvalid, awready, wready)
        \/ Reset

\* The clock runs, and the slave never stops taking addresses, nor the data of
\* the addresses it has.  Nothing is assumed of the stream writer: only what
\* the edge does beyond the FIFO input is bound to happen.
Fairness ==
    /\ WF_drain(\E tvalid, wready \in BOOLEAN : Clock(tvalid, TRUE, wready))
    /\ WF_drain(\E tvalid, awready \in BOOLEAN : Clock(tvalid, awready, TRUE))

Spec == Init /\ [][Next]_vars /\ Fairness

-----------------------------------------------------------------------------
One(p) == IF p THEN 1 ELSE 0
LastBuffered == buf_1.valid /\ buf_1.data.last

\* Types and ranges; the FIFO count stays within the FIFO.
TypeOK ==
    /\ int_awvalid_reg \in BOOLEAN /\ int_wvalid_reg \in BOOLEAN
    /\ int_cntr_reg \in 0 .. B - 1
    /\ int_addr_reg \in 0 .. MaxAddr
    /\ buf_0 \in [valid : BOOLEAN, data : 0 .. MaxAddr]
    /\ buf_1 \in [valid : BOOLEAN, data : [last : BOOLEAN, word : 0 .. MaxWords]]
    /\ written \in 0 .. MaxWords /\ read \in 0 .. written
    /\ int_count_wire <= Depth
    /\ slave \in [open : Int, addr : 0 .. MaxAddr,
                  word : 0 .. MaxWords, beat : 0 .. B - 1]

\* The position the software reads is one slot past the last address handed
\* over, and the address on the port is the one the slave expects next: no
\* address of the ring is skipped or repeated, whatever the slave stalls.
AddressesInOrder ==
    /\ buf_0.valid => buf_0.data = NextSlot(slave.addr)
    /\ sts_data = NextSlot(IF buf_0.valid THEN buf_0.data ELSE slave.addr)
    /\ int_awvalid_reg => buf_0.valid

\* The beat on the port is the next word of the stream, and wlast is on
\* exactly the B-th beat of a burst; the counter agrees with the slave.
BeatsInOrder ==
    /\ buf_1.valid => /\ buf_1.data.word = slave.word + 1
                      /\ buf_1.data.last <=> slave.beat = B - 1
    /\ read = slave.word + One(buf_1.valid)
    /\ int_cntr_reg = IF buf_1.valid THEN NextBeat(slave.beat) ELSE slave.beat

\* A burst once started never runs dry: the FIFO holds all of its words.
BurstCovered == IF int_wvalid_reg THEN int_count_wire >= B - int_cntr_reg
                                  ELSE int_cntr_reg = 0

\* Every burst begun has one address, sent, waiting or still to be handed over.
OneAddressPerBurst ==
    slave.open + One(buf_0.valid) + One(int_awvalid_reg)
        = One(int_wvalid_reg) + One(LastBuffered)

\* Address and data channel, which no signal ties together, agree for every
\* order in which the slave takes them: the k-th address belongs to the k-th
\* burst, and the burst is complete, in order and marked at its end.
BurstsWhole == /\ TypeOK /\ AddressesInOrder /\ OneAddressPerBurst
               /\ BeatsInOrder /\ BurstCovered

\* The slave is at most Ahead beats ahead.  With 2 * B - 1 it could take all of
\* two bursts before the address of the first; then a third burst begins while
\* int_awvalid_reg still stands for the second, and an address is lost.
LeadBound == Lead <= Ahead

\* The position leads the data in memory: of the bursts before it, at most two
\* are not completely with the slave.  Software that copies up to sts_data
\* without waiting reads up to two slots of older data.
PositionLead == slave.open + One(buf_0.valid) \in -1 .. 2

\* The core implements the burst stream (refinement).
Stream == INSTANCE BurstStream
            WITH open <- slave.open, addr <- slave.addr,
                 word <- slave.word, beat <- slave.beat
StreamSpec == Stream!Spec

\* Words that fill a burst reach memory; only a last, partial burst may wait
\* for ever in the FIFO.
BurstsDrain ==
    \A k \in 1 .. MaxWords \div B :
        written >= k * B ~> (slave.word >= k * B \/ written < k * B)
=============================================================================
