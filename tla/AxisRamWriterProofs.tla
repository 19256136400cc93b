------------------------ MODULE AxisRamWriterProofs ------------------------
(* The stream writer keeps the words and the addresses of a recording in    *)
(* step, for every burst length, FIFO depth, ring size and stream length,   *)
(* and for every slave that takes at most 2 * B - 2 beats ahead of their    *)
(* address.                                                                 *)
EXTENDS AxisRamWriter, TLAPS

IInv == /\ TypeOK
        /\ AddressesInOrder
        /\ BeatsInOrder
        /\ BurstCovered
        /\ OneAddressPerBurst
        /\ LeadBound

\* The one product in the model: what Lead is for the few values that
\* slave.open can take.
LEMMA LeadFacts ==
    ASSUME TypeOK, LeadBound, slave.open <= 2
    PROVE  /\ slave.open >= -1
           /\ slave.open = -1 => slave.beat < B - 1
<1> DEFINE o == slave.open
           n == slave.beat
<1>1. B \in Nat /\ B >= 2 /\ o \in Int /\ n \in 0 .. B - 1
  BY WriterAssumption DEF TypeOK
<1>2. n - B * o <= 2 * B - 2
  BY <1>1, WriterAssumption DEF LeadBound, Lead, TypeOK
<1>3. o >= -1
  <2>1. SUFFICES ASSUME o <= -2 PROVE FALSE
    BY <1>1
  <2>2. B * (-2 - o) >= 0
    BY <1>1, <2>1
  <2> QED
    BY <1>1, <1>2, <2>2
<1>4. o = -1 => n < B - 1
  BY <1>1, <1>2
<1> QED
  BY <1>3, <1>4

\* A burst begins only after the address of the one before has been handed
\* over: otherwise the slave would have run 2 * B - 1 beats ahead.
LEMMA AddressHandedOver ==
    ASSUME IInv, int_valid_wire
    PROVE  ~int_awvalid_reg
<1>1. SUFFICES ASSUME int_awvalid_reg PROVE FALSE
  OBVIOUS
<1>2. ~int_wvalid_reg /\ buf_0.valid
  BY <1>1 DEF int_valid_wire, IInv, AddressesInOrder
<1>3. slave.open + 2 = One(LastBuffered) /\ slave.open \in Int
  BY <1>1, <1>2 DEF IInv, OneAddressPerBurst, One, TypeOK
<1>4. LastBuffered => slave.beat = B - 1
  BY DEF LastBuffered, IInv, BeatsInOrder
<1>5. slave.open <= -1
  BY <1>3 DEF One
<1>6. slave.open = -1 /\ slave.beat < B - 1
  BY <1>3, <1>5, LeadFacts DEF IInv
<1>7. ~LastBuffered
  BY <1>4, <1>6, WriterAssumption DEF IInv, TypeOK
<1> QED
  BY <1>3, <1>6, <1>7 DEF One

LEMMA InitIInv == Init => IInv
<1> SUFFICES ASSUME Init PROVE IInv
  OBVIOUS
<1> USE WriterAssumption DEF Init, Empty, NoBeat, Junk, Nothing
<1>1. TypeOK
  <2>1. int_awvalid_reg \in BOOLEAN /\ int_wvalid_reg \in BOOLEAN
    OBVIOUS
  <2>2. /\ buf_0 \in [valid : BOOLEAN, data : 0 .. MaxAddr]
        /\ buf_1 \in [valid : BOOLEAN,
                      data : [last : BOOLEAN, word : 0 .. MaxWords]]
    OBVIOUS
  <2>3. slave \in [open : Int, addr : 0 .. MaxAddr,
                   word : 0 .. MaxWords, beat : 0 .. B - 1]
    OBVIOUS
  <2>4. /\ int_cntr_reg \in 0 .. B - 1 /\ int_addr_reg \in 0 .. MaxAddr
        /\ written \in 0 .. MaxWords /\ read \in 0 .. written
        /\ int_count_wire <= Depth
    BY DEF int_count_wire
  <2> QED
    BY <2>1, <2>2, <2>3, <2>4 DEF TypeOK
<1>2. AddressesInOrder /\ BeatsInOrder /\ BurstCovered
  BY DEF AddressesInOrder, BeatsInOrder, BurstCovered, sts_data, NextSlot, One
<1>3. OneAddressPerBurst
  BY DEF OneAddressPerBurst, One, LastBuffered
<1>4. LeadBound
  BY DEF LeadBound, Lead
<1> QED
  BY <1>1, <1>2, <1>3, <1>4 DEF IInv

-----------------------------------------------------------------------------
\* The registers after a clock edge, the wires between the parts expanded.

LEMMA ClockStep ==
    ASSUME IInv, NEW tvalid \in BOOLEAN, NEW awready \in BOOLEAN,
           NEW wready \in BOOLEAN, Clock(tvalid, awready, wready)
    PROVE  LET sent == int_awvalid_wire /\ (~buf_0.valid \/ awready)
               rden == int_wvalid_wire /\ (~buf_1.valid \/ wready)
               aw == buf_0.valid /\ awready
               w == buf_1.valid /\ wready
               last == w /\ buf_1.data.last
           IN  /\ int_awvalid_reg' <=> int_awvalid_wire /\ ~sent
               /\ int_addr_reg' = IF sent THEN NextSlot(int_addr_reg)
                                          ELSE int_addr_reg
               /\ buf_0'.valid <=> int_awvalid_wire \/ (buf_0.valid /\ ~awready)
               /\ sent => buf_0'.data = int_addr_reg
               /\ buf_0.valid /\ ~awready => buf_0'.data = buf_0.data
               /\ int_wvalid_reg' <=> int_wvalid_wire /\ ~(rden /\ int_wlast_wire)
               /\ int_cntr_reg' = IF rden THEN NextBeat(int_cntr_reg)
                                          ELSE int_cntr_reg
               /\ read' = IF rden THEN read + 1 ELSE read
               /\ buf_1'.valid <=> int_wvalid_wire \/ (buf_1.valid /\ ~wready)
               /\ rden => /\ buf_1'.data.word = read + 1
                          /\ buf_1'.data.last <=> int_wlast_wire
               /\ buf_1.valid /\ ~wready => buf_1'.data = buf_1.data
               /\ slave'.open = slave.open + One(aw) - One(last)
               /\ slave'.addr = IF aw THEN buf_0.data ELSE slave.addr
               /\ slave'.word = IF w THEN buf_1.data.word ELSE slave.word
               /\ slave'.beat = IF last THEN 0 ELSE slave.beat + One(w)
<1> DEFINE aready == ~buf_0.valid \/ awready
           dready == ~buf_1.valid \/ wready
<1>1. int_wvalid_wire => int_count_wire > 0 /\ int_wdata_wire = read + 1
  <2>1. int_wvalid_reg => int_count_wire > 0
    BY WriterAssumption DEF IInv, TypeOK, BurstCovered, int_count_wire
  <2>2. int_valid_wire => int_count_wire > 0
    BY WriterAssumption DEF IInv, TypeOK, int_valid_wire, int_count_wire
  <2> QED
    BY <2>1, <2>2 DEF int_wvalid_wire, int_wdata_wire
<1>2. int_wlast_wire => int_wvalid_wire
  BY WriterAssumption DEF IInv, BurstCovered, int_wlast_wire, int_wvalid_wire
<1>3. /\ int_awvalid_reg' <=> int_awvalid_wire /\ ~aready
      /\ int_addr_reg' = IF int_awvalid_wire /\ aready
                           THEN NextSlot(int_addr_reg) ELSE int_addr_reg
      /\ ~aready => buf_0' = buf_0
      /\ aready => buf_0' = [valid |-> int_awvalid_wire, data |-> int_addr_reg]
  BY DEF IInv, TypeOK, int_awvalid_wire, int_valid_wire, Clock, AddressEdge,
         OutputEdge, OutputLoad, OutputReady
<1>4. /\ int_wvalid_reg' <=> int_wvalid_wire /\ ~(dready /\ int_wlast_wire)
      /\ int_cntr_reg' = IF int_wvalid_wire /\ dready
                           THEN NextBeat(int_cntr_reg) ELSE int_cntr_reg
      /\ read' = IF int_wvalid_wire /\ dready THEN read + 1 ELSE read
      /\ ~dready => buf_1' = buf_1
      /\ dready => buf_1' = [valid |-> int_wvalid_wire,
                             data |-> [last |-> int_wlast_wire,
                                       word |-> int_wdata_wire]]
  BY <1>1 DEF IInv, TypeOK, int_wvalid_wire, int_valid_wire, int_wlast_wire,
              Clock, DataEdge, OutputEdge, OutputLoad, OutputReady
<1>5. /\ buf_0'.valid <=> int_awvalid_wire \/ (buf_0.valid /\ ~awready)
      /\ int_awvalid_wire /\ aready => buf_0'.data = int_addr_reg
      /\ buf_0.valid /\ ~awready => buf_0'.data = buf_0.data
  BY <1>3
<1>6. /\ int_wvalid_reg' <=> int_wvalid_wire
                              /\ ~(int_wvalid_wire /\ dready /\ int_wlast_wire)
      /\ buf_1'.valid <=> int_wvalid_wire \/ (buf_1.valid /\ ~wready)
      /\ buf_1.valid /\ ~wready => buf_1'.data = buf_1.data
  BY <1>2, <1>4
<1>7. int_wvalid_wire /\ dready => /\ buf_1'.data.word = read + 1
                                   /\ buf_1'.data.last <=> int_wlast_wire
  BY <1>1, <1>4
<1>8. LET aw == buf_0.valid /\ awready
          w == buf_1.valid /\ wready
          last == w /\ buf_1.data.last
      IN  /\ slave'.open = slave.open + One(aw) - One(last)
          /\ slave'.addr = IF aw THEN buf_0.data ELSE slave.addr
          /\ slave'.word = IF w THEN buf_1.data.word ELSE slave.word
          /\ slave'.beat = IF last THEN 0 ELSE slave.beat + One(w)
  BY DEF Clock, Take, One
<1> QED
  BY <1>3, <1>4, <1>5, <1>6, <1>7, <1>8

\* The strengthened invariant is inductive: the clock edge, conjunct by conjunct.
LEMMA ClockKeepsIInv ==
    ASSUME IInv, NEW tvalid \in BOOLEAN, NEW awready \in BOOLEAN,
           NEW wready \in BOOLEAN, Clock(tvalid, awready, wready)
    PROVE  IInv'
<1> DEFINE sent == int_awvalid_wire /\ (~buf_0.valid \/ awready)
           rden == int_wvalid_wire /\ (~buf_1.valid \/ wready)
           aw == buf_0.valid /\ awready
           w == buf_1.valid /\ wready
           last == w /\ buf_1.data.last
<1> USE WriterAssumption
<1>1. /\ B \in Nat /\ B >= 2 /\ MaxAddr \in Nat /\ MaxWords \in Nat
      /\ int_awvalid_reg \in BOOLEAN /\ int_wvalid_reg \in BOOLEAN
      /\ int_cntr_reg \in 0 .. B - 1 /\ int_addr_reg \in 0 .. MaxAddr
      /\ buf_0.valid \in BOOLEAN /\ buf_0.data \in 0 .. MaxAddr
      /\ buf_1.valid \in BOOLEAN /\ buf_1.data.last \in BOOLEAN
      /\ buf_1.data.word \in 0 .. MaxWords
      /\ written \in 0 .. MaxWords /\ read \in 0 .. written
      /\ slave.open \in Int /\ slave.addr \in 0 .. MaxAddr
      /\ slave.word \in 0 .. MaxWords /\ slave.beat \in 0 .. B - 1
  BY DEF IInv, TypeOK
<1>2. /\ int_awvalid_reg' <=> int_awvalid_wire /\ ~sent
      /\ int_addr_reg' = IF sent THEN NextSlot(int_addr_reg) ELSE int_addr_reg
      /\ buf_0'.valid <=> int_awvalid_wire \/ (buf_0.valid /\ ~awready)
      /\ sent => buf_0'.data = int_addr_reg
      /\ buf_0.valid /\ ~awready => buf_0'.data = buf_0.data
      /\ slave'.addr = IF aw THEN buf_0.data ELSE slave.addr
  BY ClockStep
<1>3. /\ int_wvalid_reg' <=> int_wvalid_wire /\ ~(rden /\ int_wlast_wire)
      /\ int_cntr_reg' = IF rden THEN NextBeat(int_cntr_reg) ELSE int_cntr_reg
      /\ read' = IF rden THEN read + 1 ELSE read
      /\ buf_1'.valid <=> int_wvalid_wire \/ (buf_1.valid /\ ~wready)
      /\ rden => /\ buf_1'.data.word = read + 1
                 /\ buf_1'.data.last <=> int_wlast_wire
      /\ buf_1.valid /\ ~wready => buf_1'.data = buf_1.data
      /\ slave'.word = IF w THEN buf_1.data.word ELSE slave.word
      /\ slave'.beat = IF last THEN 0 ELSE slave.beat + One(w)
  BY ClockStep
<1>4. slave'.open = slave.open + One(aw) - One(last)
  BY ClockStep
<1>5. /\ tvalid => written < MaxWords
      /\ w => Lead < Ahead
      /\ written' = IF tvalid /\ int_count_wire # Depth
                      THEN written + 1 ELSE written
  BY DEF Clock, s_axis_tready, int_full_wire
<1>6. AddressesInOrder'
  BY <1>1, <1>2 DEF IInv, AddressesInOrder, sts_data, int_awvalid_wire
<1>7. BeatsInOrder'
  BY <1>1, <1>3 DEF IInv, BeatsInOrder, BurstCovered, int_wlast_wire,
                    int_wvalid_wire, NextBeat, One
<1>8. BurstCovered'
  BY <1>1, <1>3, <1>5 DEF IInv, TypeOK, BurstCovered, int_count_wire,
                    int_wlast_wire, int_wvalid_wire, int_valid_wire, NextBeat
<1>9. OneAddressPerBurst'
  <2>1. One(buf_0'.valid) + One(int_awvalid_reg') + One(aw)
          = One(buf_0.valid) + One(int_awvalid_wire)
    BY <1>1, <1>2 DEF One
  <2>2. One(int_wvalid_reg') + One(LastBuffered') + One(last)
          = One(int_wvalid_wire) + One(LastBuffered)
    BY <1>1, <1>3 DEF One, LastBuffered
  <2>3. One(int_awvalid_wire) - One(int_awvalid_reg)
          = One(int_wvalid_wire) - One(int_wvalid_reg)
    BY <1>1, AddressHandedOver
       DEF One, int_awvalid_wire, int_wvalid_wire, int_valid_wire
  <2>4. slave.open + One(buf_0.valid) + One(int_awvalid_reg)
          = One(int_wvalid_reg) + One(LastBuffered)
    BY DEF IInv, OneAddressPerBurst
  <2>5. slave'.open + One(buf_0'.valid) + One(int_awvalid_reg')
          = One(int_wvalid_reg') + One(LastBuffered')
    BY <1>1, <1>4, <2>1, <2>2, <2>3, <2>4 DEF One
  <2> QED
    BY <2>5 DEF OneAddressPerBurst, One, LastBuffered
<1>10. LeadBound'
  BY <1>1, <1>3, <1>4, <1>5 DEF IInv, LeadBound, Lead, BeatsInOrder, One
<1>11. TypeOK'
  <2>1. /\ int_cntr_reg' \in 0 .. B - 1
        /\ int_addr_reg' \in 0 .. MaxAddr
    BY <1>1, <1>2, <1>3 DEF NextBeat, NextSlot
  <2>2. rden => read < written
    BY <1>1 DEF IInv, BurstCovered, int_wvalid_wire, int_valid_wire, int_count_wire
  <2>3. /\ written' \in 0 .. MaxWords /\ read' \in 0 .. written'
        /\ int_count_wire' <= Depth
    BY <1>1, <1>3, <1>5, <2>2 DEF int_count_wire, IInv, TypeOK
  <2>4. /\ int_awvalid_reg' \in BOOLEAN /\ int_wvalid_reg' \in BOOLEAN
    BY DEF Clock, AddressEdge, DataEdge
  <2>5. buf_0' \in [valid : BOOLEAN, data : 0 .. MaxAddr]
    BY <1>1 DEF Clock, AddressEdge, OutputEdge, OutputLoad, int_awvalid_wire,
                int_valid_wire, IInv, TypeOK
  <2>6. int_wdata_wire \in 0 .. MaxWords
    BY <1>1 DEF int_wdata_wire, int_count_wire, Junk
  <2>7. buf_1' \in [valid : BOOLEAN,
                    data : [last : BOOLEAN, word : 0 .. MaxWords]]
    BY <1>1, <2>6
       DEF Clock, DataEdge, OutputEdge, OutputLoad, int_wvalid_wire,
           int_valid_wire, int_wlast_wire, IInv, TypeOK
  <2>8. /\ slave'.open \in Int /\ slave'.addr \in 0 .. MaxAddr
        /\ slave'.word \in 0 .. MaxWords /\ slave'.beat \in 0 .. B - 1
    BY <1>1, <1>2, <1>3, <1>4 DEF IInv, BeatsInOrder, One
  <2>9. slave' = [open |-> slave'.open, addr |-> slave'.addr,
                  word |-> slave'.word, beat |-> slave'.beat]
    BY DEF Clock, Take
  <2> QED
    BY <2>1, <2>3, <2>4, <2>5, <2>7, <2>8, <2>9 DEF TypeOK
<1> QED
  BY <1>6, <1>7, <1>8, <1>9, <1>10, <1>11 DEF IInv

LEMMA ResetKeepsIInv ==
    ASSUME IInv, Reset
    PROVE  IInv'
<1> USE WriterAssumption
<1>1. /\ ~int_awvalid_reg' /\ ~int_wvalid_reg'
      /\ int_cntr_reg' = 0 /\ int_addr_reg' = 0
      /\ ~buf_0'.valid /\ ~buf_1'.valid
      /\ written' = 0 /\ read' = 0
      /\ slave' = [open |-> 0, addr |-> MaxAddr, word |-> 0, beat |-> 0]
  BY DEF Reset, OutputReset, Nothing
<1>2. TypeOK'
  <2>1. int_awvalid_reg' \in BOOLEAN /\ int_wvalid_reg' \in BOOLEAN
    BY DEF Reset
  <2>2. buf_0' \in [valid : BOOLEAN, data : 0 .. MaxAddr]
    BY DEF Reset, OutputReset, OutputLoad, IInv, TypeOK
  <2>3. int_wdata_wire \in 0 .. MaxWords
    BY DEF int_wdata_wire, int_count_wire, Junk, IInv, TypeOK
  <2>4. buf_1' \in [valid : BOOLEAN,
                    data : [last : BOOLEAN, word : 0 .. MaxWords]]
    BY <2>3 DEF Reset, OutputReset, OutputLoad, int_wlast_wire, IInv, TypeOK
  <2> QED
    BY <1>1, <2>1, <2>2, <2>4 DEF TypeOK, int_count_wire
<1>3. AddressesInOrder' /\ BeatsInOrder' /\ BurstCovered'
  BY <1>1 DEF AddressesInOrder, BeatsInOrder, BurstCovered, sts_data, NextSlot,
              One
<1>4. OneAddressPerBurst'
  BY <1>1 DEF OneAddressPerBurst, LastBuffered, One
<1>5. LeadBound'
  BY <1>1 DEF LeadBound, Lead
<1> QED
  BY <1>2, <1>3, <1>4, <1>5 DEF IInv

-----------------------------------------------------------------------------
\* Addresses, beats, FIFO and slave stay in step whatever the slave stalls:
\* the strengthened invariant of the core.
THEOREM IInvTheorem == Spec => []IInv
<1>1. IInv /\ [Next]_vars => IInv'
  <2> SUFFICES ASSUME IInv, [Next]_vars PROVE IInv'
    OBVIOUS
  <2>1. ASSUME NEW tvalid \in BOOLEAN, NEW awready \in BOOLEAN,
               NEW wready \in BOOLEAN, Clock(tvalid, awready, wready)
        PROVE  IInv'
    BY <2>1, ClockKeepsIInv
  <2>2. CASE Reset
    BY <2>2, ResetKeepsIInv
  <2>3. CASE UNCHANGED vars
    BY <2>3 DEF vars, IInv, TypeOK, AddressesInOrder, BeatsInOrder, BurstCovered,
                OneAddressPerBurst, LeadBound, Lead, LastBuffered, sts_data,
                int_count_wire
  <2> QED
    BY <2>1, <2>2, <2>3 DEF Next
<1> QED
  BY <1>1, InitIInv, PTL DEF Spec

\* Types and ranges hold of every behaviour of the core.
THEOREM TypeTheorem == Spec => []TypeOK
<1>1. IInv => TypeOK
  BY DEF IInv
<1> QED
  BY <1>1, IInvTheorem, PTL

\* No address of the ring is skipped or repeated: the register int_awvalid_reg
\* never has to remember two addresses.
THEOREM AddressTheorem == Spec => [](AddressesInOrder /\ OneAddressPerBurst)
<1>1. IInv => AddressesInOrder /\ OneAddressPerBurst
  BY DEF IInv
<1> QED
  BY <1>1, IInvTheorem, PTL

\* The words reach the port in order, wlast on every B-th, and a burst once
\* begun never waits for the stream writer.
THEOREM BeatTheorem == Spec => [](BeatsInOrder /\ BurstCovered)
<1>1. IInv => BeatsInOrder /\ BurstCovered
  BY DEF IInv
<1> QED
  BY <1>1, IInvTheorem, PTL

\* However the slave delays the one channel against the other, addresses and
\* bursts pair off, and every burst is complete, in order and marked.
THEOREM BurstsTheorem == Spec => []BurstsWhole
<1>1. IInv => BurstsWhole
  BY DEF IInv, BurstsWhole
<1> QED
  BY <1>1, IInvTheorem, PTL

OpenBound == slave.open \in -1 .. 2

LEMMA IInvBoundsLead == IInv => PositionLead /\ OpenBound
<1> SUFFICES ASSUME IInv PROVE PositionLead /\ OpenBound
  OBVIOUS
<1>1. slave.open \in Int /\ slave.open + One(buf_0.valid) <= 2
  BY DEF IInv, OneAddressPerBurst, One, TypeOK
<1>2. slave.open <= 2
  BY <1>1 DEF One
<1>3. slave.open >= -1
  BY <1>2, LeadFacts DEF IInv
<1> QED
  BY <1>1, <1>2, <1>3 DEF PositionLead, OpenBound, One

\* The position sts_data is at most two bursts ahead of the data the slave has.
THEOREM LeadTheorem == Spec => []PositionLead
<1>1. IInv => PositionLead
  BY IInvBoundsLead
<1> QED
  BY <1>1, IInvTheorem, PTL

\* The core implements the burst stream: each step on the port takes the next
\* slot of the ring, the next word of the recording, both or neither.
THEOREM StreamTheorem == Spec => StreamSpec
<1>1. Init => Stream!Init
  BY DEF Init, Stream!Init, Nothing
<1>2. IInv /\ OpenBound' /\ [Next]_vars => [Stream!Next]_(Stream!vars)
  <2> SUFFICES ASSUME IInv, OpenBound', [Next]_vars
               PROVE  [Stream!Next]_(Stream!vars)
    OBVIOUS
  <2> USE DEF Stream!Next, Stream!vars
  <2>1. slave'.open \in -1 .. 2
    BY DEF OpenBound
  <2>2. ASSUME NEW tvalid \in BOOLEAN, NEW awready \in BOOLEAN,
               NEW wready \in BOOLEAN, Clock(tvalid, awready, wready)
        PROVE  [Stream!Next]_(Stream!vars)
    <3> DEFINE aw == buf_0.valid /\ awready
               w == buf_1.valid /\ wready
               last == w /\ buf_1.data.last
    <3>1. /\ slave'.open = slave.open + One(aw) - One(last)
          /\ slave'.addr = IF aw THEN buf_0.data ELSE slave.addr
          /\ slave'.word = IF w THEN buf_1.data.word ELSE slave.word
          /\ slave'.beat = IF last THEN 0 ELSE slave.beat + One(w)
      BY <2>2, ClockStep
    <3>2. /\ aw => slave'.addr = Stream!NextSlot(slave.addr)
          /\ ~aw => slave'.addr = slave.addr
      BY <3>1 DEF IInv, AddressesInOrder, NextSlot, Stream!NextSlot
    <3>3. /\ slave.open \in Int /\ slave.beat \in 0 .. B - 1 /\ B \in Nat
          /\ slave.word \in Nat
      BY WriterAssumption DEF IInv, TypeOK
    <3>4. w => /\ slave'.word = slave.word + 1
               /\ last <=> Stream!Last
               /\ slave'.beat = IF Stream!Last THEN 0 ELSE slave.beat + 1
      BY <3>1, <3>3 DEF IInv, BeatsInOrder, Stream!Last, One
    <3>5. ~w => slave'.word = slave.word /\ slave'.beat = slave.beat
      BY <3>1, <3>3 DEF One
    <3>6. slave'.open = IF aw THEN IF last THEN slave.open ELSE slave.open + 1
                              ELSE IF last THEN slave.open - 1 ELSE slave.open
      BY <3>1, <3>3 DEF One
    <3> QED
      BY <2>1, <3>2, <3>4, <3>5, <3>6
         DEF Stream!Address, Stream!Data, Stream!Both, Stream!TakeAddress,
             Stream!KeepAddress, Stream!TakeBeat, Stream!KeepBeat
  <2>3. CASE Reset
    BY <2>1, <2>3 DEF Reset, Nothing, Stream!Restart
  <2>4. CASE UNCHANGED vars
    BY <2>4 DEF vars
  <2> QED
    BY <2>2, <2>3, <2>4 DEF Next
<1> QED
  BY <1>1, <1>2, IInvTheorem, IInvBoundsLead, PTL
     DEF Spec, StreamSpec, Stream!Spec
=============================================================================
