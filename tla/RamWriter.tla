----------------------------- MODULE RamWriter -----------------------------
(* cores/ram_writer.v: the switcheck variant of axis_ram_writer.  The words *)
(* of the stream are half as wide as the beats (Ratio words in a beat), the *)
(* stream is cut into series whose last word carries tlast, and a burst may *)
(* be shorter than B beats so that the end of a series need not wait for    *)
(* more words: AWLEN is chosen when the address is handed over.  One step   *)
(* is one rising edge of aclk; a word is its serial number.                 *)
(*                                                                          *)
(* Around the core: the stream writer offers series with lengths from       *)
(* Series and never looks at tready (m_axis of cores/adc.v has none): a     *)
(* word that meets a full FIFO is lost, its tlast is not.  The AXI slave    *)
(* takes addresses when it likes and data only for an address it has; the   *)
(* FIFO is exact.  Reset is taken between bursts.                           *)
(*                                                                          *)
(* The core keeps bursts and series apart only as long as the words it took *)
(* fill whole bursts at every tlast.  A series that lost words, or that was *)
(* never a number of bursts, ends "ragged": the core then sends a short     *)
(* burst of one beat more than the FIFO has, and as the counter of beats is *)
(* not 0 after it and not restarted by an address that goes with its first  *)
(* beat, WLAST of the next burst need not come where AWLEN says.  Each      *)
(* property says what it promises beyond a ragged end.                      *)
EXTENDS Integers, SequencesExt, StreamBuffers

CONSTANTS B,          \* BURST_BEATS
          Ratio,      \* AXI_DATA_WIDTH / AXIS_TDATA_WIDTH
          Depth,      \* words the FIFO holds
          MaxAddr,    \* cfg_data: the last slot of the ring
          Series,     \* lengths of the series, in words
          MaxWords    \* bound: words taken between two resets

ASSUME RamWriterAssumption ==
    /\ B \in Nat /\ B >= 2 /\ Ratio \in Nat \ {0}
    /\ Depth \in Nat /\ Depth > B * Ratio
    /\ MaxAddr \in Nat /\ MaxWords \in Nat
    /\ Series \subseteq Nat \ {0}

VARIABLES
    int_awvalid_reg, int_wvalid_reg, int_cntr_reg, int_addr_reg,
    tlast_pending_reg, awlen_reg,
    buf_0,            \* output_buffer of the address: [valid, data]
    buf_1,            \* output_buffer of the data, data = [last, words]
    fifo,             \* the words in the FIFO, oldest first
    source,           \* the stream writer, see Offer
    slave             \* what the slave took: [lens, addr, beat, beats, word]

drain == <<int_awvalid_reg, int_wvalid_reg, int_cntr_reg, int_addr_reg,
           awlen_reg, buf_0, buf_1, slave>>
vars == <<int_awvalid_reg, int_wvalid_reg, int_cntr_reg, int_addr_reg,
          tlast_pending_reg, awlen_reg, buf_0, buf_1, fifo, source, slave>>

Junk == <<>>          \* what an empty FIFO shows
MAX_AWLEN == B - 1

-----------------------------------------------------------------------------
\* The wires, as functions of the registers.

int_count_wire == Len(fifo) \div Ratio
int_full_wire == Len(fifo) = Depth
int_wdata_wire == IF int_count_wire > 0 THEN SubSeq(fifo, 1, Ratio) ELSE Junk

\* (the slip of starting one word short of a beat early)
Hasty_int_valid_wire ==
    /\ int_count_wire >= B - 1 \/ (tlast_pending_reg /\ int_count_wire > 0)
    /\ ~int_wvalid_reg

\* (the slip of waiting for one beat more than a burst needs)
Strict_int_valid_wire ==
    /\ int_count_wire > B \/ (tlast_pending_reg /\ int_count_wire > B)
    /\ ~int_wvalid_reg

int_valid_wire ==
    /\ int_count_wire >= B \/ (tlast_pending_reg /\ int_count_wire > 0)
    /\ ~int_wvalid_reg
int_awvalid_wire == int_valid_wire \/ int_awvalid_reg
int_wvalid_wire == int_valid_wire \/ int_wvalid_reg

int_wlast_wire == int_cntr_reg = awlen_reg
s_axis_tready == ~int_full_wire

\* (the slip of a ring one slot too short)
Short_NextSlot(a) == IF a + 1 < MaxAddr THEN a + 1 ELSE 0

NextSlot(a) == IF a < MaxAddr THEN a + 1 ELSE 0

\* The counter of log2(B) bits; the low bits of the count, for AWLEN.
NextBeat(n) == (n + 1) % B

Awlen == IF int_count_wire >= B THEN MAX_AWLEN ELSE int_count_wire

-----------------------------------------------------------------------------
\* The neighbours.

\* The stream once one more word has been offered, in a series of n words:
\* word is the serial of the last word the FIFO took, left the words the
\* series still has to come, tail the serial of the last word taken of an
\* ended series.  lost and ragged are history: has a word met a full FIFO, has
\* a series ended with words that do not fill their burst, since the reset?
Offer(n) ==
    LET word == source.word + (IF s_axis_tready THEN 1 ELSE 0)
        left == (IF source.left = 0 THEN n ELSE source.left) - 1
    IN  [word |-> word, left |-> left,
         tail |-> IF left = 0 THEN word ELSE source.tail,
         lost |-> source.lost \/ ~s_axis_tready,
         ragged |-> source.ragged
                      \/ (left = 0 /\ word % (B * Ratio) # 0)]

NoSeries == [word |-> 0, left |-> 0, tail |-> 0, lost |-> FALSE, ragged |-> FALSE]

Take(aw, w) ==
    LET last == w /\ buf_1.data.last
        lens == IF aw THEN Append(slave.lens, awlen_reg + 1) ELSE slave.lens
    IN  [lens |-> IF last THEN Tail(lens) ELSE lens,
         addr |-> IF aw THEN buf_0.data ELSE slave.addr,
         beat |-> IF last THEN 0 ELSE slave.beat + (IF w THEN 1 ELSE 0),
         beats |-> slave.beats + (IF w THEN 1 ELSE 0),
         word |-> IF w /\ buf_1.data.words # Junk
                    THEN Last(buf_1.data.words) ELSE slave.word]

Nothing == [lens |-> <<>>, addr |-> MaxAddr, beat |-> 0, beats |-> 0, word |-> 0]

-----------------------------------------------------------------------------
Init == /\ int_awvalid_reg = FALSE /\ int_wvalid_reg = FALSE
        /\ int_cntr_reg = 0 /\ int_addr_reg = 0
        /\ tlast_pending_reg = FALSE /\ awlen_reg = MAX_AWLEN
        /\ buf_0 = [valid |-> FALSE, data |-> 0]
        /\ buf_1 = [valid |-> FALSE, data |-> [last |-> FALSE, words |-> Junk]]
        /\ fifo = <<>>
        /\ source = NoSeries
        /\ slave = Nothing

\* The address half of the edge: with the slot go the end of the series and
\* the length of the burst.  tlast is s_axis_tvalid & s_axis_tlast.
AddressEdge(awready, tlast) ==
    LET int_awready_wire == OutputReady(buf_0, awready)
        sent == int_awvalid_wire /\ int_awready_wire
    IN  /\ int_awvalid_reg' = (int_awvalid_wire /\ ~sent)
        /\ int_addr_reg' = IF sent THEN NextSlot(int_addr_reg) ELSE int_addr_reg
        /\ tlast_pending_reg' = ((tlast_pending_reg \/ tlast) /\ ~sent)
        /\ awlen_reg' = IF sent THEN Awlen ELSE awlen_reg
        /\ buf_0' = OutputEdge(buf_0, int_awvalid_wire, int_addr_reg, awready)

\* The data half; handing an address over restarts the beat counter, unless a
\* beat goes at the same edge.
DataEdge(awready, wready) ==
    LET int_wready_wire == OutputReady(buf_1, wready)
        int_rden_wire == int_wvalid_wire /\ int_wready_wire
        sent == int_awvalid_wire /\ OutputReady(buf_0, awready)
    IN  /\ int_cntr_reg' = IF int_rden_wire THEN NextBeat(int_cntr_reg)
                           ELSE IF sent THEN 0 ELSE int_cntr_reg
        /\ int_wvalid_reg' = (int_wvalid_wire
                                /\ ~(int_wready_wire /\ int_wlast_wire))
        /\ buf_1' = OutputEdge(buf_1, int_wvalid_wire,
                        [last |-> int_wlast_wire, words |-> int_wdata_wire], wready)

\* (the slip of leaving the word just read at the head of the FIFO)
Replaying_FifoEdge(tvalid, wready) ==
    LET rden == int_wvalid_wire /\ OutputReady(buf_1, wready)
        in == IF tvalid /\ s_axis_tready THEN <<source.word + 1>> ELSE <<>>
    IN  fifo' = (IF rden /\ int_count_wire > 0 /\ Len(fifo) > Ratio
                   THEN SubSeq(fifo, Ratio + 1, Len(fifo)) ELSE fifo) \o in

\* The FIFO: one word in unless it is full, one beat out unless it is empty.
FifoEdge(tvalid, wready) ==
    LET rden == int_wvalid_wire /\ OutputReady(buf_1, wready)
        in == IF tvalid /\ s_axis_tready THEN <<source.word + 1>> ELSE <<>>
    IN  fifo' = (IF rden /\ int_count_wire > 0
                   THEN SubSeq(fifo, Ratio + 1, Len(fifo)) ELSE fifo) \o in

\* A clock edge with aresetn high; a new series, if one begins, has n words.
Clock(tvalid, n, awready, wready) ==
    /\ tvalid => source.word < MaxWords
    /\ buf_1.valid /\ wready => slave.lens # <<>>
    /\ source' = IF tvalid THEN Offer(n) ELSE source
    /\ AddressEdge(awready, tvalid /\ Offer(n).left = 0)
    /\ DataEdge(awready, wready)
    /\ FifoEdge(tvalid, wready)
    /\ slave' = Take(buf_0.valid /\ awready, buf_1.valid /\ wready)

\* Between bursts.
Quiet == /\ ~int_awvalid_reg /\ ~int_wvalid_reg
         /\ ~buf_0.valid /\ ~buf_1.valid
         /\ slave.lens = <<>> /\ slave.beat = 0

\* A clock edge with aresetn low, the neighbours starting again with it.
Reset ==
    /\ Quiet
    /\ int_awvalid_reg' = FALSE /\ int_wvalid_reg' = FALSE
    /\ int_cntr_reg' = 0 /\ int_addr_reg' = 0
    /\ tlast_pending_reg' = FALSE /\ awlen_reg' = MAX_AWLEN
    /\ buf_0' = OutputReset(buf_0, int_addr_reg, FALSE)
    /\ buf_1' = OutputReset(buf_1, [last |-> int_wlast_wire,
                                    words |-> int_wdata_wire], FALSE)
    /\ fifo' = <<>>
    /\ source' = NoSeries
    /\ slave' = Nothing

Next == \/ \E tvalid, awready, wready \in BOOLEAN : \E n \in Series :
              Clock(tvalid, n, awready, wready)
        \/ Reset

\* The clock runs, and the slave never stops taking addresses, nor the data of
\* the addresses it has; nothing is assumed of the stream writer.
Fairness ==
    /\ WF_drain(\E tvalid, wready \in BOOLEAN : \E n \in Series :
                    Clock(tvalid, n, TRUE, wready))
    /\ WF_drain(\E tvalid, awready \in BOOLEAN : \E n \in Series :
                    Clock(tvalid, n, awready, TRUE))

Spec == Init /\ [][Next]_vars /\ Fairness

-----------------------------------------------------------------------------
\* Types; the FIFO holds at most Depth words, each taken and none twice.
TypeOK ==
    /\ int_awvalid_reg \in BOOLEAN /\ int_wvalid_reg \in BOOLEAN
    /\ tlast_pending_reg \in BOOLEAN
    /\ int_cntr_reg \in 0 .. B - 1 /\ awlen_reg \in 0 .. B - 1
    /\ int_addr_reg \in 0 .. MaxAddr
    /\ buf_0 \in [valid : BOOLEAN, data : 0 .. MaxAddr]
    /\ buf_1.valid \in BOOLEAN /\ buf_1.data.last \in BOOLEAN
    /\ buf_1.data.words = Junk \/ Len(buf_1.data.words) = Ratio
    /\ Len(fifo) <= Depth
    /\ \A i \in DOMAIN fifo : fifo[i] \in 1 .. source.word
    /\ source.word \in 0 .. MaxWords

\* Words on their way, oldest first: behind the last one the slave took come
\* the beat on the port and then the FIFO.
OnTheWay == (IF buf_1.valid THEN buf_1.data.words ELSE <<>>) \o fifo

\* Memory receives every word the FIFO took, in the order they came, none
\* twice and none left out: whatever the stalls, the words lost before the
\* FIFO and the length of the bursts.
NothingLost ==
    LET way == <<slave.word>> \o OnTheWay \o <<source.word + 1>>
    IN  \A i \in 1 .. Len(way) - 1 : way[i + 1] = way[i] + 1

\* Until a series ends ragged, every beat carries words; at the end of a
\* ragged one the short burst has a beat that the FIFO does not fill.
NoJunk == buf_1.valid /\ ~source.ragged => buf_1.data.words # Junk

\* The words of the stream go from tready to memory as the FIFO's depth and
\* the two counters allow: bounded, in order, complete, and nothing between
\* them unless a series that lost words had its last burst cut short.
WordsKept == TypeOK /\ NothingLost /\ NoJunk

\* WLAST comes with exactly the beat that the AWLEN of the burst announced.
LengthAsAnnounced ==
    buf_1.valid /\ slave.lens # <<>> =>
        (buf_1.data.last <=> slave.beat + 1 = Head(slave.lens))

\* The end of a series is pending only while a whole number of full bursts is
\* left in the FIFO or coming: the short-burst path is never taken, and every
\* burst has B beats.
OnlyFullBursts ==
    /\ \A i \in DOMAIN slave.lens : slave.lens[i] = B
    /\ tlast_pending_reg /\ ~int_wvalid_reg => int_count_wire >= B

\* What the slave was told of a burst and what it gets of it agree, and no
\* burst is cut short, until a series has ended with words that do not fill
\* their burst: words lost at a full FIFO are survived up to the tlast of
\* their series.
BurstsWhole == source.ragged \/ (LengthAsAnnounced /\ OnlyFullBursts)

\* Up to a ragged end the core implements the burst stream that
\* axis_ram_writer implements (refinement; a beat is a word there), and a
\* reset puts it back there.
Stream == INSTANCE BurstStream
            WITH open <- Len(slave.lens), addr <- slave.addr,
                 word <- slave.beats, beat <- slave.beat
StreamSpec ==
    Stream!Init /\ [][Stream!Next \/ (source.ragged /\ source'.ragged)]_Stream!vars

\* Once a series has ended, every word the FIFO took of it reaches memory; no
\* further word has to come for that.  With series of whole bursts this holds
\* unless words were lost inside one that then ended ragged; with shorter
\* series tlast_pending_reg can be cleared for a burst that does not include
\* the word with tlast, and the rest of the series stays in the FIFO.  (Of
\* series of whole beats: k is a multiple of Ratio.)
SeriesFlushed ==
    \A k \in {n \in 1 .. MaxWords : n % Ratio = 0} :
        source.tail >= k ~> \/ slave.word >= k \/ source.tail < k
                            \/ source.lost /\ source.ragged

=============================================================================
