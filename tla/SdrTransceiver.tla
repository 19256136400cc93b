--------------------------- MODULE SdrTransceiver ---------------------------
(* projects/sdr_transceiver/server/sdr-transceiver.c: one process, a main   *)
(* thread that accepts connections and up to four handler threads, one for  *)
(* each role (rx control, rx data, tx control, tx data), which share        *)
(* sock_thread[], the registers and the two FIFOs with the radio.           *)
(*                                                                          *)
(* A connection is made by a client, names its role, is served until the    *)
(* client leaves, and may be made again.  A FIFO is counted in units, Block *)
(* of which are the 4096 words that a data handler moves at once; both hold *)
(* two blocks.  The receive FIFO never stalls its writer and loses what     *)
(* comes when it is full; of a sample is kept whether others were lost      *)
(* right before it.  The transmit FIFO never stalls its reader; of a unit   *)
(* is kept whether it is written for the second time.  While no data        *)
(* handler runs, the receive FIFO is full and losing samples, the transmit  *)
(* FIFO empty.                                                              *)
EXTENDS Integers, Sequences, FiniteSets

CONSTANTS Conns,   \* the connections that can exist at a time
          None,    \* no connection, no word
          Asked,   \* bound: the sets of first words that one behaviour sees
          Block    \* units in a block of 4096 words

VARIABLES
    asked,        \* the first words that the clients of this behaviour send
    up,           \* does the process run?
    client,       \* the client's end: "away", "open", "gone", or "reset"
                  \* when it is gone and has been sent something since
    hello,        \* the first word the client sent
    inbox,        \* number of words it sent after that and nobody has read
    thread,       \* where the server is with the connection
    backlog,      \* the connections that wait for accept()
    line,         \* the connection the main thread has accepted
    sock_thread,  \* the connection that has each role
    wanted,       \* settings by the commands read from each connection
    settings,     \* frequency, synchronisation and rate of each direction
    gpio,         \* the PTT pin
    rx_fifo,      \* for each sample: were others lost right before it?
    lost,         \* were samples lost since the newest in the FIFO?
    block,        \* what rx_data_handler has copied so far
    torn,         \* were samples lost in the middle of a copy?
    tx_fifo,      \* for each unit to be transmitted: is it a repetition?
    short,        \* has a recv() returned less than a block?
    spilled       \* was a unit written to a full transmit FIFO?

sockets == <<client, hello, inbox>>
roles == <<backlog, line, sock_thread, wanted>>
radio == <<settings, gpio>>
receiver == <<rx_fifo, lost, block, torn>>
transmitter == <<tx_fifo, short, spilled>>
vars == <<asked, up, client, hello, inbox, thread, backlog, line, sock_thread, wanted,
          settings, gpio, rx_fifo, lost, block, torn, tx_fifo, short, spilled>>

Depth == 2 * Block

RX_CTRL == "rx_ctrl"
RX_DATA == "rx_data"
TX_CTRL == "tx_ctrl"
TX_DATA == "tx_data"
Ctrl == {RX_CTRL, TX_CTRL}
Roles == {RX_CTRL, RX_DATA, TX_CTRL, TX_DATA}

ASSUME SdrAssumption ==
    /\ Block \in Nat \ {0} /\ None \notin Conns \cup Roles
    /\ \A words \in Asked : words \subseteq Roles \cup {"other"}

\* What the control handlers set; the frequency is 0 or the default, the rate
\* the default or another one.
Default == [freq |-> 1, sync |-> 0, rate |-> 2]
Commands == [kind : {"freq"}, value : {0, 1}]
            \cup [kind : {"rate"}, value : {3, 7}]
            \cup [kind : {"ptt"}, value : {0, 1}]

\* What a receive FIFO holds that nobody reads.
Neglected == [i \in 1 .. Depth |-> TRUE]

Init ==
    /\ asked \in Asked
    /\ up = TRUE
    /\ client = [c \in Conns |-> "away"] /\ hello = [c \in Conns |-> None]
    /\ inbox = [c \in Conns |-> 0] /\ thread = [c \in Conns |-> "none"]
    /\ backlog = <<>> /\ line = None /\ sock_thread = [r \in Roles |-> None]
    /\ wanted = [c \in Conns |-> Default]
    /\ settings = [r \in Ctrl |-> Default] /\ gpio = 0
    /\ rx_fifo = Neglected /\ lost = TRUE /\ block = <<>> /\ torn = FALSE
    /\ tx_fifo = <<>> /\ short = FALSE /\ spilled = FALSE

-----------------------------------------------------------------------------
\* The clients.

Connect(c) ==
    /\ up /\ client[c] = "away" /\ thread[c] = "none"
    /\ client' = [client EXCEPT ![c] = "open"]
    /\ thread' = [thread EXCEPT ![c] = "queued"] /\ backlog' = Append(backlog, c)
    /\ UNCHANGED <<asked, up, hello, inbox, line, sock_thread, wanted, radio,
                   receiver, transmitter>>

NameRole(c) ==
    /\ client[c] = "open" /\ thread[c] # "none" /\ hello[c] = None
    /\ \E word \in asked : hello' = [hello EXCEPT ![c] = word]
    /\ UNCHANGED <<asked, up, client, inbox, thread, roles, radio, receiver, transmitter>>

SendWord(c) ==
    /\ client[c] = "open" /\ thread[c] # "none"
    /\ \/ hello[c] \in Ctrl /\ inbox[c] = 0
       \/ hello[c] = TX_DATA /\ inbox[c] < Block
    /\ inbox' = [inbox EXCEPT ![c] = @ + 1]
    /\ UNCHANGED <<asked, up, client, hello, thread, roles, radio, receiver, transmitter>>

\* The client closes; a reset of the connection takes what is unread with it.
Leave(c) ==
    /\ client[c] = "open"
    /\ client' = [client EXCEPT ![c] = IF thread[c] = "none" THEN "away" ELSE "gone"]
    /\ inbox' \in {inbox, [inbox EXCEPT ![c] = 0]}
    /\ UNCHANGED <<asked, up, hello, thread, roles, radio, receiver, transmitter>>

\* close(): what the client still sends is lost.
Close(c) ==
    /\ thread' = [thread EXCEPT ![c] = "none"]
    /\ hello' = [hello EXCEPT ![c] = None] /\ inbox' = [inbox EXCEPT ![c] = 0]
    /\ client' = [client EXCEPT ![c] = IF @ = "open" THEN "open" ELSE "away"]

-----------------------------------------------------------------------------
\* The main thread.

Accept ==
    /\ up /\ line = None /\ backlog # <<>>
    /\ line' = Head(backlog) /\ backlog' = Tail(backlog)
    /\ thread' = [thread EXCEPT ![line'] = "accepted"]
    /\ UNCHANGED <<asked, up, sockets, sock_thread, wanted, radio, receiver, transmitter>>

\* recv() waits for four bytes or the end of the connection.
Received(c) == line = c /\ (hello[c] # None \/ client[c] = "gone")

Refused(c) == ~(hello[c] \in Roles /\ sock_thread[hello[c]] = None)

\* (the slip of going on without close())
Silent_Refuse(c) ==
    /\ Received(c) /\ Refused(c)
    /\ line' = None
    /\ UNCHANGED <<asked, up, sockets, thread, backlog, sock_thread, wanted,
                   radio, receiver, transmitter>>

Refuse(c) ==
    /\ Received(c) /\ Refused(c)
    /\ line' = None /\ Close(c)
    /\ UNCHANGED <<asked, up, backlog, sock_thread, wanted, radio, receiver,
                   transmitter>>

\* The role is taken.  pthread_create() reports a failure by a positive
\* number, which `< 0' does not see: the role stays taken without a thread.
Serve(c) ==
    /\ Received(c) /\ ~Refused(c)
    /\ line' = None /\ sock_thread' = [sock_thread EXCEPT ![hello[c]] = c]
    /\ \E state \in {"start", "orphan"} : thread' = [thread EXCEPT ![c] = state]
    /\ wanted' = [wanted EXCEPT ![c] = Default]
    /\ UNCHANGED <<asked, up, sockets, backlog, radio, receiver, transmitter>>

-----------------------------------------------------------------------------
\* rx_ctrl_handler and tx_ctrl_handler, which differ in the PTT pin.

Serves(c, role, state) == up /\ hello[c] = role /\ thread[c] = state
Goto(c, state) == thread' = [thread EXCEPT ![c] = state]

SetDefaults(role) ==
    /\ settings' = [settings EXCEPT ![role] = Default]
    /\ gpio' = IF role = TX_CTRL THEN 0 ELSE gpio

\* The fields of a command; a rate without a case of its own changes nothing.
Apply(command, old) ==
    CASE command.kind = "freq" ->
             [old EXCEPT !.freq = command.value,
                         !.sync = IF command.value > 0 THEN 0 ELSE 1]
      [] command.kind = "rate" /\ command.value \in 0 .. 5 ->
             [old EXCEPT !.rate = command.value]
      [] OTHER -> old

StartCtrl(c) ==
    \E role \in Ctrl :
        /\ Serves(c, role, "start") /\ Goto(c, "serve")
        /\ SetDefaults(role)
        /\ UNCHANGED <<asked, up, sockets, roles, receiver, transmitter>>

ReadCommand(c) ==
    \E role \in Ctrl, command \in Commands :
        /\ Serves(c, role, "serve") /\ inbox[c] > 0
        /\ settings' = [settings EXCEPT ![role] = Apply(command, @)]
        /\ wanted' = [wanted EXCEPT ![c] = Apply(command, @)]
        /\ gpio' = IF command.kind = "ptt" /\ role = TX_CTRL
                     THEN command.value ELSE gpio
        /\ inbox' = [inbox EXCEPT ![c] = @ - 1]
        /\ UNCHANGED <<asked, up, client, hello, thread, backlog, line, sock_thread,
                       receiver, transmitter>>

EndCtrl(c) ==
    \E role \in Ctrl :
        /\ Serves(c, role, "serve") /\ inbox[c] = 0 /\ client[c] = "gone"
        /\ Goto(c, "restore")
        /\ UNCHANGED <<asked, up, sockets, roles, radio, receiver, transmitter>>

\* (the slip of giving the role away before the defaults are set)
Rash_Restore(c) ==
    \E role \in Ctrl :
        /\ Serves(c, role, "restore")
        /\ IF sock_thread[role] = c
             THEN /\ sock_thread' = [sock_thread EXCEPT ![role] = None]
                  /\ UNCHANGED <<thread, radio>>
             ELSE SetDefaults(role) /\ Goto(c, "free") /\ UNCHANGED sock_thread
        /\ UNCHANGED <<asked, up, sockets, backlog, line, wanted, receiver, transmitter>>

Restore(c) ==
    \E role \in Ctrl :
        /\ Serves(c, role, "restore") /\ Goto(c, "free")
        /\ SetDefaults(role)
        /\ UNCHANGED <<asked, up, sockets, roles, receiver, transmitter>>

\* (the slip of a handler that returns without giving its role back)
Keeping_Free(c) ==
    \E role \in Roles :
        /\ Serves(c, role, "free") /\ Close(c)
        /\ UNCHANGED <<asked, up, roles, radio, receiver, transmitter>>

\* The end of every handler: close(), then sock_thread[] is -1 again.
Free(c) ==
    \E role \in Roles :
        /\ Serves(c, role, "free") /\ Close(c)
        /\ sock_thread' = [sock_thread EXCEPT ![role] = None]
        /\ wanted' = [wanted EXCEPT ![c] = Default]
        /\ UNCHANGED <<asked, up, backlog, line, radio, receiver, transmitter>>

-----------------------------------------------------------------------------
\* The receiver: the radio writes the FIFO, rx_data_handler reads it.

\* A sample arrives: the FIFO is always ready, and full it drops what comes.
Sample ==
    /\ \E c \in Conns, state \in {"check", "wait", "copy", "send"} :
           Serves(c, RX_DATA, state)
    /\ IF Len(rx_fifo) < Depth
         THEN rx_fifo' = Append(rx_fifo, lost) /\ lost' = FALSE /\ UNCHANGED torn
         ELSE /\ lost' = TRUE
              /\ torn' = (torn \/ Len(block) \in 1 .. Block - 1)
              /\ UNCHANGED rx_fifo
    /\ UNCHANGED <<asked, up, sockets, thread, roles, radio, block, transmitter>>

\* *rx_rst &= ~1; *rx_rst |= 1;
ResetReceiver == rx_fifo' = <<>> /\ lost' = TRUE /\ torn' = FALSE

StartRx(c) ==
    /\ Serves(c, RX_DATA, "start") /\ Goto(c, "check")
    /\ ResetReceiver /\ block' = <<>>
    /\ UNCHANGED <<asked, up, sockets, roles, radio, transmitter>>

CheckRx(c) ==
    /\ Serves(c, RX_DATA, "check") /\ Goto(c, "wait")
    /\ IF Len(rx_fifo) = Depth THEN ResetReceiver
         ELSE UNCHANGED <<rx_fifo, lost, torn>>
    /\ UNCHANGED <<asked, up, sockets, roles, radio, block, transmitter>>

\* (the slip of waiting for any sample)
Hasty_WaitRx(c) ==
    /\ Serves(c, RX_DATA, "wait") /\ rx_fifo # <<>> /\ Goto(c, "copy")
    /\ UNCHANGED <<asked, up, sockets, roles, radio, receiver, transmitter>>

WaitRx(c) ==
    /\ Serves(c, RX_DATA, "wait") /\ Len(rx_fifo) >= Block /\ Goto(c, "copy")
    /\ UNCHANGED <<asked, up, sockets, roles, radio, receiver, transmitter>>

\* memcpy() from the FIFO, in which the thread may be interrupted; an empty
\* FIFO gives a word that is no sample, as if all before it were lost.
CopyRx(c) ==
    /\ Serves(c, RX_DATA, "copy")
    /\ IF Len(block) < Block
         THEN /\ block' = Append(block, rx_fifo = <<>> \/ Head(rx_fifo))
              /\ rx_fifo' = IF rx_fifo = <<>> THEN <<>> ELSE Tail(rx_fifo)
              /\ UNCHANGED thread
         ELSE Goto(c, "send") /\ UNCHANGED <<rx_fifo, block>>
    /\ UNCHANGED <<asked, up, sockets, roles, radio, lost, torn, transmitter>>

\* The client takes the block; or it has left, and answers with a reset.
SendRx(c) ==
    /\ Serves(c, RX_DATA, "send") /\ client[c] \in {"open", "gone"}
    /\ Goto(c, "check") /\ block' = <<>>
    /\ client' = [client EXCEPT ![c] = IF @ = "open" THEN "open" ELSE "reset"]
    /\ UNCHANGED <<asked, up, hello, inbox, roles, radio, rx_fifo, lost, torn, transmitter>>

SendFails(c) ==
    /\ Serves(c, RX_DATA, "send") /\ client[c] \in {"gone", "reset"} /\ Goto(c, "free")
    /\ block' = <<>> /\ rx_fifo' = Neglected /\ lost' = TRUE /\ torn' = FALSE
    /\ UNCHANGED <<asked, up, sockets, roles, radio, transmitter>>

-----------------------------------------------------------------------------
\* The transmitter: tx_data_handler writes the FIFO, the radio reads it.

\* The radio takes a unit whenever there is one, and zeros otherwise.
Drain ==
    /\ tx_fifo # <<>> /\ tx_fifo' = Tail(tx_fifo)
    /\ UNCHANGED <<asked, up, sockets, thread, roles, radio, receiver, short, spilled>>

\* What does not fit into the FIFO is lost.
Write(units) ==
    LET all == tx_fifo \o units
    IN  /\ tx_fifo' = SubSeq(all, 1, IF Len(all) < Depth THEN Len(all) ELSE Depth)
        /\ spilled' = (spilled \/ Len(all) > Depth)

StartTx(c) ==
    /\ Serves(c, TX_DATA, "start") /\ Goto(c, "wait")
    /\ tx_fifo' = <<>> /\ short' = FALSE
    /\ UNCHANGED <<asked, up, sockets, roles, radio, receiver, spilled>>

WaitTx(c) ==
    /\ Serves(c, TX_DATA, "wait") /\ Len(tx_fifo) <= Block /\ Goto(c, "fill")
    /\ UNCHANGED <<asked, up, sockets, roles, radio, receiver, transmitter>>

\* An empty FIFO is filled with half of what it holds.
FillTx(c) ==
    /\ Serves(c, TX_DATA, "fill") /\ Goto(c, "recv")
    /\ IF tx_fifo = <<>> THEN Write([i \in 1 .. Block |-> FALSE])
         ELSE UNCHANGED <<tx_fifo, spilled>>
    /\ UNCHANGED <<asked, up, sockets, roles, radio, receiver, short>>

\* recv() without MSG_WAITALL returns what there is; memcpy() writes the whole
\* buffer, behind that what an earlier recv() left.
RecvTx(c) ==
    /\ Serves(c, TX_DATA, "recv") /\ inbox[c] > 0
    /\ LET got == inbox[c]
       IN  /\ Write([i \in 1 .. Block |-> i > got])
           /\ short' = (short \/ got < Block)
    /\ inbox' = [inbox EXCEPT ![c] = 0] /\ Goto(c, "wait")
    /\ UNCHANGED <<asked, up, client, hello, roles, radio, receiver>>

EndTx(c) ==
    /\ Serves(c, TX_DATA, "recv") /\ inbox[c] = 0 /\ client[c] = "gone"
    /\ Goto(c, "free") /\ tx_fifo' = <<>> /\ short' = FALSE
    /\ UNCHANGED <<asked, up, sockets, roles, radio, receiver, spilled>>

-----------------------------------------------------------------------------
\* The process dies: accept() fails, or it is killed; the kernel closes its
\* sockets, and the cores stay as they are.
Die ==
    /\ up /\ up' = FALSE
    /\ client' = [c \in Conns |-> "away"] /\ hello' = [c \in Conns |-> None]
    /\ inbox' = [c \in Conns |-> 0] /\ thread' = [c \in Conns |-> "none"]
    /\ backlog' = <<>> /\ line' = None /\ sock_thread' = [r \in Roles |-> None]
    /\ wanted' = [c \in Conns |-> Default]
    /\ block' = <<>> /\ rx_fifo' = Neglected /\ lost' = TRUE /\ torn' = FALSE
    /\ tx_fifo' = <<>> /\ short' = FALSE
    /\ UNCHANGED <<asked, radio, spilled>>

\* (the slip of a start that leaves the pin as it is)
Keyed_Restart ==
    /\ ~up /\ up' = TRUE
    /\ settings' = [r \in Ctrl |-> Default]
    /\ UNCHANGED <<asked, sockets, thread, roles, gpio, receiver, transmitter>>

\* It is started again, by hand or by the launcher.
Restart ==
    /\ ~up /\ up' = TRUE
    /\ gpio' = 0 /\ settings' = [r \in Ctrl |-> Default]
    /\ UNCHANGED <<asked, sockets, thread, roles, receiver, transmitter>>

Clients(c) == Connect(c) \/ NameRole(c) \/ SendWord(c) \/ Leave(c)
Listener(c) == Refuse(c) \/ Serve(c)
Control(c) == StartCtrl(c) \/ ReadCommand(c) \/ EndCtrl(c) \/ Restore(c)
Receive(c) == StartRx(c) \/ CheckRx(c) \/ WaitRx(c) \/ CopyRx(c)
Transmit(c) == StartTx(c) \/ WaitTx(c) \/ FillTx(c) \/ RecvTx(c) \/ EndTx(c)
Handler(c) == Control(c) \/ Receive(c) \/ Transmit(c) \/ Free(c)

Next == \/ \E c \in Conns : \/ Clients(c) \/ Listener(c) \/ Handler(c)
                            \/ SendRx(c) \/ SendFails(c)
        \/ Accept \/ Sample \/ Drain \/ Die \/ Restart

\* Threads are scheduled and the radio has a clock.  Nothing is asked of the
\* clients: one that is there need not take what it is sent.
Scheduled(c) == Listener(c) \/ Handler(c) \/ SendFails(c)
Fairness ==
    /\ \A c \in Conns : WF_vars(Scheduled(c))
    /\ WF_vars(Accept) /\ WF_vars(Sample) /\ WF_vars(Drain)

Spec == Init /\ [][Next]_vars /\ Fairness

-----------------------------------------------------------------------------
\* Types.
TypeOK ==
    /\ up \in BOOLEAN
    /\ client \in [Conns -> {"away", "open", "gone", "reset"}]
    /\ hello \in [Conns -> Roles \cup {"other", None}]
    /\ thread \in [Conns -> {"none", "queued", "accepted", "orphan", "start", "serve",
                             "restore", "free", "check", "wait", "copy", "send",
                             "fill", "recv"}]
    /\ line \in Conns \cup {None}
    /\ sock_thread \in [Roles -> Conns \cup {None}]
    /\ settings \in [Ctrl -> [freq : {0, 1}, sync : {0, 1}, rate : 0 .. 5]]
    /\ gpio \in {0, 1} /\ Len(rx_fifo) <= Depth /\ Len(tx_fifo) <= Depth
    /\ inbox \in [Conns -> 0 .. Block]

\* A role has one handler, and what a client has asked for is in force for as
\* long as it is served: neither the end of an earlier client's handler nor a
\* client of the other direction changes it behind its back.
SettingsAsCommanded ==
    \A c \in Conns, role \in Ctrl :
        Serves(c, role, "serve") => sock_thread[role] = c /\ settings[role] = wanted[c]

\* While the process runs, the transmitter is keyed for a client that is being
\* served and for nobody else, also after the process died with the pin high.
KeyedForClient ==
    up /\ gpio = 1 => \E c \in Conns : /\ hello[c] = TX_CTRL /\ sock_thread[TX_CTRL] = c
                                       /\ thread[c] \in {"serve", "restore"}

\* A block that is sent has no gap inside, however slow its client was: samples
\* are lost between blocks only, unless the FIFO overflowed in the very middle
\* of a copy.
BlocksContiguous ==
    \A c \in Conns : Serves(c, RX_DATA, "send") /\ ~torn =>
                         \A i \in 2 .. Block : ~block[i]

\* The transmit FIFO takes all that is written to it, the zeros that precede
\* the samples after an underrun included.
NothingSpilled == ~spilled

\* Nothing goes on the air twice unless a recv() of this client returned less
\* than a block: neither after an underrun nor when the client leaves.
NothingRepeated ==
    ~short => \A i \in DOMAIN tx_fifo : ~tx_fifo[i]

\* What passes through the two FIFOs is what the radio or the client gave, as
\* far as the code's looks at the fill levels can promise it.
StreamsWhole == TypeOK /\ BlocksContiguous /\ NothingSpilled /\ NothingRepeated

\* A role whose client has left is given back, unless no thread was made.
HasRole(c) == \E role \in Roles : sock_thread[role] = c
RoleReturned == \A c \in Conns :
    (HasRole(c) /\ client[c] # "open" /\ thread[c] # "orphan") ~> ~HasRole(c)

\* The transmitter is not left keyed when its client has left.
Unkeyed == \A c \in Conns :
    (gpio = 1 /\ sock_thread[TX_CTRL] = c /\ client[c] # "open") ~> (gpio = 0 \/ ~up)

\* A client that leaves, by whatever way, gives back what it held.
GivenBack == RoleReturned /\ Unkeyed

\* A client that has named its role is served or turned away, unless another
\* one that says nothing keeps the main thread waiting.
Silent == line # None /\ hello[line] = None /\ client[line] = "open"
Answered == \A c \in Conns :
    (thread[c] \in {"queued", "accepted"} /\ hello[c] # None)
        ~> (thread[c] \notin {"queued", "accepted"} \/ Silent)
=============================================================================
