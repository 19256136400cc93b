------------------------------- MODULE Hpsdr -------------------------------
(* projects/sdr_transceiver_hpsdr/server/sdr-transceiver-hpsdr.c, without a *)
(* codec: the main thread takes datagrams, which fill the transmitter's     *)
(* FIFO, set the PTT or start and stop the thread that sends samples; the   *)
(* keyer's thread takes the transmitter over for the Morse key; and the     *)
(* main thread sets the relays of the ALEX filters, which switch between    *)
(* reception and transmission, for both.                                    *)
(*                                                                          *)
(* UDP loses, repeats and reorders: any datagram may come at any time.  A   *)
(* word of the FIFO stands for the 252 of a datagram.  The sampled inputs,  *)
(* frequencies and the other boards on the I2C bus are left out, and so is  *)
(* the discovery, which changes nothing.                                    *)
EXTENDS Integers, Sequences

CONSTANTS Clients,
          Handlers,   \* bound: sending threads that are alive at a time
          Depth,      \* words of the FIFO (4096 / 252)
          Silence,    \* words of silence that an empty FIFO starts with (2520 / 252)
          MaxBatch,   \* datagrams that recvmmsg() takes at once (8)
          Hang        \* rounds of the keyer for which the PTT stays on

ASSUME HpsdrAssumption ==
    /\ {Depth, Silence, MaxBatch, Hang} \subseteq Nat \ {0} /\ Silence < Depth

VARIABLES
    pc,             \* where the main thread is
    batch,          \* datagrams of its batch that are left
    asked,          \* the client of the start command, or the PTT bit of the frame
    enable_thread, active_thread,
    addr_ep6,
    sender,         \* the sending threads: where they are, and for whom
    gpio_out,       \* the PTT bit of the register
    alex_data_0,    \* its copy for the relays
    relay,          \* are the relays set to transmission?
    fifo,           \* the words of the transmitter: does one carry a signal?
    gpio_in,        \* the inputs that are on: "ptt", "key"
    keyer,          \* where the keyer is
    tx_rst,         \* the bits it sets: "ptt", "mux", "rf"
    cw_ptt, tx_mux_data,
    cw_ptt_delay

main == <<pc, batch, asked>>
session == <<enable_thread, active_thread, addr_ep6>>
radio == <<gpio_out, alex_data_0, relay>>
cw == <<keyer, tx_rst, cw_ptt, tx_mux_data, cw_ptt_delay>>
vars == <<main, session, sender, radio, fifo, gpio_in, cw>>

Nobody == "nobody"
Ended == [at |-> "none", to |-> Nobody]

Init ==
    /\ pc = "recv" /\ batch = 0 /\ asked = Nobody
    /\ enable_thread = FALSE /\ active_thread = FALSE /\ addr_ep6 = Nobody
    /\ sender = [h \in Handlers |-> Ended]
    /\ gpio_out = FALSE /\ alex_data_0 = FALSE /\ relay = FALSE
    /\ fifo = <<>> /\ gpio_in = {}
    /\ keyer = "idle" /\ tx_rst = {} /\ cw_ptt = FALSE /\ tx_mux_data = FALSE
    /\ cw_ptt_delay = 0

-----------------------------------------------------------------------------
\* The inputs, and the transmitter, which takes words while it is not the keyer's.

Press ==
    /\ \E input \in {"ptt", "key"} :
           gpio_in' = IF input \in gpio_in THEN gpio_in \ {input} ELSE gpio_in \cup {input}
    /\ UNCHANGED <<main, session, sender, radio, fifo, cw>>

Transmit ==
    /\ "mux" \notin tx_rst /\ fifo # <<>> /\ fifo' = Tail(fifo)
    /\ UNCHANGED <<main, session, sender, radio, gpio_in, cw>>

-----------------------------------------------------------------------------
\* The main thread.

Goto(from, to) == pc = from /\ pc' = to

\* recvmmsg() waits for at most a millisecond.
Receive ==
    /\ Goto("recv", "next") /\ batch' \in 0 .. MaxBatch
    /\ UNCHANGED <<asked, session, sender, radio, fifo, gpio_in, cw>>

\* It fails, and not for want of datagrams: the process returns from main() with
\* all its threads, and leaves the relays and the transmitter as they are.
Fail ==
    /\ Goto("recv", "failed")
    /\ sender' = [h \in Handlers |-> Ended] /\ keyer' = "ended"
    /\ UNCHANGED <<batch, asked, session, radio, fifo, gpio_in, tx_rst, cw_ptt, tx_mux_data,
                   cw_ptt_delay>>

\* The next datagram: what it asks for, and where that leads.
Take(what, to) ==
    /\ Goto("next", to) /\ batch > 0 /\ batch' = batch - 1 /\ asked' = what
    /\ UNCHANGED <<sender, radio, fifo, gpio_in, cw>>

\* Samples, with two frames of which each switches the PTT or is about something
\* else.
TakeSamples ==
    /\ \E bit \in {"on", "off", "other"} : Take(bit, IF tx_mux_data THEN "frame" ELSE "room")
    /\ UNCHANGED session

TakeStop ==
    /\ Take(Nobody, "stop") /\ enable_thread' = FALSE /\ UNCHANGED <<active_thread, addr_ep6>>

TakeStart ==
    /\ \E c \in Clients : Take(c, "start")
    /\ enable_thread' = FALSE /\ UNCHANGED <<active_thread, addr_ep6>>

\* while(*tx_cntr > 3844) usleep(1000);
WaitRoom ==
    /\ Goto("room", "silence") /\ Len(fifo) <= Depth - 1
    /\ UNCHANGED <<batch, asked, session, sender, radio, fifo, gpio_in, cw>>

StartSilent ==
    /\ Goto("silence", "write")
    /\ fifo' = IF fifo = <<>> THEN [i \in 1 .. Silence |-> FALSE] ELSE fifo
    /\ UNCHANGED <<batch, asked, session, sender, radio, gpio_in, cw>>

\* (the slip of always writing the samples)
Loose_WriteSamples ==
    /\ Goto("write", "frame") /\ fifo' = Append(fifo, TRUE)
    /\ UNCHANGED <<batch, asked, session, sender, radio, gpio_in, cw>>

\* The samples with a PTT, zeros without.
WriteSamples ==
    /\ Goto("write", "frame") /\ fifo' = Append(fifo, gpio_out \/ "ptt" \in gpio_in)
    /\ UNCHANGED <<batch, asked, session, sender, radio, gpio_in, cw>>

Switches == asked \in {"on", "off"}

\* The first frame of the datagram is followed by the second.
NextFrame ==
    \/ Goto("frame", "frame 2") /\ asked' \in {"on", "off", "other"}
    \/ Goto("frame 2", "next") /\ asked' = Nobody

\* (the slip of collecting the bit for the relays)
Sticky_ProcessFrame ==
    /\ NextFrame
    /\ gpio_out' = IF Switches THEN asked = "on" ELSE gpio_out
    /\ alex_data_0' = (alex_data_0 \/ gpio_out')
    /\ UNCHANGED <<batch, session, sender, relay, fifo, gpio_in, cw>>

\* process_ep2
ProcessFrame ==
    /\ NextFrame
    /\ IF Switches THEN gpio_out' = (asked = "on") /\ alex_data_0' = gpio_out'
         ELSE UNCHANGED <<gpio_out, alex_data_0>>
    /\ UNCHANGED <<batch, session, sender, relay, fifo, gpio_in, cw>>

\* while(active_thread) usleep(1000);
Stopped ==
    /\ Goto("stop", "next") /\ ~active_thread
    /\ UNCHANGED <<batch, asked, session, sender, radio, fifo, gpio_in, cw>>

\* (the slip of not waiting)
Rash_Start ==
    /\ Goto("start", "create")
    /\ addr_ep6' = asked /\ enable_thread' = TRUE /\ active_thread' = TRUE
    /\ UNCHANGED <<batch, asked, sender, radio, fifo, gpio_in, cw>>

Start ==
    /\ Goto("start", "create") /\ ~active_thread
    /\ addr_ep6' = asked /\ enable_thread' = TRUE /\ active_thread' = TRUE
    /\ UNCHANGED <<batch, asked, sender, radio, fifo, gpio_in, cw>>

Free == {h \in Handlers : sender[h].at = "none"}

\* That no thread could be created goes unnoticed: pthread_create() < 0.
Create ==
    /\ Goto("create", "next") /\ asked' = Nobody
    /\ \/ /\ Free # {}
          /\ sender' = [sender EXCEPT ![CHOOSE h \in Free : TRUE] =
                            [at |-> "test", to |-> asked]]
       \/ UNCHANGED sender
    /\ UNCHANGED <<batch, session, radio, fifo, gpio_in, cw>>

\* The batch is done: alex_data_0 |= cw_ptt, and alex_write() when it has changed.
UpdateRelays ==
    /\ Goto("next", "recv") /\ batch = 0
    /\ alex_data_0' = (alex_data_0 \/ cw_ptt) /\ relay' = alex_data_0'
    /\ UNCHANGED <<batch, asked, session, sender, gpio_out, fifo, gpio_in, cw>>

Main == \/ Receive \/ TakeSamples \/ TakeStop \/ TakeStart
        \/ WaitRoom \/ StartSilent \/ WriteSamples \/ ProcessFrame
        \/ Stopped \/ Start \/ Create \/ UpdateRelays

-----------------------------------------------------------------------------
\* handler_ep6: a thread that sends to addr_ep6 what the receiver delivers.

Step(h, from, to) ==
    /\ sender[h].at = from /\ sender' = [sender EXCEPT ![h] = to]
    /\ UNCHANGED <<main, enable_thread, addr_ep6, radio, fifo, gpio_in, cw>>

\* (the slip of testing the flag in the wait for samples only)
Deaf_Collect(h) == Step(h, "test", [sender[h] EXCEPT !.at = "send"]) /\ UNCHANGED active_thread

\* The samples are there in the end, whether or not the thread has been disabled.
Collect(h) == enable_thread /\ Step(h, "test", [sender[h] EXCEPT !.at = "send"])
              /\ UNCHANGED active_thread

Send(h) == Step(h, "send", [sender[h] EXCEPT !.at = "test"]) /\ UNCHANGED active_thread

Leave(h) == ~enable_thread /\ Step(h, "test", Ended) /\ active_thread' = FALSE

Sender(h) == Collect(h) \/ Send(h) \/ Leave(h)

-----------------------------------------------------------------------------
\* handler_keyer: each step waits or sets one bit or flag that another part
\* reads.

Key(from, to) == keyer = from /\ keyer' = to /\ UNCHANGED <<main, session, sender, radio, gpio_in>>

\* The key has been up for a round: cw_ptt_delay counts down.
CountHang ==
    /\ Key("idle", IF cw_ptt_delay = 1 THEN "unkey" ELSE "test") /\ cw_ptt
    /\ cw_ptt_delay' = cw_ptt_delay - 1
    /\ UNCHANGED <<fifo, tx_rst, cw_ptt, tx_mux_data>>

PttOff ==
    /\ Key("unkey", "flush") /\ tx_rst' = tx_rst \ {"ptt"} /\ cw_ptt' = FALSE
    /\ UNCHANGED <<fifo, tx_mux_data, cw_ptt_delay>>

Flush ==
    /\ Key("flush", "unmux") /\ fifo' = <<>>
    /\ UNCHANGED <<tx_rst, cw_ptt, tx_mux_data, cw_ptt_delay>>

MuxOff ==
    /\ Key("unmux", "unselect") /\ tx_rst' = tx_rst \ {"mux"}
    /\ UNCHANGED <<fifo, cw_ptt, tx_mux_data, cw_ptt_delay>>

Unselect ==
    /\ Key("unselect", "test") /\ tx_mux_data' = FALSE
    /\ UNCHANGED <<fifo, tx_rst, cw_ptt, cw_ptt_delay>>

\* cw_input(); what cw_memory adds is a key that is let go later.
TestKey ==
    /\ \/ Key("idle", "test") /\ ~cw_ptt
       \/ Key("test", IF "key" \in gpio_in THEN "key" ELSE "idle")
    /\ UNCHANGED <<fifo, tx_rst, cw_ptt, tx_mux_data, cw_ptt_delay>>

PttOn ==
    /\ Key("key", "mux") /\ tx_rst' = tx_rst \cup {"ptt"} /\ cw_ptt' = TRUE
    /\ UNCHANGED <<fifo, tx_mux_data, cw_ptt_delay>>

MuxOn ==
    /\ Key("mux", "select") /\ tx_rst' = tx_rst \cup {"mux"}
    /\ UNCHANGED <<fifo, cw_ptt, tx_mux_data, cw_ptt_delay>>

Select ==
    /\ Key("select", "rf") /\ tx_mux_data' = TRUE
    /\ UNCHANGED <<fifo, tx_rst, cw_ptt, cw_ptt_delay>>

RfOn ==
    /\ Key("rf", "hold") /\ tx_rst' = tx_rst \cup {"rf"}
    /\ UNCHANGED <<fifo, cw_ptt, tx_mux_data, cw_ptt_delay>>

\* An element has its time, or the key is up.
RfOff ==
    /\ Key("hold", "idle") /\ tx_rst' = tx_rst \ {"rf"} /\ cw_ptt_delay' = Hang
    /\ UNCHANGED <<fifo, cw_ptt, tx_mux_data>>

Keyer == \/ CountHang \/ PttOff \/ Flush \/ MuxOff \/ Unselect
         \/ TestKey \/ PttOn \/ MuxOn \/ Select \/ RfOn

Next == \/ Press \/ Transmit \/ Main \/ Fail \/ (\E h \in Handlers : Sender(h)) \/ Keyer \/ RfOff

\* The threads are scheduled and the transmitter has a clock; for how long the
\* key is held is up to the operator.
Fairness == /\ WF_vars(Main) /\ WF_vars(Keyer) /\ WF_vars(Transmit)
            /\ \A h \in Handlers : WF_vars(Sender(h))

Spec == Init /\ [][Next]_vars /\ Fairness

-----------------------------------------------------------------------------
Running == {h \in Handlers : sender[h].at # "none"}

\* Types; the FIFO is never written when it has no room, although the test for
\* it, the silence and the samples are three looks at a FIFO that the keyer
\* resets.
TypeOK ==
    /\ pc \in {"recv", "next", "room", "silence", "write", "frame", "frame 2", "stop", "start",
              "create", "failed"}
    /\ batch \in 0 .. MaxBatch /\ asked \in {Nobody, "on", "off", "other"} \cup Clients
    /\ {enable_thread, active_thread, gpio_out, alex_data_0, relay, cw_ptt, tx_mux_data}
           \subseteq BOOLEAN
    /\ addr_ep6 \in {Nobody} \cup Clients
    /\ sender \in [Handlers -> [at : {"none", "test", "send"}, to : {Nobody} \cup Clients]]
    /\ Len(fifo) <= Depth /\ \A i \in DOMAIN fifo : fifo[i] \in BOOLEAN
    /\ gpio_in \subseteq {"ptt", "key"} /\ tx_rst \subseteq {"ptt", "mux", "rf"}
    /\ keyer \in {"idle", "unkey", "flush", "unmux", "unselect", "test", "key", "mux",
                  "select", "rf", "hold", "ended"}
    /\ cw_ptt_delay \in 0 .. Hang

\* Whatever order starts and stops come in, one thread sends at most, it sends
\* to the client of the last start, and none runs once a stop has been served.
OneSession ==
    /\ \A h, i \in Running : h = i
    /\ \A h \in Running : sender[h].to = addr_ep6
    /\ Running # {} => enable_thread \/ pc \in {"stop", "start"}

\* The carrier of the keyer is on only under its PTT and with the transmitter
\* its own, also when the key comes back while the PTT hangs.
CarrierKeyed == "rf" \in tx_rst => {"ptt", "mux"} \subseteq tx_rst /\ cw_ptt /\ tx_mux_data

\* What the threads hold of each other without a lock.
ThreadsAgree == TypeOK /\ OneSession /\ CarrierKeyed

Caught == pc = "room" /\ "mux" \in tx_rst /\ Len(fifo) = Depth
Orphaned == pc \in {"stop", "start"} /\ active_thread /\ Running = {}

\* The main thread comes back to its socket, unless the keyer took the
\* transmitter away while it waited for room (then it waits for as long as the
\* key is held), or a thread that could not be created is waited for; the socket
\* may fail.
MainReturns == []<>(pc \in {"recv", "failed"} \/ Caught \/ Orphaned)

\* The relays follow the keyer's PTT while it lasts, and the process, ...
RelaysFollowKey == cw_ptt ~> (relay \/ ~cw_ptt \/ Caught \/ Orphaned \/ pc = "failed")

\* ... and are released by the next frame that has no PTT.
RelaysReleased ==
    (pc \in {"frame", "frame 2"} /\ asked = "off" /\ ~cw_ptt) ~>
        (~relay \/ gpio_out \/ cw_ptt \/ Orphaned)

\* Receiver and transmitter are never left on the wrong side of the relays.
RelaysSwitched == RelaysFollowKey /\ RelaysReleased

HostSignal == "mux" \notin tx_rst /\ fifo # <<>> /\ Head(fifo)

\* When the PTT has been let go for good, the samples of the host that are
\* still to be sent are so, and none comes after them.
HostSilenced == <>[](~gpio_out /\ "ptt" \notin gpio_in) => <>[]~HostSignal
=============================================================================
