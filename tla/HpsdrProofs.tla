---------------------------- MODULE HpsdrProofs -----------------------------
(* Proofs about sdr-transceiver-hpsdr.c: for every number of clients and    *)
(* sending threads, every size of the FIFO, every batch and every hang time *)
(* of the PTT, one thread sends at most and to the client of the last       *)
(* start, the carrier is keyed under the PTT of the keyer only, and the     *)
(* FIFO is never written when it has no room.                               *)
EXTENDS Hpsdr, TLAPS

\* What is asked of the main thread fits where it is, and what it has found
\* of the FIFO is still so: only the main thread adds to it.
MainKnows ==
    /\ pc \in {"room", "silence", "write", "frame", "frame 2"} => asked \in {"on", "off", "other"}
    /\ pc \in {"start", "create"} => asked \in Clients
    /\ pc \in {"silence", "write"} => Len(fifo) <= Depth - 1

\* active_thread is set for as long as a thread runs; a thread that is being
\* created is not there yet, and will send to the client that asked.
ThreadKnown ==
    /\ Running # {} => active_thread
    /\ pc = "create" => /\ Running = {} /\ enable_thread /\ active_thread
                        /\ addr_ep6 = asked

\* What the keyer has set at each of its steps.
KeyerKnows ==
    /\ keyer \in {"mux", "select", "rf", "hold"} => "ptt" \in tx_rst /\ cw_ptt
    /\ keyer \in {"select", "rf", "hold"} => "mux" \in tx_rst
    /\ keyer \in {"rf", "hold"} => tx_mux_data
    /\ "rf" \in tx_rst => keyer \in {"hold", "ended"}
    /\ keyer = "ended" => CarrierKeyed
    /\ keyer \in {"flush", "unmux", "unselect"} => ~cw_ptt
    /\ keyer \in {"idle", "test"} /\ cw_ptt => cw_ptt_delay > 0

\* The types of what the main thread, the sending threads and the keyer keep.
MainTypes ==
    /\ pc \in {"recv", "next", "room", "silence", "write", "frame", "frame 2", "stop", "start",
              "create", "failed"}
    /\ batch \in 0 .. MaxBatch /\ asked \in {Nobody, "on", "off", "other"} \cup Clients
    /\ enable_thread \in BOOLEAN /\ active_thread \in BOOLEAN
    /\ addr_ep6 \in {Nobody} \cup Clients
    /\ gpio_out \in BOOLEAN /\ alex_data_0 \in BOOLEAN /\ relay \in BOOLEAN

SenderTypes ==
    sender \in [Handlers -> [at : {"none", "test", "send"}, to : {Nobody} \cup Clients]]

KeyerTypes ==
    /\ keyer \in {"idle", "unkey", "flush", "unmux", "unselect", "test", "key", "mux",
                  "select", "rf", "hold", "ended"}
    /\ tx_rst \subseteq {"ptt", "mux", "rf"}
    /\ cw_ptt \in BOOLEAN /\ tx_mux_data \in BOOLEAN /\ cw_ptt_delay \in 0 .. Hang

\* The types, with the sequence of the FIFO made explicit.
Typed ==
    /\ MainTypes /\ SenderTypes /\ KeyerTypes
    /\ fifo \in Seq(BOOLEAN) /\ Len(fifo) <= Depth /\ gpio_in \subseteq {"ptt", "key"}

IInv == Typed /\ MainKnows /\ OneSession /\ ThreadKnown /\ KeyerKnows

-----------------------------------------------------------------------------
\* The constants, one by one.
LEMMA Sizes ==
    /\ Depth \in Nat /\ Silence \in Nat /\ MaxBatch \in Nat /\ Hang \in Nat
    /\ Silence > 0 /\ Silence < Depth /\ Hang > 0
  BY HpsdrAssumption

LEMMA InitIInv == Init => IInv
<1> SUFFICES ASSUME Init PROVE IInv
  OBVIOUS
<1> USE Sizes DEF Init
<1>1. Running = {}
  BY DEF Running, Ended
<1>2. Typed
  <2>1. fifo \in Seq(BOOLEAN) /\ Len(fifo) <= Depth /\ DOMAIN fifo = {}
    OBVIOUS
  <2>2. sender \in [Handlers -> [at : {"none", "test", "send"}, to : {Nobody} \cup Clients]]
    BY DEF Ended
  <2>3. batch \in 0 .. MaxBatch /\ cw_ptt_delay \in 0 .. Hang
    BY Sizes
  <2>4. {enable_thread, active_thread, gpio_out, alex_data_0, relay, cw_ptt, tx_mux_data}
            \subseteq BOOLEAN
    OBVIOUS
  <2> QED
    BY <2>1, <2>2, <2>3, <2>4 DEF Typed, MainTypes, SenderTypes, KeyerTypes
<1>3. MainKnows /\ OneSession /\ ThreadKnown /\ KeyerKnows
  BY <1>1 DEF MainKnows, OneSession, ThreadKnown, KeyerKnows
<1> QED
  BY <1>2, <1>3 DEF IInv

\* The keyer's part is untouched by the others, and so are its invariants.
LEMMA KeyerElsewhere ==
  ASSUME KeyerKnows, UNCHANGED cw
  PROVE  KeyerKnows'
  BY DEF KeyerKnows, CarrierKeyed, cw

\* Without a change of the threads and of what they are told, the session is
\* what it was.
LEMMA SessionElsewhere ==
  ASSUME OneSession, ThreadKnown, UNCHANGED <<session, sender>>,
         pc' \notin {"create"}, pc \in {"stop", "start"} => pc' = pc \/ Running = {}
  PROVE  OneSession' /\ ThreadKnown'
<1>1. Running' = Running
  BY DEF Running
<1> QED
  BY <1>1 DEF OneSession, ThreadKnown, session

\* A word more, a word less, and silence.
LEMMA FifoSteps ==
  ASSUME NEW f \in Seq(BOOLEAN), NEW b \in BOOLEAN
  PROVE  /\ Append(f, b) \in Seq(BOOLEAN) /\ Len(Append(f, b)) = Len(f) + 1
         /\ f # <<>> => Tail(f) \in Seq(BOOLEAN) /\ Len(Tail(f)) = Len(f) - 1
         /\ Len(f) \in Nat
  OBVIOUS

\* The words of the FIFO in the form that TypeOK states them in.
LEMMA FifoTyped ==
  ASSUME NEW f \in Seq(BOOLEAN)
  PROVE  \A i \in DOMAIN f : f[i] \in BOOLEAN
  OBVIOUS

\* What fits into the room that is left still does when words have gone.
LEMMA Shorter ==
  ASSUME NEW f \in Seq(BOOLEAN), NEW g \in Seq(BOOLEAN), Len(g) <= Len(f), NEW n \in Int,
         Len(f) <= n
  PROVE  Len(g) <= n
<1> DEFINE a == Len(f)
           b == Len(g)
<1>1. a \in Nat /\ b \in Nat /\ b <= a /\ a <= n
  OBVIOUS
<1>2. b <= n
  <2> HIDE DEF a, b
  <2> QED
    BY <1>1
<1> QED
  BY <1>2

\* The types of what a step leaves alone.
LEMMA MainElsewhere ==
  ASSUME MainTypes, UNCHANGED <<main, session, radio>>
  PROVE  MainTypes'
  BY DEF MainTypes, main, session, radio

LEMMA KeyerTypesElsewhere ==
  ASSUME KeyerTypes, UNCHANGED cw
  PROVE  KeyerTypes'
  BY DEF KeyerTypes, cw

-----------------------------------------------------------------------------
\* The inputs and the transmitter.
LEMMA RadioKeeps == IInv /\ (Press \/ Transmit) => IInv'
<1> SUFFICES ASSUME IInv, Press \/ Transmit PROVE IInv'
  OBVIOUS
<1>1. UNCHANGED <<main, session, sender, radio, cw>>
  BY DEF Press, Transmit
<1>2. fifo' \in Seq(BOOLEAN) /\ Len(fifo') <= Len(fifo)
  <2>1. CASE Press
    BY <2>1 DEF Press, IInv, Typed
  <2>2. CASE Transmit
    BY <2>2, FifoSteps DEF Transmit, IInv, Typed
  <2> QED
    BY <2>1, <2>2
<1>3. gpio_in' \subseteq {"ptt", "key"}
  BY DEF Press, Transmit, IInv, Typed
<1>4. Typed'
  <2>1. MainTypes' /\ SenderTypes' /\ KeyerTypes'
    BY <1>1, MainElsewhere, KeyerTypesElsewhere DEF IInv, Typed, SenderTypes
  <2>2. Len(fifo') <= Depth
    BY <1>2, Shorter, Sizes DEF IInv, Typed
  <2> QED
    BY <1>2, <1>3, <2>1, <2>2 DEF Typed
<1>5. MainKnows'
  <2>1. pc \in {"silence", "write"} => Len(fifo') <= Depth - 1
    <3>1. pc \in {"silence", "write"} => Len(fifo) <= Depth - 1
      BY DEF IInv, MainKnows
    <3>2. fifo \in Seq(BOOLEAN) /\ Depth - 1 \in Int
      BY Sizes DEF IInv, Typed
    <3> QED
      BY <1>2, <3>1, <3>2, Shorter
  <2> QED
    BY <1>1, <2>1 DEF IInv, MainKnows, main
<1>6. Running' = Running
  BY <1>1 DEF Running
<1>7. OneSession' /\ ThreadKnown'
  BY <1>1, <1>6 DEF IInv, OneSession, ThreadKnown, main, session
<1> QED
  BY <1>1, <1>4, <1>5, <1>7, KeyerElsewhere DEF IInv

-----------------------------------------------------------------------------
\* The types of what a step of the main thread may change.
LEMMA MainTyped ==
  ASSUME IInv, UNCHANGED <<sender, gpio_in, cw>>,
         pc' \in {"recv", "next", "room", "silence", "write", "frame", "frame 2", "stop", "start",
                 "create", "failed"},
         batch' \in 0 .. MaxBatch, asked' \in {Nobody, "on", "off", "other"} \cup Clients,
         enable_thread' \in BOOLEAN, active_thread' \in BOOLEAN,
         addr_ep6' \in {Nobody} \cup Clients,
         gpio_out' \in BOOLEAN, alex_data_0' \in BOOLEAN, relay' \in BOOLEAN,
         fifo' \in Seq(BOOLEAN), Len(fifo') <= Depth
  PROVE  Typed'
<1>1. MainTypes'
  BY DEF MainTypes
<1> QED
  BY <1>1, KeyerTypesElsewhere DEF IInv, Typed, SenderTypes

\* Where a datagram leads when it is taken.
LEMMA TakeKeeps ==
  ASSUME IInv, TakeSamples \/ TakeStop \/ TakeStart
  PROVE  IInv'
<1>1. /\ UNCHANGED <<sender, radio, fifo, gpio_in, cw, active_thread, addr_ep6>>
      /\ pc = "next" /\ pc' \in {"frame", "room", "stop", "start"}
      /\ batch' = batch - 1 /\ batch > 0
      /\ enable_thread' \in {enable_thread, FALSE}
      /\ enable_thread' # enable_thread => pc' \in {"stop", "start"}
      /\ pc' \in {"stop", "start"} => enable_thread' = FALSE
      /\ pc' \in {"frame", "room"} => asked' \in {"on", "off", "other"}
      /\ pc' = "stop" => asked' = Nobody
      /\ pc' = "start" => asked' \in Clients
  <2>1. CASE TakeSamples
    BY <2>1 DEF TakeSamples, Take, Goto, session
  <2>2. CASE TakeStop
    BY <2>2 DEF TakeStop, Take, Goto
  <2>3. CASE TakeStart
    BY <2>3 DEF TakeStart, Take, Goto
  <2> QED
    BY <2>1, <2>2, <2>3
<1>2. Typed'
  <2>1. batch' \in 0 .. MaxBatch
    BY <1>1, Sizes DEF IInv, Typed, MainTypes, SenderTypes, KeyerTypes
  <2> QED
    BY <1>1, <2>1, MainTyped DEF IInv, Typed, MainTypes, radio
<1>3. MainKnows'
  BY <1>1 DEF MainKnows
<1>4. Running' = Running
  BY <1>1 DEF Running
<1>5. OneSession' /\ ThreadKnown'
  BY <1>1, <1>4 DEF IInv, OneSession, ThreadKnown
<1> QED
  BY <1>1, <1>2, <1>3, <1>5, KeyerElsewhere DEF IInv

\* Samples: the room that was found is still there when they are written.
LEMMA SamplesKeep ==
  ASSUME IInv, WaitRoom \/ StartSilent \/ WriteSamples
  PROVE  IInv'
<1>1. UNCHANGED <<batch, asked, session, sender, radio, gpio_in, cw>>
  BY DEF WaitRoom, StartSilent, WriteSamples
<1>2. /\ fifo' \in Seq(BOOLEAN) /\ Len(fifo') <= Depth
      /\ pc' \in {"silence", "write"} => Len(fifo') <= Depth - 1
      /\ pc' \in {"silence", "write", "frame"} /\ pc \in {"room", "silence", "write"}
  <2>1. CASE WaitRoom
    BY <2>1, Sizes DEF WaitRoom, Goto, IInv, Typed, MainTypes, SenderTypes, KeyerTypes
  <2>2. CASE StartSilent
    <3>1. pc = "silence" /\ pc' = "write" /\ Len(fifo) <= Depth - 1
      BY <2>2 DEF StartSilent, Goto, IInv, MainKnows
    <3>2. CASE fifo = <<>>
      <4>1. fifo' = [i \in 1 .. Silence |-> FALSE]
        BY <2>2, <3>2 DEF StartSilent
      <4>2. fifo' \in Seq(BOOLEAN) /\ Len(fifo') = Silence
        BY <4>1, Sizes
      <4> QED
        BY <3>1, <4>2, Sizes
    <3>3. CASE fifo # <<>>
      BY <2>2, <3>1, <3>3, Sizes DEF StartSilent, IInv, Typed, MainTypes, SenderTypes, KeyerTypes
    <3> QED
      BY <3>2, <3>3
  <2>3. CASE WriteSamples
    <3>1. pc = "write" /\ pc' = "frame" /\ Len(fifo) <= Depth - 1
      BY <2>3 DEF WriteSamples, Goto, IInv, MainKnows
    <3>2. (gpio_out \/ "ptt" \in gpio_in) \in BOOLEAN
      OBVIOUS
    <3> QED
      BY <2>3, <3>1, <3>2, FifoSteps, Sizes DEF WriteSamples, IInv, Typed
  <2> QED
    BY <2>1, <2>2, <2>3
<1>3. Typed'
  BY <1>1, <1>2, MainTyped DEF IInv, Typed, MainTypes, session, radio
<1>4. MainKnows'
  BY <1>1, <1>2 DEF IInv, MainKnows
<1>5. OneSession' /\ ThreadKnown'
  BY <1>1, <1>2, SessionElsewhere DEF IInv
<1> QED
  BY <1>1, <1>3, <1>4, <1>5, KeyerElsewhere DEF IInv

\* The steps that leave the threads alone and the FIFO too.
LEMMA FramesKeep ==
  ASSUME IInv, Receive \/ ProcessFrame \/ UpdateRelays
  PROVE  IInv'
<1>1. /\ UNCHANGED <<session, sender, fifo, gpio_in, cw>>
      /\ pc \in {"recv", "frame", "frame 2", "next"} /\ pc' \in {"next", "recv", "frame 2"}
      /\ batch' \in 0 .. MaxBatch /\ asked' \in {asked, Nobody, "on", "off", "other"}
      /\ pc' = "frame 2" => asked' \in {"on", "off", "other"}
      /\ gpio_out' \in BOOLEAN /\ alex_data_0' \in BOOLEAN /\ relay' \in BOOLEAN
  <2>1. CASE Receive
    BY <2>1 DEF Receive, Goto, radio, IInv, Typed, MainTypes, SenderTypes, KeyerTypes
  <2>2. CASE ProcessFrame
    BY <2>2 DEF ProcessFrame, NextFrame, Goto, IInv, Typed, MainTypes, SenderTypes, KeyerTypes
  <2>3. CASE UpdateRelays
    BY <2>3 DEF UpdateRelays, Goto, IInv, Typed, MainTypes, SenderTypes, KeyerTypes
  <2> QED
    BY <2>1, <2>2, <2>3
<1>2. Typed'
  BY <1>1, MainTyped DEF IInv, Typed, MainTypes, SenderTypes, KeyerTypes, session
<1>3. MainKnows'
  BY <1>1 DEF MainKnows
<1>4. OneSession' /\ ThreadKnown'
  BY <1>1, SessionElsewhere DEF IInv
<1> QED
  BY <1>1, <1>2, <1>3, <1>4, KeyerElsewhere DEF IInv

\* A start or a stop goes on only when the thread of before has gone.
LEMMA WaitsKeep ==
  ASSUME IInv, Stopped \/ Start
  PROVE  IInv'
<1>1. /\ UNCHANGED <<batch, asked, sender, radio, fifo, gpio_in, cw>> /\ ~active_thread
  BY DEF Stopped, Start, session
<1>2. Running = {} /\ Running' = {}
  BY <1>1 DEF IInv, ThreadKnown, Running
<1>3. CASE Stopped
  <2>1. pc' = "next" /\ UNCHANGED session
    BY <1>3 DEF Stopped, Goto
  <2>2. Typed'
    BY <1>1, <2>1, MainTyped DEF IInv, Typed, MainTypes, SenderTypes, KeyerTypes, session, radio
  <2>3. MainKnows' /\ OneSession' /\ ThreadKnown'
    BY <1>2, <2>1 DEF MainKnows, OneSession, ThreadKnown
  <2> QED
    BY <1>1, <2>2, <2>3, KeyerElsewhere DEF IInv
<1>4. CASE Start
  <2>1. /\ pc' = "create" /\ asked \in Clients
        /\ addr_ep6' = asked /\ enable_thread' = TRUE /\ active_thread' = TRUE
    BY <1>4 DEF Start, Goto, IInv, MainKnows
  <2>2. Typed'
    BY <1>1, <2>1, MainTyped DEF IInv, Typed, MainTypes, radio
  <2>3. MainKnows' /\ OneSession' /\ ThreadKnown'
    BY <1>1, <1>2, <2>1 DEF MainKnows, OneSession, ThreadKnown
  <2> QED
    BY <1>1, <2>2, <2>3, KeyerElsewhere DEF IInv
<1> QED
  BY <1>3, <1>4

\* The new thread is the only one, and sends to the client that asked.
LEMMA CreateKeeps ==
  ASSUME IInv, Create
  PROVE  IInv'
<1>1. /\ UNCHANGED <<batch, session, radio, fifo, gpio_in, cw>>
      /\ pc = "create" /\ pc' = "next" /\ asked' = Nobody /\ asked \in Clients
  BY DEF Create, Goto, IInv, MainKnows
<1>2. Running = {} /\ enable_thread /\ active_thread /\ addr_ep6 = asked
  BY <1>1 DEF IInv, ThreadKnown
<1>3. MainKnows' /\ KeyerKnows'
  BY <1>1, KeyerElsewhere DEF IInv, MainKnows
<1>4. CASE UNCHANGED sender
  <2>1. Running' = {}
    BY <1>2, <1>4 DEF Running
  <2>2. Typed'
    BY <1>1, <1>4, MainTyped DEF IInv, Typed, MainTypes, SenderTypes, KeyerTypes, session, radio
  <2>3. OneSession' /\ ThreadKnown'
    BY <1>1, <2>1 DEF OneSession, ThreadKnown
  <2> QED
    BY <1>3, <2>2, <2>3 DEF IInv
<1>5. ASSUME NEW h \in Handlers,
             sender' = [sender EXCEPT ![h] = [at |-> "test", to |-> asked]]
      PROVE  IInv'
  <2>1. sender \in [Handlers -> [at : {"none", "test", "send"}, to : {Nobody} \cup Clients]]
    BY DEF IInv, Typed, MainTypes, SenderTypes, KeyerTypes
  <2>2. sender' \in [Handlers -> [at : {"none", "test", "send"}, to : {Nobody} \cup Clients]]
    BY <1>1, <1>5, <2>1
  <2>3. Typed'
    BY <1>1, <2>2, FifoTyped DEF IInv, Typed, MainTypes, SenderTypes, KeyerTypes, session, radio, cw
  <2>4. Running' = {h} /\ sender'[h].to = asked
    BY <1>2, <1>5, <2>1 DEF Running
  <2>5. OneSession' /\ ThreadKnown'
    BY <1>1, <1>2, <2>4 DEF OneSession, ThreadKnown, session
  <2> QED
    BY <1>3, <2>3, <2>5 DEF IInv
<1> QED
  <2>1. CASE Free # {}
    <3>1. (CHOOSE h \in Free : TRUE) \in Handlers
      BY <2>1 DEF Free
    <3> QED
      BY <1>4, <1>5, <3>1 DEF Create
  <2> QED
    BY <1>4, <2>1 DEF Create

\* The sending threads: the last word of one is that it is none.
LEMMA SenderKeeps ==
  ASSUME IInv, NEW h \in Handlers, Sender(h)
  PROVE  IInv'
<1> DEFINE Threads == [at : {"none", "test", "send"}, to : {Nobody} \cup Clients]
<1>0. sender \in [Handlers -> Threads]
  BY DEF IInv, Typed, MainTypes, SenderTypes, KeyerTypes
<1>1. /\ UNCHANGED <<main, enable_thread, addr_ep6, radio, fifo, gpio_in, cw>>
      /\ h \in Running
      /\ active_thread' \in BOOLEAN
      /\ sender' \in [Handlers -> Threads]
  <2>1. UNCHANGED <<main, enable_thread, addr_ep6, radio, fifo, gpio_in, cw>>
    BY DEF Sender, Collect, Send, Leave, Step
  <2>2. h \in Running /\ active_thread' \in BOOLEAN
    BY DEF Sender, Collect, Send, Leave, Step, Running, IInv, Typed, MainTypes, SenderTypes, KeyerTypes
  <2>3. sender[h] \in Threads /\ Ended \in Threads
    BY <1>0 DEF Ended
  <2>4. \E to \in Threads : sender' = [sender EXCEPT ![h] = to]
    BY <2>3 DEF Sender, Collect, Send, Leave, Step
  <2> QED
    BY <1>0, <2>1, <2>2, <2>4
<1>2. Typed'
  <2>1. MainTypes'
    BY <1>1 DEF IInv, Typed, MainTypes, main, radio
  <2> QED
    BY <1>1, <2>1, KeyerTypesElsewhere DEF IInv, Typed, SenderTypes
<1>3. MainKnows'
  BY <1>1 DEF IInv, MainKnows, main
<1>4. Running = {h} /\ sender[h].to = addr_ep6 /\ active_thread /\ pc # "create"
  BY <1>1 DEF IInv, OneSession, ThreadKnown
<1>5. CASE Leave(h)
  <2>1. Running' = {}
    BY <1>4, <1>5 DEF Leave, Step, Ended, Running, IInv, Typed, MainTypes, SenderTypes, KeyerTypes
  <2> QED
    BY <1>1, <1>2, <1>3, <1>4, <2>1, KeyerElsewhere
       DEF IInv, OneSession, ThreadKnown, main
<1>6. CASE Collect(h) \/ Send(h)
  <2>1. Running' = {h} /\ sender'[h].to = addr_ep6 /\ active_thread' = active_thread
    <3>1. \E at \in {"test", "send"} : sender' = [sender EXCEPT ![h] = [sender[h] EXCEPT !.at = at]]
      BY <1>6 DEF Collect, Send, Step
    <3>2. /\ sender'[h].at \in {"test", "send"} /\ sender'[h].to = sender[h].to
          /\ \A i \in Handlers \ {h} : sender'[i] = sender[i]
      BY <1>0, <3>1
    <3>3. active_thread' = active_thread
      BY <1>6 DEF Collect, Send
    <3> QED
      BY <1>4, <3>2, <3>3 DEF Running
  <2> QED
    BY <1>1, <1>2, <1>3, <1>4, <2>1, KeyerElsewhere
       DEF IInv, OneSession, ThreadKnown, main
<1> QED
  BY <1>5, <1>6 DEF Sender

\* The keyer, step by step.
LEMMA KeyerKeeps ==
  ASSUME IInv, Keyer \/ RfOff
  PROVE  IInv'
<1>1. /\ UNCHANGED <<main, session, sender, radio, gpio_in>>
      /\ fifo' \in {fifo, <<>>}
  BY DEF Keyer, RfOff, CountHang, PttOff, Flush, MuxOff, Unselect, TestKey, PttOn, MuxOn,
         Select, RfOn, Key
<1>2. /\ keyer' \in {"idle", "unkey", "flush", "unmux", "unselect", "test", "key", "mux",
                     "select", "rf", "hold"}
      /\ tx_rst' \subseteq {"ptt", "mux", "rf"}
      /\ cw_ptt' \in BOOLEAN /\ tx_mux_data' \in BOOLEAN
      /\ cw_ptt_delay' \in 0 .. Hang
      /\ KeyerKnows'
  <2> USE Sizes DEF IInv, Typed, KeyerTypes, KeyerKnows
  <2>1. CASE CountHang
    <3>1. /\ keyer = "idle" /\ cw_ptt /\ UNCHANGED <<tx_rst, cw_ptt, tx_mux_data>>
          /\ keyer' = IF cw_ptt_delay = 1 THEN "unkey" ELSE "test"
          /\ cw_ptt_delay' = cw_ptt_delay - 1
      BY <2>1 DEF CountHang, Key
    <3>2. cw_ptt_delay > 0 /\ cw_ptt_delay \in 0 .. Hang
      BY <3>1
    <3>3. cw_ptt_delay' \in 0 .. Hang /\ (cw_ptt_delay # 1 => cw_ptt_delay' > 0)
      BY <3>1, <3>2
    <3>4. keyer' \in {"unkey", "test"} /\ (keyer' = "test" => cw_ptt_delay' > 0)
      BY <3>1, <3>3
    <3> QED
      BY <3>1, <3>3, <3>4
  <2>2. CASE PttOff
    BY <2>2 DEF PttOff, Key
  <2>3. CASE Flush
    BY <2>3 DEF Flush, Key
  <2>4. CASE MuxOff
    BY <2>4 DEF MuxOff, Key
  <2>5. CASE Unselect
    BY <2>5 DEF Unselect, Key
  <2>6. CASE TestKey
    BY <2>6 DEF TestKey, Key
  <2>7. CASE PttOn
    BY <2>7 DEF PttOn, Key
  <2>8. CASE MuxOn
    BY <2>8 DEF MuxOn, Key
  <2>9. CASE Select
    BY <2>9 DEF Select, Key
  <2>10. CASE RfOn
    BY <2>10 DEF RfOn, Key
  <2>11. CASE RfOff
    <3>1. /\ keyer = "hold" /\ keyer' = "idle" /\ tx_rst' = tx_rst \ {"rf"}
          /\ cw_ptt_delay' = Hang /\ UNCHANGED <<cw_ptt, tx_mux_data>>
      BY <2>11 DEF RfOff, Key
    <3>2. cw_ptt_delay' \in 0 .. Hang /\ cw_ptt_delay' > 0
      BY <3>1
    <3> QED
      BY <3>1, <3>2
  <2> QED
    BY <2>1, <2>2, <2>3, <2>4, <2>5, <2>6, <2>7, <2>8, <2>9, <2>10, <2>11 DEF Keyer
<1>3. fifo' \in Seq(BOOLEAN) /\ Len(fifo') \in Nat /\ Len(fifo') <= Len(fifo)
  <2>1. fifo \in Seq(BOOLEAN) /\ Len(fifo) \in Nat
    BY DEF IInv, Typed
  <2>2. CASE fifo' = fifo
    BY <2>1, <2>2
  <2>3. CASE fifo' = <<>>
    <3>1. fifo' \in Seq(BOOLEAN) /\ Len(fifo') = 0
      BY <2>3
    <3> QED
      BY <2>1, <3>1
  <2> QED
    BY <1>1, <2>2, <2>3
<1>4. Typed'
  <2>1. MainTypes' /\ SenderTypes'
    BY <1>1 DEF IInv, Typed, MainTypes, SenderTypes, main, session, radio
  <2>2. KeyerTypes'
    BY <1>2 DEF KeyerTypes
  <2>3. Len(fifo') <= Depth
    BY <1>3, Shorter, Sizes DEF IInv, Typed
  <2> QED
    BY <1>1, <1>3, <2>1, <2>2, <2>3 DEF IInv, Typed
<1>5. MainKnows'
  <2>1. pc \in {"silence", "write"} => Len(fifo') <= Depth - 1
    <3>1. pc \in {"silence", "write"} => Len(fifo) <= Depth - 1
      BY DEF IInv, MainKnows
    <3>2. fifo \in Seq(BOOLEAN) /\ Depth - 1 \in Int
      BY Sizes DEF IInv, Typed
    <3> QED
      BY <1>3, <3>1, <3>2, Shorter
  <2> QED
    BY <1>1, <2>1 DEF IInv, MainKnows, main
<1>6. Running' = Running
  BY <1>1 DEF Running
<1>7. OneSession' /\ ThreadKnown'
  BY <1>1, <1>6 DEF IInv, OneSession, ThreadKnown, main, session
<1> QED
  BY <1>2, <1>4, <1>5, <1>7 DEF IInv

\* The process is left by all its threads.
LEMMA FailKeeps ==
  ASSUME IInv, Fail
  PROVE  IInv'
<1>1. /\ UNCHANGED <<batch, asked, session, radio, fifo, gpio_in, tx_rst, cw_ptt, tx_mux_data,
                     cw_ptt_delay>>
      /\ pc' = "failed" /\ keyer' = "ended" /\ sender' = [h \in Handlers |-> Ended]
  BY DEF Fail, Goto
<1>2. Running' = {} /\ sender' \in [Handlers -> [at : {"none", "test", "send"},
                                             to : {Nobody} \cup Clients]]
  BY <1>1 DEF Running, Ended
<1>3. Typed'
  BY <1>1, <1>2, FifoTyped DEF IInv, Typed, MainTypes, SenderTypes, KeyerTypes, session, radio
<1>4. MainKnows' /\ OneSession' /\ ThreadKnown'
  BY <1>1, <1>2 DEF MainKnows, OneSession, ThreadKnown
<1>5. KeyerKnows'
  BY <1>1 DEF IInv, KeyerKnows, CarrierKeyed
<1> QED
  BY <1>3, <1>4, <1>5 DEF IInv

LEMMA NextIInv == IInv /\ [Next]_vars => IInv'
<1> SUFFICES ASSUME IInv, [Next]_vars PROVE IInv'
  OBVIOUS
<1>1. CASE Main
  BY <1>1, FramesKeep, TakeKeeps, SamplesKeep, WaitsKeep, CreateKeeps DEF Main
<1>2. CASE UNCHANGED vars
  <2>1. Running' = Running
    BY <1>2 DEF Running, vars
  <2>2. Typed'
    BY <1>2, MainElsewhere, KeyerTypesElsewhere DEF vars, IInv, Typed, SenderTypes
  <2>3. MainKnows' /\ OneSession' /\ ThreadKnown'
    BY <1>2, <2>1 DEF vars, main, session, IInv, MainKnows, OneSession, ThreadKnown
  <2> QED
    BY <1>2, <2>2, <2>3, KeyerElsewhere DEF vars, IInv
<1> QED
  BY <1>1, <1>2, FailKeeps, RadioKeeps, SenderKeeps, KeyerKeeps DEF Next

-----------------------------------------------------------------------------
\* What handler_ep6, handler_keyer and the main thread hold of each other:
\* one thread sends at most, for the client of the last start (main, 797-821);
\* the carrier is keyed under the keyer's PTT (cw_on, 1505-1520); and the FIFO
\* of the transmitter is not written without room (main, 761-780).
THEOREM AgreeTheorem == Spec => []ThreadsAgree
<1>1. IInv => ThreadsAgree
  <2> SUFFICES ASSUME IInv PROVE ThreadsAgree
    OBVIOUS
  <2>1. TypeOK
    BY FifoTyped DEF IInv, Typed, MainTypes, SenderTypes, KeyerTypes, TypeOK
  <2>2. OneSession /\ CarrierKeyed
    BY DEF IInv, Typed, KeyerTypes, KeyerKnows, CarrierKeyed
  <2> QED
    BY <2>1, <2>2 DEF ThreadsAgree
<1> QED
  BY InitIInv, NextIInv, <1>1, PTL DEF Spec
=============================================================================
