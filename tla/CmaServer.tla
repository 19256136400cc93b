----------------------------- MODULE CmaServer -----------------------------
(* The driver patches/cma.c, which allocates one contiguous buffer, and its *)
(* user adc_test/server/adc-test-server.c, which has the writer of the FPGA *)
(* fill the buffer as a ring and sends each half to its client while the    *)
(* other is filled.  Any number of processes may run the server; signals    *)
(* end them, and the driver frees the buffer when it releases their file.   *)
(*                                                                          *)
(* The position of the writer stands for the data: it leads them by the two *)
(* bursts at most that AxisRamWriter allows, which are in memory long       *)
(* before send() comes to the end of the half.                              *)
EXTENDS Integers, FiniteSets

CONSTANTS Procs,
          Regions,     \* the memory there is: buffers
          None,
          Half         \* positions of half a ring (32 * 1024)

ASSUME CmaServerAssumption == Half \in Nat \ {0} /\ None \notin Regions

VARIABLES
    pc,           \* where each process is
    ram,          \* the buffer it has been given, and then the one it has mapped
    interrupted,
    limit,
    allocated,    \* the buffers that the kernel has given away
    cpu_addr,     \* the driver's variable
    doubly,       \* has a buffer been freed that was free?
    rx_rst, rx_addr,
    rx_cntr,      \* the position of the writer
    unsent,       \* the halves that are complete and have not been sent,
    late,         \* ... until one has been overwritten before
    killed,       \* did a process end with the writer at work, by a signal it could not catch?
    intruded,     \* has a process come in while another was there?
    overlapped    \* have two processes been in the driver at a time?

process == <<pc, ram, interrupted, limit>>
driver == <<allocated, cpu_addr, doubly>>
writer == <<rx_rst, rx_addr, rx_cntr, unsent, late>>
history == <<killed, intruded, overlapped>>
vars == <<process, driver, writer, history>>

Init ==
    /\ pc = [p \in Procs |-> "off"] /\ ram = [p \in Procs |-> None]
    /\ interrupted = [p \in Procs |-> FALSE]
    /\ limit = [p \in Procs |-> Half]
    /\ allocated = {} /\ cpu_addr = None /\ doubly = FALSE
    /\ rx_rst = {} /\ rx_addr = None /\ rx_cntr = 0 /\ unsent = {} /\ late = FALSE
    /\ killed = FALSE /\ intruded = FALSE /\ overlapped = FALSE

Goto(p, from, to) == pc[p] = from /\ pc' = [pc EXCEPT ![p] = to]

InDriver == {"ioctl", "free", "clear", "alloc", "release", "last free", "last clear"}
Alive(p) == pc[p] # "off"
Others(p) == Procs \ {p}
Enters(p) == overlapped' = (overlapped \/ \E q \in Others(p) : pc[q] \in InDriver)

-----------------------------------------------------------------------------
\* The driver.  Nothing keeps two processes from being in it at a time: in
\* cma_free() they may both see the buffer, or one may see the address of the
\* other's.

Open(p) ==
    /\ Goto(p, "off", "ioctl") /\ Enters(p)
    /\ intruded' = \E q \in Others(p) : Alive(q)
    /\ UNCHANGED <<ram, interrupted, limit, driver, writer, killed>>

\* if(!cpu_addr) return;
TestBuffer(p) ==
    /\ \/ Goto(p, "ioctl", IF cpu_addr = None THEN "alloc" ELSE "free")
       \/ Goto(p, "release", IF cpu_addr = None THEN "off" ELSE "last free")
    /\ UNCHANGED <<ram, interrupted, limit, driver, writer, history>>

FreeBuffer(p) ==
    /\ Goto(p, "free", "clear") \/ Goto(p, "last free", "last clear")
    /\ allocated' = allocated \ {cpu_addr} /\ doubly' = (doubly \/ cpu_addr \notin allocated)
    /\ UNCHANGED <<ram, interrupted, limit, cpu_addr, writer, history>>

ClearBuffer(p) ==
    /\ Goto(p, "clear", "alloc") \/ Goto(p, "last clear", "off")
    /\ cpu_addr' = None
    /\ UNCHANGED <<ram, interrupted, limit, allocated, doubly, writer, history>>

\* dma_alloc_coherent; without memory the process gives up.
Allocate(p) ==
    /\ \/ \E r \in Regions \ allocated :
              /\ Goto(p, "alloc", "map") /\ allocated' = allocated \cup {r} /\ cpu_addr' = r
              /\ ram' = [ram EXCEPT ![p] = r]
       \/ Goto(p, "alloc", "exit") /\ cpu_addr' = None /\ UNCHANGED <<allocated, ram>>
    /\ UNCHANGED <<interrupted, limit, doubly, writer, history>>

\* cma_mmap maps whatever cpu_addr is now.
Map(p) ==
    /\ Goto(p, "map", "bind") /\ ram' = [ram EXCEPT ![p] = cpu_addr]
    /\ rx_addr' = ram[p]
    /\ UNCHANGED <<interrupted, limit, driver, rx_rst, rx_cntr, unsent, late, history>>

\* A process ends: cma_release, and nothing of it is left.
Exit(p) ==
    /\ Goto(p, "exit", "release") /\ Enters(p)
    /\ ram' = [ram EXCEPT ![p] = None]
    /\ interrupted' = [interrupted EXCEPT ![p] = FALSE]
    /\ UNCHANGED <<limit, driver, writer, killed, intruded>>

-----------------------------------------------------------------------------
\* The server.

Bound == {"reset", "reset 2", "accept", "handler", "start", "start 1", "stream", "send",
          "unhandle", "default", "last reset"}
Move(p, from, to) ==
    /\ Goto(p, from, to) /\ UNCHANGED <<ram, interrupted, limit, driver, history>>

\* One process has the port.
Bind(p) ==
    /\ Move(p, "bind", IF \E q \in Procs : pc[q] \in Bound THEN "exit" ELSE "reset")
    /\ UNCHANGED writer

\* *rx_rst &= ~1; the data stop, and so does the writer within the 100 us.
Halt(p) ==
    /\ \/ Move(p, "reset", "reset 2")
       \/ Move(p, "default", IF interrupted[p] THEN "last reset" ELSE "reset 2")
    /\ rx_rst' = rx_rst \ {1} /\ UNCHANGED <<rx_addr, rx_cntr, unsent, late>>

\* *rx_rst &= ~2
ResetWriter(p) ==
    /\ Goto(p, "reset 2", "accept") \/ Goto(p, "last reset", "exit")
    /\ rx_rst' = rx_rst \ {2} /\ rx_cntr' = 0 /\ unsent' = {} /\ late' = FALSE
    /\ killed' = FALSE
    /\ UNCHANGED <<ram, interrupted, limit, driver, rx_addr, intruded, overlapped>>

Accept(p) == Move(p, "accept", "handler") /\ UNCHANGED writer

Handle(p) == Move(p, "handler", "start") /\ UNCHANGED writer

StartWriter(p) ==
    /\ Move(p, "start", "start 1")
    /\ rx_rst' = rx_rst \cup {2} /\ UNCHANGED <<rx_addr, rx_cntr, unsent, late>>

StartData(p) ==
    /\ Goto(p, "start 1", "stream")
    /\ rx_rst' = rx_rst \cup {1} /\ limit' = [limit EXCEPT ![p] = Half]
    /\ UNCHANGED <<ram, interrupted, driver, rx_addr, rx_cntr, unsent, late, history>>

\* (the slip of not remembering which half is next)
Same_TakeHalf(p) ==
    /\ Goto(p, "stream", "send") /\ ~interrupted[p]
    /\ (limit[p] > 0 /\ rx_cntr > limit[p]) \/ (limit[p] = 0 /\ rx_cntr < Half)
    /\ UNCHANGED <<ram, interrupted, limit, driver, writer, history>>

\* A half is complete when the writer is well in the other.
TakeHalf(p) ==
    /\ Goto(p, "stream", "send") /\ ~interrupted[p]
    /\ (limit[p] > 0 /\ rx_cntr > limit[p]) \/ (limit[p] = 0 /\ rx_cntr < Half)
    /\ limit' = [limit EXCEPT ![p] = Half - limit[p]]
    /\ UNCHANGED <<ram, interrupted, driver, writer, history>>

\* The half that is being sent; limit is already that of the next.
Sending(p) == IF limit[p] = 0 THEN 0 ELSE 1

\* send() returns when the client has taken the half, or has left.  A signal
\* ends it only in the middle of its data: signal() (with -D_GNU_SOURCE, see the
\* Makefile) asks for SA_RESTART, and a call that has not sent anything goes on.
Sent(p) ==
    /\ \/ Move(p, "send", "stream") /\ unsent' = unsent \ {Sending(p)}
       \/ Move(p, "send", "unhandle") /\ UNCHANGED unsent
    /\ UNCHANGED <<rx_rst, rx_addr, rx_cntr, late>>

\* (the slip of looking for the signal only when a client has left)
Deaf_Stop(p) == FALSE /\ Move(p, "stream", "unhandle") /\ UNCHANGED writer

Stop(p) == interrupted[p] /\ Move(p, "stream", "unhandle") /\ UNCHANGED writer

\* signal(SIGINT, SIG_DFL); limit starts anew with the next client.
Unhandle(p) ==
    /\ Goto(p, "unhandle", "default") /\ limit' = [limit EXCEPT ![p] = Half]
    /\ UNCHANGED <<ram, interrupted, driver, writer, history>>

\* What a process does by itself, and what it waits for its client with.
Proceed(p) ==
    \/ TestBuffer(p) \/ FreeBuffer(p) \/ ClearBuffer(p) \/ Allocate(p) \/ Map(p)
    \/ Bind(p) \/ Halt(p) \/ ResetWriter(p) \/ Handle(p) \/ StartWriter(p)
    \/ StartData(p) \/ TakeHalf(p) \/ Stop(p) \/ Unhandle(p) \/ Exit(p)

Run(p) == Proceed(p) \/ Accept(p) \/ Sent(p)

-----------------------------------------------------------------------------
\* Signals; a process in the driver takes them when it comes back.

\* (the slip of a handler that is installed with the first half)
Late_Handled == {"send", "unhandle"}

\* Where the handler is installed.
Handled == {"start", "start 1", "stream", "send", "unhandle"}

Die(p) ==
    /\ pc' = [pc EXCEPT ![p] = "exit"] /\ limit' = [limit EXCEPT ![p] = Half]
    /\ UNCHANGED <<ram, interrupted, driver, writer, intruded, overlapped>>

\* SIGINT: caught while a client is served, and deadly else; after the service
\* there is a window in which the writer is still at work.
Interrupt(p) ==
    /\ Alive(p) /\ pc[p] \notin InDriver \cup {"exit"}
    /\ IF pc[p] \in Handled
         THEN /\ interrupted' = [interrupted EXCEPT ![p] = TRUE]
              /\ UNCHANGED <<pc, ram, limit, driver, writer, history>>
         ELSE Die(p) /\ killed' = (killed \/ pc[p] = "default")

Kill(p) ==
    /\ Alive(p) /\ pc[p] \notin InDriver \cup {"exit"}
    /\ Die(p) /\ killed' = (killed \/ rx_rst = {1, 2})

-----------------------------------------------------------------------------
\* The writer goes round the ring.

Advance ==
    LET half == IF rx_cntr < Half THEN 0 ELSE 1
        next == (rx_cntr + 1) % (2 * Half)
        full == next % Half = 0
    IN  /\ rx_rst = {1, 2} /\ rx_cntr' = next
        /\ late' = (late \/ (full /\ 1 - half \in unsent))
        /\ unsent' = IF late' THEN {} ELSE IF full THEN unsent \cup {half} ELSE unsent
        /\ UNCHANGED <<process, driver, rx_rst, rx_addr, history>>

\* (Nothing is said of a kernel that has freed memory twice.)
Next == /\ ~doubly
        /\ Advance \/ \E p \in Procs : Open(p) \/ Run(p) \/ Interrupt(p) \/ Kill(p)

\* The processes are scheduled; a client may never come, or never read.
Spec == Init /\ [][Next]_vars /\ \A p \in Procs : WF_vars(Proceed(p))

-----------------------------------------------------------------------------
\* Types; the position stays within the ring.
TypeOK ==
    /\ \A p \in Procs : pc[p] \in InDriver \cup Bound \cup {"off", "map", "bind", "exit"}
    /\ ram \in [Procs -> Regions \cup {None}]
    /\ interrupted \in [Procs -> BOOLEAN] /\ limit \in [Procs -> {0, Half}]
    /\ allocated \subseteq Regions /\ cpu_addr \in Regions \cup {None}
    /\ rx_rst \subseteq {1, 2} /\ rx_addr \in Regions \cup {None}
    /\ rx_cntr \in 0 .. 2 * Half - 1 /\ unsent \subseteq {0, 1}
    /\ {doubly, late, killed, intruded, overlapped} \subseteq BOOLEAN

\* As long as calls of the driver do not overlap, no buffer is lost or freed
\* twice, whoever opens, fails, or ends by a signal in whatever order.
BufferAccounted ==
    ~overlapped => /\ ~doubly
                   /\ (\A p \in Procs : pc[p] \notin InDriver) => allocated = {cpu_addr} \ {None}

\* The writer writes only to a buffer that is allocated and mapped by the
\* process that serves: unless that was killed with no chance to stop it, or
\* another process has been there (its CMA_ALLOC frees the buffer, and it has
\* written rx_addr before it finds that it cannot have the port).
WritesOwned ==
    rx_rst = {1, 2} /\ ~killed /\ ~intruded =>
        \E p \in Procs : /\ pc[p] \in {"stream", "send", "unhandle", "default"}
                         /\ ram[p] = rx_addr /\ rx_addr \in allocated

\* The contiguous memory is used by those who own it.
BufferOwned == TypeOK /\ BufferAccounted /\ WritesOwned

\* What is sent is a half that is complete and has not been sent, and the other
\* half is the one that is written, unless the client was late.
HalvesInTurn ==
    \A p \in Procs : pc[p] = "send" =>
        \/ late
        \/ Sending(p) \in unsent /\ (rx_cntr >= Half) = (Sending(p) = 0)

\* A server that has caught a signal ends, whatever it was doing for its client:
\* unless it is in send() for good, with a client that neither reads nor leaves
\* (the call is restarted and `interrupted' not looked at).
InterruptEnds ==
    \A p \in Procs : interrupted[p] ~> (pc[p] = "off" \/ doubly \/ [](pc[p] = "send"))
=============================================================================
