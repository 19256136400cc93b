--------------------------- MODULE PlatformProofs ---------------------------
(* Proofs about the two things a program of switcheck finds mapped into its *)
(* memory; they share no state.                                             *)
(*                                                                          *)
(* patches/cma.c and adc-test-server.c: for every number of processes,      *)
(* every memory and every size of the ring, whatever order calls fail and   *)
(* signals come in, the buffer is neither lost nor freed twice while the    *)
(* driver's calls do not overlap, the writer writes only to the buffer of   *)
(* the process that serves, and halves are sent in turn.                    *)
(*                                                                          *)
(* cores/axi_hub_modified.v: for every number of registers, bytes and       *)
(* accesses, and every order of addresses, data and answers on the five     *)
(* channels, a read shows what had been answered when it was requested, and *)
(* the hub is the register file that programs expect.                       *)
EXTENDS CmaServer, AxiHub, SequenceTheorems, TLAPS

-----------------------------------------------------------------------------
\* The memory of the driver and its server.

States == InDriver \cup Bound \cup {"off", "map", "bind", "exit"}

Typed == TypeOK /\ pc \in [Procs -> States]

\* One process is in the driver, and cpu_addr names what is allocated, except
\* between the two statements of cma_free().
Freed(p) == pc[p] \in {"clear", "last clear"}
DriverAlone ==
    ~overlapped =>
        /\ ~doubly
        /\ \A p, q \in Procs : pc[p] \in InDriver /\ pc[q] \in InDriver => p = q
        /\ (\A p \in Procs : ~Freed(p)) => allocated = {cpu_addr} \ {None}
        /\ \A p \in Procs : /\ Freed(p) => allocated = {}
                            /\ pc[p] \in {"free", "last free"} => cpu_addr # None
                            /\ pc[p] = "alloc" => cpu_addr = None

\* One process has the port.  Until it has started the data, they are stopped;
\* and while they flow, it serves.
Serving == {"stream", "send", "unhandle", "default"}
OnePort ==
    /\ \A p, q \in Procs : pc[p] \in Bound /\ pc[q] \in Bound => p = q
    /\ \A p \in Procs :
           pc[p] \in {"reset 2", "accept", "handler", "start", "start 1", "last reset"}
               => 1 \notin rx_rst
    /\ rx_rst = {1, 2} /\ ~killed => \E p \in Procs : pc[p] \in Serving

\* Who has not been intruded upon is alone, and the buffer it was given is the
\* one it has mapped and told the writer.
Undisturbed ==
    ~intruded =>
        /\ \A p, q \in Procs : Alive(p) /\ Alive(q) => p = q
        /\ \A p \in Procs : /\ pc[p] = "map" => ram[p] = cpu_addr /\ ram[p] \in allocated
                            /\ pc[p] \in Bound \cup {"bind"}
                                   => ram[p] = rx_addr /\ rx_addr \in allocated

\* The half whose turn it is, of the process at p: not complete, or complete
\* and not sent.
Turn(p) == IF limit[p] = Half THEN 0 ELSE 1
Writing == IF rx_cntr < Half THEN 0 ELSE 1
TurnOf(p) ==
    /\ pc[p] \in {"accept", "handler", "start", "start 1"}
           => rx_cntr = 0 /\ unsent = {} /\ late = FALSE
    /\ pc[p] = "stream" /\ ~late
           => \/ unsent = {} /\ Writing = Turn(p)
              \/ unsent = {Turn(p)} /\ Writing = 1 - Turn(p)
    /\ pc[p] = "send" /\ ~late
           => unsent = {Sending(p)} /\ Writing = 1 - Sending(p)
TurnsKept == \A p \in Procs : TurnOf(p)

IInv == Typed /\ DriverAlone /\ OnePort /\ Undisturbed /\ TurnsKept

\* One step of one process.
Step(p) == Open(p) \/ Run(p) \/ Interrupt(p) \/ Kill(p)

-----------------------------------------------------------------------------
LEMMA InitIInv == Init => IInv
<1> SUFFICES ASSUME Init PROVE IInv
  OBVIOUS
<1> USE CmaServerAssumption DEF Init
<1>1. pc \in [Procs -> States]
  BY DEF States
<1>2. TypeOK
  <2>1. {doubly, late, killed, intruded, overlapped} \subseteq BOOLEAN
    OBVIOUS
  <2>2. rx_cntr \in 0 .. 2 * Half - 1
    OBVIOUS
  <2> QED
    BY <2>1, <2>2 DEF TypeOK
<1>3. DriverAlone
  BY DEF DriverAlone, InDriver, Freed
<1>4. OnePort /\ Undisturbed /\ TurnsKept
  BY DEF OnePort, Undisturbed, TurnsKept, TurnOf, Bound, Alive
<1> QED
  BY <1>1, <1>2, <1>3, <1>4 DEF IInv, Typed

\* Arithmetic of the ring.
LEMMA HalfSizes ==
  /\ Half \in Nat /\ Half > 0 /\ Half - Half = 0 /\ Half - 0 = Half
  /\ 0 \in 0 .. 2 * Half - 1
  BY CmaServerAssumption

\* Types.
LEMMA TypedStep ==
  ASSUME pc \in [Procs -> States], Typed, NEW p \in Procs, Step(p)
  PROVE  Typed'
<1> USE DEF Typed, TypeOK, States, InDriver, Bound, driver, writer, history
<1>1. CASE Open(p)
  BY <1>1 DEF Open, Goto, Enters
<1>2. CASE TestBuffer(p)
  BY <1>2 DEF TestBuffer, Goto
<1>3. CASE FreeBuffer(p)
  BY <1>3 DEF FreeBuffer, Goto
<1>4. CASE ClearBuffer(p)
  BY <1>4 DEF ClearBuffer, Goto
<1>5. CASE Allocate(p)
  <2>1. /\ allocated' \subseteq Regions /\ cpu_addr' \in Regions \cup {None}
        /\ ram' \in [Procs -> Regions \cup {None}]
    <3>1. ram \in [Procs -> Regions \cup {None}] /\ allocated \subseteq Regions
      OBVIOUS
    <3>2. \/ UNCHANGED <<allocated, ram>> /\ cpu_addr' = None
          \/ \E r \in Regions : /\ allocated' = allocated \cup {r} /\ cpu_addr' = r
                               /\ ram' = [ram EXCEPT ![p] = r]
      BY <1>5 DEF Allocate
    <3> QED
      BY <3>1, <3>2
  <2>2. pc' \in [Procs -> States]
    BY <1>5 DEF Allocate, Goto
  <2> QED
    BY <1>5, <2>1, <2>2 DEF Allocate, Goto
<1>6. CASE Map(p)
  BY <1>6 DEF Map, Goto
<1>7. CASE Bind(p)
  BY <1>7 DEF Bind, Goto, Move
<1>8. CASE Halt(p)
  BY <1>8 DEF Halt, Goto, Move
<1>9. CASE ResetWriter(p)
  <2>1. rx_cntr' \in 0 .. 2 * Half - 1
    BY <1>9, HalfSizes DEF ResetWriter
  <2> QED
    BY <1>9, <2>1 DEF ResetWriter, Goto
<1>10. CASE Accept(p)
  BY <1>10 DEF Accept, Goto, Move
<1>11. CASE Handle(p)
  BY <1>11 DEF Handle, Goto, Move
<1>12. CASE StartWriter(p)
  BY <1>12 DEF StartWriter, Goto, Move
<1>13. CASE StartData(p)
  BY <1>13 DEF StartData, Goto
<1>14. CASE TakeHalf(p)
  <2>1. limit' \in [Procs -> {0, Half}]
    <3>1. limit \in [Procs -> {0, Half}] /\ limit' = [limit EXCEPT ![p] = Half - limit[p]]
      BY <1>14 DEF TakeHalf
    <3>2. Half - limit[p] \in {0, Half}
      BY <3>1, HalfSizes
    <3> QED
      BY <3>1, <3>2
  <2> QED
    BY <1>14, <2>1 DEF TakeHalf, Goto
<1>15. CASE Sent(p)
  BY <1>15 DEF Sent, Goto, Move
<1>16. CASE Stop(p)
  BY <1>16 DEF Stop, Goto, Move
<1>17. CASE Unhandle(p)
  BY <1>17 DEF Unhandle, Goto
<1>18. CASE Exit(p)
  BY <1>18 DEF Exit, Goto, Enters
<1>19. CASE Interrupt(p)
  BY <1>19 DEF Interrupt, Die, Handled
<1>20. CASE Kill(p)
  BY <1>20 DEF Kill, Die
<1> QED
  BY <1>1, <1>2, <1>3, <1>4, <1>5, <1>6, <1>7, <1>8, <1>9, <1>10, <1>11,
     <1>12, <1>13, <1>14, <1>15, <1>16, <1>17, <1>18, <1>19, <1>20 DEF Step, Run, Proceed

\* The driver: whoever enters it is alone there, or the calls overlap.
LEMMA DriverStep ==
  ASSUME pc \in [Procs -> States], DriverAlone, NEW p \in Procs, Step(p)
  PROVE  DriverAlone'
<1> USE DEF DriverAlone, Freed, InDriver, driver, writer, history
<1>1. CASE Open(p)
  BY <1>1 DEF Open, Goto, Enters, Others
<1>2. CASE TestBuffer(p)
  BY <1>2 DEF TestBuffer, Goto
<1>3. CASE FreeBuffer(p)
  BY <1>3 DEF FreeBuffer, Goto
<1>4. CASE ClearBuffer(p)
  BY <1>4 DEF ClearBuffer, Goto
<1>5. CASE Allocate(p)
  <2>1. pc[p] = "alloc" /\ pc' = [pc EXCEPT ![p] = pc'[p]] /\ pc'[p] \in {"map", "exit"}
    BY <1>5 DEF Allocate, Goto
  <2>2. UNCHANGED <<overlapped, doubly>>
    BY <1>5 DEF Allocate
  <2>3. ASSUME ~overlapped
        PROVE  allocated' = {cpu_addr'} \ {None} /\ \A q \in Procs : pc'[q] \notin InDriver
    <3>1. allocated = {} /\ cpu_addr = None /\ \A q \in Procs \ {p} : pc[q] \notin InDriver
      BY <2>1, <2>3
    <3>2. \A q \in Procs : pc'[q] \notin InDriver
      BY <2>1, <3>1
    <3> QED
      BY <1>5, <3>1, <3>2, CmaServerAssumption DEF Allocate
  <2> QED
    BY <2>2, <2>3
<1>6. CASE Map(p)
  BY <1>6 DEF Map, Goto
<1>7. CASE Bind(p)
  BY <1>7 DEF Bind, Goto, Move
<1>8. CASE Halt(p)
  <2>1. /\ pc' = [pc EXCEPT ![p] = pc'[p]] /\ pc[p] \notin InDriver /\ pc'[p] \notin InDriver
        /\ UNCHANGED <<overlapped, doubly, allocated, cpu_addr>>
    BY <1>8 DEF Halt, Goto, Move
  <2> QED
    BY <2>1
<1>9. CASE ResetWriter(p)
  BY <1>9 DEF ResetWriter, Goto
<1>10. CASE Accept(p)
  BY <1>10 DEF Accept, Goto, Move
<1>11. CASE Handle(p)
  BY <1>11 DEF Handle, Goto, Move
<1>12. CASE StartWriter(p)
  BY <1>12 DEF StartWriter, Goto, Move
<1>13. CASE StartData(p)
  BY <1>13 DEF StartData, Goto
<1>14. CASE TakeHalf(p)
  BY <1>14 DEF TakeHalf, Goto
<1>15. CASE Sent(p)
  BY <1>15 DEF Sent, Goto, Move
<1>16. CASE Stop(p)
  BY <1>16 DEF Stop, Goto, Move
<1>17. CASE Unhandle(p)
  BY <1>17 DEF Unhandle, Goto
<1>18. CASE Exit(p)
  BY <1>18 DEF Exit, Goto, Enters, Others
<1>19. CASE Interrupt(p)
  BY <1>19 DEF Interrupt, Die, Handled
<1>20. CASE Kill(p)
  BY <1>20 DEF Kill, Die
<1> QED
  BY <1>1, <1>2, <1>3, <1>4, <1>5, <1>6, <1>7, <1>8, <1>9, <1>10, <1>11,
     <1>12, <1>13, <1>14, <1>15, <1>16, <1>17, <1>18, <1>19, <1>20 DEF Step, Run, Proceed

\* The writer does not run while the data are stopped.
LEMMA WriterAlone ==
  ASSUME NEW bits, 1 \notin bits
  PROVE  1 \notin bits \cup {2} /\ bits \cup {2} # {1, 2}
  OBVIOUS

\* The port and the two bits of the writer.
LEMMA PortStep ==
  ASSUME pc \in [Procs -> States], OnePort, NEW p \in Procs, Step(p)
  PROVE  OnePort'
<1> USE DEF OnePort, Bound, Serving, driver, writer, history
<1>1. CASE Bind(p)
  BY <1>1 DEF Bind, Goto, Move
<1>2. CASE Halt(p)
  BY <1>2 DEF Halt, Goto, Move
<1>3. CASE ResetWriter(p)
  BY <1>3 DEF ResetWriter, Goto
<1>4. CASE Accept(p)
  BY <1>4 DEF Accept, Goto, Move
<1>5. CASE Handle(p)
  BY <1>5 DEF Handle, Goto, Move
<1>6. CASE StartWriter(p)
  <2>1. /\ pc' = [pc EXCEPT ![p] = "start 1"] /\ pc[p] = "start"
        /\ rx_rst' = rx_rst \cup {2} /\ killed' = killed
    BY <1>6 DEF StartWriter, Goto, Move
  <2>2. 1 \notin rx_rst
    BY <2>1
  <2>3. 1 \notin rx_rst' /\ rx_rst' # {1, 2}
    BY <2>1, <2>2, WriterAlone
  <2> QED
    BY <2>1, <2>2, <2>3
<1>7. CASE StartData(p)
  BY <1>7 DEF StartData, Goto
<1>8. CASE TakeHalf(p)
  BY <1>8 DEF TakeHalf, Goto
<1>9. CASE Sent(p)
  BY <1>9 DEF Sent, Goto, Move
<1>10. CASE Stop(p)
  BY <1>10 DEF Stop, Goto, Move
<1>11. CASE Unhandle(p)
  BY <1>11 DEF Unhandle, Goto
<1>12. CASE Interrupt(p)
  <2>1. CASE pc' = pc
    BY <1>12, <2>1 DEF Interrupt, Handled, Die
  <2>2. CASE pc' # pc
    <3>1. /\ pc' = [pc EXCEPT ![p] = "exit"] /\ UNCHANGED rx_rst
          /\ killed' = (killed \/ pc[p] = "default") /\ pc[p] \notin Handled
      BY <1>12, <2>2 DEF Interrupt, Die
    <3> QED
      BY <3>1 DEF Handled
  <2> QED
    BY <2>1, <2>2
<1>13. CASE Kill(p)
  BY <1>13 DEF Kill, Die
<1>14. CASE \/ Open(p) \/ TestBuffer(p) \/ FreeBuffer(p) \/ ClearBuffer(p)
         \/ Allocate(p) \/ Map(p) \/ Exit(p)
  <2>1. /\ pc' = [pc EXCEPT ![p] = pc'[p]] /\ pc[p] \notin Bound /\ pc'[p] \notin Bound
        /\ UNCHANGED <<rx_rst, killed>>
    BY <1>14 DEF Open, TestBuffer, FreeBuffer, ClearBuffer, Allocate, Map, Exit, Goto
  <2> QED
    BY <2>1
<1> QED
  BY <1>1, <1>2, <1>3, <1>4, <1>5, <1>6, <1>7, <1>8, <1>9, <1>10, <1>11,
     <1>12, <1>13, <1>14 DEF Step, Run, Proceed

\* Alone, and with a buffer of one's own.
LEMMA UndisturbedStep ==
  ASSUME pc \in [Procs -> States], Typed, Undisturbed, NEW p \in Procs, Step(p)
  PROVE  Undisturbed'
<1> USE DEF Undisturbed, Alive, Bound, Others, driver, writer, history
<1>1. CASE Open(p)
  BY <1>1 DEF Open, Goto, Enters
<1>2. CASE TestBuffer(p)
  BY <1>2 DEF TestBuffer, Goto
<1>3. CASE FreeBuffer(p)
  BY <1>3 DEF FreeBuffer, Goto
<1>4. CASE ClearBuffer(p)
  BY <1>4 DEF ClearBuffer, Goto
<1>5. CASE Allocate(p)
  <2>1. /\ pc[p] = "alloc" /\ pc' = [pc EXCEPT ![p] = pc'[p]] /\ pc'[p] \in {"map", "exit"}
        /\ pc'[p] = "map" => /\ ram' = [ram EXCEPT ![p] = cpu_addr'] /\ cpu_addr' \in allocated'
        /\ UNCHANGED <<intruded, rx_addr>>
    BY <1>5 DEF Allocate, Goto
  <2>2. ASSUME ~intruded, NEW q \in Procs, q # p
        PROVE  pc'[q] = "off"
    BY <2>1, <2>2
  <2>3. ASSUME ~intruded, pc'[p] = "map"
        PROVE  ram'[p] = cpu_addr' /\ ram'[p] \in allocated'
    BY <2>1, <2>3 DEF Typed, TypeOK
  <2> QED
    BY <2>1, <2>2, <2>3
<1>6. CASE Map(p)
  <2>1. /\ pc[p] = "map" /\ pc' = [pc EXCEPT ![p] = "bind"]
        /\ ram' = [ram EXCEPT ![p] = cpu_addr] /\ rx_addr' = ram[p]
        /\ UNCHANGED <<intruded, allocated>>
    BY <1>6 DEF Map, Goto
  <2>2. ASSUME ~intruded, NEW q \in Procs, q # p
        PROVE  pc'[q] = "off"
    BY <2>1, <2>2
  <2>3. ASSUME ~intruded
        PROVE  ram'[p] = rx_addr' /\ rx_addr' \in allocated'
    BY <2>1, <2>3 DEF Typed, TypeOK
  <2> QED
    BY <2>1, <2>2, <2>3
<1>7. CASE Bind(p)
  BY <1>7 DEF Bind, Goto, Move
<1>8. CASE Halt(p)
  BY <1>8 DEF Halt, Goto, Move
<1>9. CASE ResetWriter(p)
  BY <1>9 DEF ResetWriter, Goto
<1>10. CASE Accept(p)
  BY <1>10 DEF Accept, Goto, Move
<1>11. CASE Handle(p)
  BY <1>11 DEF Handle, Goto, Move
<1>12. CASE StartWriter(p)
  BY <1>12 DEF StartWriter, Goto, Move
<1>13. CASE StartData(p)
  BY <1>13 DEF StartData, Goto
<1>14. CASE TakeHalf(p)
  BY <1>14 DEF TakeHalf, Goto
<1>15. CASE Sent(p)
  BY <1>15 DEF Sent, Goto, Move
<1>16. CASE Stop(p)
  BY <1>16 DEF Stop, Goto, Move
<1>17. CASE Unhandle(p)
  BY <1>17 DEF Unhandle, Goto
<1>18. CASE Exit(p)
  BY <1>18 DEF Exit, Goto, Enters
<1>19. CASE Interrupt(p)
  <2>1. /\ pc' = pc \/ pc' = [pc EXCEPT ![p] = "exit"]
        /\ UNCHANGED <<intruded, ram, cpu_addr, rx_addr, allocated>> /\ pc[p] # "off"
    BY <1>19 DEF Interrupt, Die
  <2> QED
    BY <2>1
<1>20. CASE Kill(p)
  BY <1>20 DEF Kill, Die
<1> QED
  BY <1>1, <1>2, <1>3, <1>4, <1>5, <1>6, <1>7, <1>8, <1>9, <1>10, <1>11,
     <1>12, <1>13, <1>14, <1>15, <1>16, <1>17, <1>18, <1>19, <1>20 DEF Step, Run, Proceed

\* Nobody but the process that has the port is where halves are sent.
Sends == {"accept", "handler", "start", "start 1", "stream", "send"}
LEMMA OthersElsewhere ==
  ASSUME pc \in [Procs -> States], OnePort, NEW p \in Procs, pc[p] \in Bound,
         NEW to, pc' = [pc EXCEPT ![p] = to]
  PROVE  /\ \A q \in Procs \ {p} : pc'[q] \notin Sends /\ pc[q] \notin Sends
         /\ pc'[p] = to
  BY DEF OnePort, Bound, Sends

\* Halves in turn.
LEMMA TurnStep ==
  ASSUME pc \in [Procs -> States], OnePort, TurnsKept, Typed, NEW p \in Procs, Step(p)
  PROVE  TurnsKept'
<1> USE DEF driver, writer, history
<1>1. CASE ResetWriter(p)
  <2>1. \A q \in Procs \ {p} : pc'[q] \notin Sends
    BY <1>1, OthersElsewhere DEF ResetWriter, Bound, Goto
  <2>2. rx_cntr' = 0 /\ unsent' = {} /\ late' = FALSE /\ pc'[p] \in {"accept", "exit"}
    BY <1>1 DEF ResetWriter, Goto
  <2> QED
    BY <2>1, <2>2 DEF TurnsKept, TurnOf, Sends
<1>2. CASE Accept(p)
  BY <1>2 DEF Accept, Goto, Move, TurnsKept, TurnOf, Turn, Sending, Writing
<1>3. CASE Handle(p)
  BY <1>3 DEF Handle, Goto, Move, TurnsKept, TurnOf, Turn, Sending, Writing
<1>4. CASE StartWriter(p)
  BY <1>4 DEF StartWriter, Goto, Move, TurnsKept, TurnOf, Turn, Sending, Writing
<1>5. CASE StartData(p)
  <2>1. \A q \in Procs \ {p} : pc'[q] \notin Sends
    BY <1>5, OthersElsewhere DEF StartData, Bound, Goto
  <2>2. pc'[p] = "stream" /\ limit'[p] = Half
    BY <1>5 DEF StartData, Goto, Typed, TypeOK
  <2>3. rx_cntr' = 0 /\ unsent' = {} /\ late' = FALSE
    BY <1>5 DEF StartData, Goto, TurnsKept, TurnOf
  <2>4. Turn(p)' = 0 /\ Writing' = 0
    BY <2>2, <2>3, HalfSizes DEF Turn, Writing
  <2> QED
    BY <2>1, <2>2, <2>3, <2>4 DEF TurnsKept, TurnOf, Sends
<1>6. CASE TakeHalf(p)
  <2>1. \A q \in Procs \ {p} : pc'[q] \notin Sends
    BY <1>6, OthersElsewhere DEF TakeHalf, Bound, Goto
  <2>2. pc[p] = "stream" /\ pc'[p] = "send" /\ UNCHANGED <<rx_cntr, unsent, late>>
    BY <1>6 DEF TakeHalf, Goto
  <2>3. limit[p] \in {0, Half} /\ limit'[p] = Half - limit[p] /\ rx_cntr \in Int
    BY <1>6, HalfSizes DEF TakeHalf, Typed, TypeOK
  <2>4. (limit[p] > 0 /\ rx_cntr > limit[p]) \/ (limit[p] = 0 /\ rx_cntr < Half)
    BY <1>6 DEF TakeHalf
  <2>5. Writing = 1 - Turn(p) /\ Turn(p) \in {0, 1}
    BY <2>3, <2>4, HalfSizes DEF Writing, Turn
  <2>6. Sending(p)' = Turn(p) /\ Writing' = Writing
    BY <2>2, <2>3, HalfSizes DEF Sending, Turn, Writing
  <2>7. late \/ unsent = {Turn(p)}
    <3>1. Writing # Turn(p)
      BY <2>5
    <3> QED
      BY <2>2, <3>1 DEF TurnsKept, TurnOf
  <2> QED
    BY <2>1, <2>2, <2>5, <2>6, <2>7 DEF TurnsKept, TurnOf, Sends
<1>7. CASE Sent(p)
  <2>1. \A q \in Procs \ {p} : pc'[q] \notin Sends
    BY <1>7, OthersElsewhere DEF Sent, Bound, Goto, Move
  <2>2. /\ pc[p] = "send" /\ UNCHANGED <<rx_cntr, late, limit>>
        /\ \/ pc'[p] = "stream" /\ unsent' = unsent \ {Sending(p)}
           \/ pc'[p] = "unhandle"
    BY <1>7 DEF Sent, Goto, Move
  <2>3. Turn(p)' = 1 - Sending(p) /\ Writing' = Writing
    BY <2>2, HalfSizes DEF Turn, Sending, Writing, Typed, TypeOK
  <2>4. late \/ (unsent = {Sending(p)} /\ Writing = 1 - Sending(p))
    BY <2>2 DEF TurnsKept, TurnOf
  <2> QED
    BY <2>1, <2>2, <2>3, <2>4 DEF TurnsKept, TurnOf, Sends
<1>8. CASE \/ Open(p) \/ TestBuffer(p) \/ FreeBuffer(p) \/ ClearBuffer(p) \/ Allocate(p)
         \/ Map(p) \/ Bind(p) \/ Halt(p) \/ Stop(p) \/ Unhandle(p) \/ Exit(p)
         \/ Interrupt(p) \/ Kill(p)
  <2>1. /\ UNCHANGED <<rx_cntr, unsent, late>>
        /\ \A q \in Procs :
               \/ pc'[q] = pc[q] /\ limit'[q] = limit[q]
               \/ pc'[q] \notin {"accept", "handler", "start", "start 1", "stream", "send"}
    <3>1. CASE Open(p) \/ TestBuffer(p) \/ FreeBuffer(p) \/ ClearBuffer(p) \/ Exit(p)
      BY <3>1 DEF Open, TestBuffer, FreeBuffer, ClearBuffer, Exit, Goto
    <3>2. CASE Allocate(p) \/ Map(p)
      BY <3>2 DEF Allocate, Map, Goto
    <3>3. CASE Bind(p) \/ Halt(p) \/ Stop(p)
      BY <3>3 DEF Bind, Halt, Stop, Move, Goto
    <3>4. CASE Unhandle(p)
      BY <3>4 DEF Unhandle, Goto, Typed, TypeOK
    <3>5. CASE Interrupt(p) \/ Kill(p)
      BY <3>5 DEF Interrupt, Kill, Die, Typed, TypeOK
    <3> QED
      BY <1>8, <3>1, <3>2, <3>3, <3>4, <3>5
  <2> QED
    BY <2>1 DEF TurnsKept, TurnOf, Turn, Sending, Writing
<1> QED
  BY <1>1, <1>2, <1>3, <1>4, <1>5, <1>6, <1>7, <1>8 DEF Step, Run, Proceed

-----------------------------------------------------------------------------
\* The position modulo the ring, without a quotient.
LEMMA RemainderUnique ==
  ASSUME NEW q \in Int, NEW m \in Nat \ {0}, NEW r \in 0 .. m - 1
  PROVE  (m * q + r) % m = r
  OBVIOUS

LEMMA NextPosition ==
  ASSUME NEW n \in 0 .. 2 * Half - 1
  PROVE  LET next == (n + 1) % (2 * Half)
         IN  /\ next \in 0 .. 2 * Half - 1
             /\ next % Half = 0 <=> next \in {0, Half}
             /\ next = IF n = 2 * Half - 1 THEN 0 ELSE n + 1
<1> DEFINE next == (n + 1) % (2 * Half)
<1>1. Half \in Nat \ {0} /\ 2 * Half \in Nat \ {0}
  BY HalfSizes
<1>2. next = IF n = 2 * Half - 1 THEN 0 ELSE n + 1
  <2>1. CASE n = 2 * Half - 1
    <3>1. n + 1 = (2 * Half) * 1 + 0
      BY <1>1, <2>1
    <3> QED
      BY <1>1, <2>1, <3>1, RemainderUnique
  <2>2. CASE n # 2 * Half - 1
    <3>1. n + 1 = (2 * Half) * 0 + (n + 1) /\ n + 1 \in 0 .. (2 * Half) - 1
      BY <1>1, <2>2
    <3> QED
      BY <1>1, <2>2, <3>1, RemainderUnique
  <2> QED
    BY <2>1, <2>2
<1> HIDE DEF next
<1>3. next \in 0 .. 2 * Half - 1
  BY <1>1, <1>2
<1>4. next % Half = IF next < Half THEN next ELSE next - Half
  <2>1. CASE next < Half
    <3>1. next = Half * 0 + next /\ next \in 0 .. Half - 1
      BY <1>1, <1>3, <2>1
    <3> QED
      BY <1>1, <2>1, <3>1, RemainderUnique
  <2>2. CASE ~(next < Half)
    <3>1. next = Half * 1 + (next - Half) /\ next - Half \in 0 .. Half - 1
      BY <1>1, <1>3, <2>2
    <3> QED
      BY <1>1, <2>2, <3>1, RemainderUnique
  <2> QED
    BY <2>1, <2>2
<1>5. next % Half = 0 <=> next \in {0, Half}
  BY <1>1, <1>3, <1>4
<1> QED
  BY <1>2, <1>3, <1>5 DEF next

\* A word more of the writer: it may complete a half.
LEMMA AdvanceKeeps ==
  ASSUME IInv, Advance
  PROVE  IInv'
<1> DEFINE next == (rx_cntr + 1) % (2 * Half)
           full == next % Half = 0
<1>1. /\ UNCHANGED <<process, driver, rx_rst, rx_addr, history>>
      /\ rx_rst = {1, 2} /\ rx_cntr' = next
      /\ late' = (late \/ (full /\ 1 - Writing \in unsent))
      /\ unsent' = IF late' THEN {} ELSE IF full THEN unsent \cup {Writing} ELSE unsent
  BY DEF Advance, Writing
<1>2. rx_cntr \in 0 .. 2 * Half - 1 /\ unsent \subseteq {0, 1} /\ late \in BOOLEAN
  BY DEF IInv, Typed, TypeOK
<1>3. /\ next \in 0 .. 2 * Half - 1
      /\ full <=> next \in {0, Half}
      /\ next = IF rx_cntr = 2 * Half - 1 THEN 0 ELSE rx_cntr + 1
  BY <1>2, NextPosition
<1> HIDE DEF next, full
<1>4. Writing' = IF full THEN 1 - Writing ELSE Writing
  BY <1>1, <1>2, <1>3, HalfSizes DEF Writing
<1>5. Writing \in {0, 1}
  BY DEF Writing
<1>6. Typed'
  <2>1. late' \in BOOLEAN /\ unsent' \subseteq {0, 1}
    BY <1>1, <1>2, <1>5
  <2>2. rx_cntr' \in 0 .. 2 * Half - 1
    BY <1>1, <1>3
  <2> QED
    BY <1>1, <2>1, <2>2 DEF IInv, Typed, TypeOK, process, driver, history
<1>7. DriverAlone' /\ OnePort' /\ Undisturbed'
  BY <1>1 DEF IInv, DriverAlone, Freed, OnePort, Undisturbed, Alive, process, driver, history
<1>8. ASSUME NEW p \in Procs
      PROVE  TurnOf(p)'
  <2>1. TurnOf(p) /\ pc'[p] = pc[p] /\ limit'[p] = limit[p]
    BY <1>1 DEF IInv, TurnsKept, process
  <2>2. pc[p] \notin {"accept", "handler", "start", "start 1"}
    BY <1>1 DEF IInv, OnePort
  <2>3. Turn(p)' = Turn(p) /\ Sending(p)' = Sending(p)
        /\ Turn(p) \in {0, 1} /\ Sending(p) \in {0, 1}
    BY <2>1 DEF Turn, Sending
  <2>4. CASE pc[p] = "stream"
    <3>1. CASE ~late' /\ full
      <4>1. ~late /\ 1 - Writing \notin unsent
        BY <1>1, <3>1
      <4>2. unsent = {} /\ Writing = Turn(p)
        BY <1>5, <2>1, <2>3, <2>4, <4>1 DEF TurnOf
      <4>3. unsent' = {Turn(p)} /\ Writing' = 1 - Turn(p)
        BY <1>1, <1>4, <3>1, <4>2
      <4> QED
        BY <2>1, <2>3, <2>4, <4>3 DEF TurnOf
    <3>2. CASE ~late' /\ ~full
      <4>1. ~late /\ unsent' = unsent /\ Writing' = Writing
        BY <1>1, <1>4, <3>2
      <4> QED
        BY <2>1, <2>3, <2>4, <4>1 DEF TurnOf
    <3> QED
      BY <2>1, <2>4, <3>1, <3>2 DEF TurnOf
  <2>5. CASE pc[p] = "send"
    <3>1. ASSUME ~late'
          PROVE  unsent' = {Sending(p)} /\ Writing' = 1 - Sending(p)
      <4>1. ~late /\ unsent = {Sending(p)} /\ Writing = 1 - Sending(p)
        BY <1>1, <2>1, <2>5, <3>1 DEF TurnOf
      <4>2. 1 - Writing = Sending(p)
        BY <2>3, <4>1
      <4>3. ~full
        BY <1>1, <3>1, <4>1, <4>2
      <4> QED
        BY <1>1, <1>4, <3>1, <4>1, <4>3
    <3> QED
      BY <2>1, <2>3, <2>5, <3>1 DEF TurnOf
  <2> QED
    BY <2>1, <2>2, <2>4, <2>5 DEF TurnOf
<1> QED
  BY <1>6, <1>7, <1>8 DEF IInv, TurnsKept, process, Advance

LEMMA NextIInv == IInv /\ [Next]_vars => IInv'
<1> SUFFICES ASSUME IInv, [Next]_vars PROVE IInv'
  OBVIOUS
<1>1. CASE Advance
  BY <1>1, AdvanceKeeps
<1>2. ASSUME NEW p \in Procs, Step(p)
      PROVE  IInv'
  BY <1>2, TypedStep, DriverStep, PortStep, UndisturbedStep, TurnStep DEF IInv, Typed
<1>3. CASE UNCHANGED vars
  <2>1. Typed' /\ DriverAlone' /\ OnePort' /\ Undisturbed'
    BY <1>3 DEF vars, process, driver, writer, history, IInv, Typed, TypeOK, DriverAlone,
                Freed, OnePort, Undisturbed, Alive
  <2>2. TurnsKept'
    BY <1>3 DEF vars, process, driver, writer, history, IInv, TurnsKept, TurnOf, Turn, Sending,
                Writing
  <2> QED
    BY <2>1, <2>2 DEF IInv
<1> QED
  BY <1>1, <1>2, <1>3 DEF Next, Step

LEMMA SpecIInv == Spec => []IInv
  BY InitIInv, NextIInv, PTL DEF Spec

-----------------------------------------------------------------------------
\* The contiguous memory (cma_free, cma_ioctl, cma_mmap, cma_release) is used by
\* those who own it: nothing is lost or freed twice while calls do not overlap,
\* and the writer writes to the buffer of the server that runs it.
THEOREM OwnedTheorem == Spec => []BufferOwned
<1>1. IInv => BufferOwned
  <2> SUFFICES ASSUME IInv PROVE BufferOwned
    OBVIOUS
  <2>1. TypeOK
    BY DEF IInv, Typed
  <2>2. BufferAccounted
    BY DEF IInv, DriverAlone, Freed, BufferAccounted, InDriver
  <2>3. WritesOwned
    <3> SUFFICES ASSUME rx_rst = {1, 2}, ~killed, ~intruded
                 PROVE  \E p \in Procs : /\ pc[p] \in Serving
                                         /\ ram[p] = rx_addr /\ rx_addr \in allocated
      BY DEF WritesOwned, Serving
    <3>1. PICK p \in Procs : pc[p] \in Serving
      BY DEF IInv, OnePort
    <3>2. pc[p] \in Bound
      BY <3>1 DEF Serving, Bound
    <3> QED
      BY <3>1, <3>2 DEF IInv, Undisturbed
  <2> QED
    BY <2>1, <2>2, <2>3 DEF BufferOwned
<1> QED
  BY SpecIInv, <1>1, PTL

\* What adc-test-server.c sends (lines 134-141) is the half that is complete and
\* not the one that is written, unless the client was late.
THEOREM TurnTheorem == Spec => []HalvesInTurn
<1>1. IInv => HalvesInTurn
  <2> SUFFICES ASSUME IInv, NEW p \in Procs, pc[p] = "send", ~late
               PROVE  Sending(p) \in unsent /\ (rx_cntr >= Half) = (Sending(p) = 0)
    BY DEF HalvesInTurn
  <2>1. unsent = {Sending(p)} /\ Writing = 1 - Sending(p)
    BY DEF IInv, TurnsKept, TurnOf
  <2>2. Sending(p) \in {0, 1} /\ rx_cntr \in Int /\ Half \in Int
    BY HalfSizes DEF Sending, IInv, Typed, TypeOK
  <2>3. CASE Sending(p) = 0
    BY <2>1, <2>2, <2>3 DEF Writing
  <2>4. CASE Sending(p) = 1
    BY <2>1, <2>2, <2>4 DEF Writing
  <2> QED
    BY <2>2, <2>3, <2>4
<1> QED
  BY SpecIInv, <1>1, PTL

-----------------------------------------------------------------------------
\* The register hub.

Places == [of : Nat, beat : Nat]

\* The beat to be applied next, the writes answered, the beat to be read next.
Applied == InTurn(int_wvalid_wire, int_wdata_wire, cpu.w)
Answered == cpu.b + (IF buf_2.valid THEN 1 ELSE 0)
Fetched == [of |-> InTurn(int_arvalid_wire, int_arid_wire, cpu.ar),
            beat |-> int_arcntr_reg]

\* A place in `last' accesses, or the one behind them.
IsPlace(accesses, last, place) ==
    /\ place \in Places /\ place.of \in 1 .. last + 1
    /\ IF place.of <= last THEN place.beat < accesses[place.of].len
                           ELSE place.beat = 0

\* No access is empty.
NoneEmpty(accesses, last) == \A k \in 1 .. last : accesses[k].len \in Nat \ {0}

\* A queue holds the addresses before `next', and all of them in order.
IdsInOrder(buf, next) ==
    /\ buf \in Seq(Nat) /\ Len(buf) <= 2 /\ Len(buf) < next
    /\ \A i \in 1 .. Len(buf) : buf[i] = next - 1 - Len(buf) + i

\* A queue holds the beats before `next', each followed by the one after it.
BeatsInOrder(accesses, last, buf, next) ==
    /\ buf \in Seq(Places) /\ Len(buf) <= 2
    /\ IsPlace(accesses, last, next)
    /\ \A i \in 1 .. Len(buf) :
          /\ IsPlace(accesses, last, buf[i]) /\ buf[i].of <= last
          /\ After(accesses, buf[i]) = IF i < Len(buf) THEN buf[i + 1] ELSE next

HubTyped ==
    /\ writes \in [1 .. MaxWrites -> Writes] /\ reads \in [1 .. MaxReads -> Reads]
    /\ int_awcntr_reg \in Nat /\ int_arcntr_reg \in Nat
    /\ sts_data \in 0 .. MaxStatus
    /\ cfg_data \in [0 .. Words - 1 -> [1 .. Lanes -> Places]]
    /\ \A w \in 0 .. Words - 1, l \in 1 .. Lanes :
          cfg_data[w][l].of \in 0 .. MaxWrites
    /\ buf_2 \in [valid : BOOLEAN, data : Nat]
    /\ buf_4 \in [valid : BOOLEAN,
                  data : [place : Places, value : [1 .. Lanes -> Places]]]
    /\ cpu \in [aw : 1 .. MaxWrites + 1, w : Places, b : Nat,
                ar : 1 .. MaxReads + 1, r : Places, since : Seq(Nat)]

\* The address of a write leaves with the last beat of its data, and with them
\* its answer enters.
WritesInTurn ==
    /\ IdsInOrder(buf_0, cpu.aw)
    /\ BeatsInOrder(writes, MaxWrites, buf_1, cpu.w)
    /\ cpu.aw = Answered + 1 + Len(buf_0)
    /\ Applied.of = Answered + 1 /\ Applied.beat = int_awcntr_reg

\* The reply on the port is the beat before the one to be read next.
ReadsInTurn ==
    /\ IdsInOrder(buf_3, cpu.ar)
    /\ IsPlace(reads, MaxReads, Fetched)
    /\ buf_3 = <<>> => int_arcntr_reg = 0
    /\ IsPlace(reads, MaxReads, cpu.r)
    /\ IF buf_4.valid THEN /\ buf_4.data.place = cpu.r /\ cpu.r.of <= MaxReads
                           /\ After(reads, cpu.r) = Fetched
                      ELSE cpu.r = Fetched

\* Beat w of write k has been applied.
IsApplied(k, w) ==
    /\ w >= writes[k].word /\ w < writes[k].word + writes[k].len
    /\ \/ k < Applied.of
       \/ k = Applied.of /\ w < writes[k].word + Applied.beat

\* Every byte is as new as the newest beat applied that names it.
BytesNew ==
    \A k \in 1 .. MaxWrites, w \in 0 .. Words - 1 : \A l \in 1 .. Lanes :
        l \in writes[k].strobe /\ IsApplied(k, w) => k <= cfg_data[w][l].of

\* One entry for every read not received in full, none newer than now.
RequestsDated ==
    /\ Len(cpu.since) = cpu.ar - cpu.r.of
    /\ \A i \in 1 .. Len(cpu.since) : cpu.since[i] <= cpu.b

HubIInv == /\ HubTyped /\ WritesInTurn /\ ReadsInTurn
        /\ BytesNew /\ RequestsDated /\ ReadsSeeAnswers
-----------------------------------------------------------------------------
\* Places and queues.

\* Every beat but those of a place behind the last access is followed by one.
LEMMA AfterFacts ==
  ASSUME NEW accesses, NEW last \in Nat, NEW place,
         NoneEmpty(accesses, last),
         IsPlace(accesses, last, place), place.of <= last
  PROVE  /\ IsPlace(accesses, last, After(accesses, place))
         /\ After(accesses, place) =
              IF place.beat + 1 = accesses[place.of].len
                THEN [of |-> place.of + 1, beat |-> 0]
                ELSE [of |-> place.of, beat |-> place.beat + 1]
         /\ After(accesses, place) # place
<1>1. place \in Places /\ place.of \in 1 .. last /\ place.beat < accesses[place.of].len
      /\ accesses[place.of].len \in Nat \ {0}
  BY DEF IsPlace, Places, NoneEmpty
<1>2. place.of \in Nat /\ place.beat \in Nat
  BY <1>1 DEF Places
<1>3. [place EXCEPT !.beat = @ + 1] = [of |-> place.of, beat |-> place.beat + 1]
  BY <1>1 DEF Places
<1>4. After(accesses, place) =
              IF place.beat + 1 = accesses[place.of].len
                THEN [of |-> place.of + 1, beat |-> 0]
                ELSE [of |-> place.of, beat |-> place.beat + 1]
  BY <1>1, <1>2, <1>3 DEF After
<1>5. CASE place.beat + 1 = accesses[place.of].len
  <2>1. After(accesses, place) = [of |-> place.of + 1, beat |-> 0]
    BY <1>4, <1>5
  <2>2. After(accesses, place).of = place.of + 1 /\ After(accesses, place).beat = 0
        /\ After(accesses, place) \in Places
    BY <1>2, <2>1 DEF Places
  <2>3. IsPlace(accesses, last, After(accesses, place))
    <3>1. CASE place.of + 1 <= last
      BY <1>1, <1>2, <2>2, <3>1 DEF IsPlace, NoneEmpty
    <3>2. CASE ~(place.of + 1 <= last)
      BY <1>1, <1>2, <2>2, <3>2 DEF IsPlace
    <3> QED
      BY <3>1, <3>2
  <2>4. After(accesses, place) # place
    BY <1>2, <2>2
  <2> QED
    BY <1>4, <2>3, <2>4
<1>6. CASE place.beat + 1 # accesses[place.of].len
  <2>1. After(accesses, place) = [of |-> place.of, beat |-> place.beat + 1]
    BY <1>4, <1>6
  <2>2. /\ After(accesses, place).of = place.of
        /\ After(accesses, place).beat = place.beat + 1
        /\ After(accesses, place) \in Places
    BY <1>2, <2>1 DEF Places
  <2>3. IsPlace(accesses, last, After(accesses, place))
    BY <1>1, <1>2, <1>6, <2>2 DEF IsPlace
  <2>4. After(accesses, place) # place
    BY <1>2, <2>2
  <2> QED
    BY <1>4, <2>3, <2>4
<1> QED
  BY <1>5, <1>6

\* Words that leave a queue at an edge, and words that enter it.
Leaving(buf, giving) == IF buf # <<>> /\ giving THEN 1 ELSE 0
Entering(taking) == IF taking THEN 1 ELSE 0

\* The word a queue gives away and the one it takes, position by position.
LEMMA QueueFacts ==
  ASSUME NEW S, NEW buf \in Seq(S), Len(buf) <= 2, NEW x \in S,
         NEW taking \in BOOLEAN, NEW giving \in BOOLEAN,
         taking => in_ready(buf)
  PROVE  LET d == Leaving(buf, giving)
             rest == QueueEdge(buf, taking, x, giving)
         IN  /\ rest \in Seq(S) /\ Len(rest) <= 2
             /\ Len(rest) = Len(buf) - d + Entering(taking)
             /\ \A i \in 1 .. Len(rest) :
                   rest[i] = IF i + d <= Len(buf) THEN buf[i + d] ELSE x
<1> USE DEF Entering, Leaving
<1> DEFINE d == IF buf # <<>> /\ giving THEN 1 ELSE 0
           left == IF buf # <<>> /\ giving THEN Tail(buf) ELSE buf
           rest == QueueEdge(buf, taking, x, giving)
<1>1. left \in Seq(S) /\ Len(left) = Len(buf) - d
      /\ \A i \in 1 .. Len(left) : left[i] = buf[i + d]
  <2>1. CASE buf # <<>> /\ giving
    <3>1. left = Tail(buf) /\ d = 1
      BY <2>1
    <3>2. Tail(buf) \in Seq(S) /\ Len(Tail(buf)) = Len(buf) - 1
      BY <2>1, HeadTailProperties
    <3>3. \A i \in 1 .. Len(Tail(buf)) : Tail(buf)[i] = buf[i + 1]
      BY <2>1, <3>2
    <3> QED
      BY <3>1, <3>2, <3>3
  <2>2. CASE ~(buf # <<>> /\ giving)
    BY <2>2
  <2> QED
    BY <2>1, <2>2
<1>2. rest = IF taking THEN Append(left, x) ELSE left
  BY DEF QueueEdge
<1>3. Len(buf) \in Nat /\ d \in {0, 1} /\ Len(left) \in Nat
  BY <1>1
<1>4. CASE taking
  <2>1. rest = Append(left, x)
    BY <1>2, <1>4
  <2>2. rest \in Seq(S) /\ Len(rest) = Len(left) + 1
        /\ (\A i \in 1 .. Len(left) : rest[i] = left[i])
        /\ rest[Len(left) + 1] = x
    <3> HIDE DEF left, d
    <3>1. Append(left, x) \in Seq(S) /\ Len(Append(left, x)) = Len(left) + 1
      BY <1>1, AppendProperties
    <3>2. \A i \in 1 .. Len(left) : Append(left, x)[i] = left[i]
      BY <1>1
    <3>3. Append(left, x)[Len(left) + 1] = x
      BY <1>1
    <3> QED
      BY <2>1, <3>1, <3>2, <3>3
  <2>3. Len(buf) < 2
    BY <1>4 DEF in_ready
  <2> HIDE DEF d, left, rest
  <2>4. \A i \in 1 .. Len(rest) : rest[i] = IF i + d <= Len(buf) THEN buf[i + d] ELSE x
    <3> TAKE i \in 1 .. Len(rest)
    <3>1. CASE i \in 1 .. Len(left)
      <4>1. rest[i] = buf[i + d] /\ i + d <= Len(buf)
        BY <1>1, <1>3, <2>2, <3>1
      <4> QED
        BY <4>1
    <3>2. CASE i = Len(left) + 1
      <4>1. rest[i] = x /\ ~(i + d <= Len(buf))
        BY <1>1, <1>3, <2>2, <3>2
      <4> QED
        BY <4>1
    <3> QED
      BY <1>3, <2>2, <3>1, <3>2
  <2>5. Len(rest) <= 2 /\ Len(rest) = Len(buf) - d + 1
    BY <1>1, <1>3, <2>2, <2>3
  <2> QED
    BY <1>4, <2>2, <2>4, <2>5 DEF d, rest
<1>5. CASE ~taking
  <2>1. rest = left
    BY <1>2, <1>5
  <2> HIDE DEF d, left, rest
  <2>2. \A i \in 1 .. Len(rest) : rest[i] = IF i + d <= Len(buf) THEN buf[i + d] ELSE x
    BY <1>1, <1>3, <2>1
  <2>3. Len(rest) <= 2 /\ Len(rest) = Len(buf) - d
    BY <1>1, <1>3, <2>1
  <2> QED
    BY <1>1, <1>5, <2>1, <2>2, <2>3 DEF d, rest
<1> QED
  BY <1>4, <1>5

\* Addresses and requests enter and leave in order.
LEMMA IdsAdvance ==
  ASSUME NEW buf, NEW next \in Nat, NEW taking \in BOOLEAN, NEW giving \in BOOLEAN,
         IdsInOrder(buf, next), taking => in_ready(buf)
  PROVE  LET rest == QueueEdge(buf, taking, next, giving)
         IN  /\ IdsInOrder(rest, IF taking THEN next + 1 ELSE next)
             /\ Len(rest) = Len(buf) - Leaving(buf, giving) + Entering(taking)
<1> DEFINE d == Leaving(buf, giving)
           e == Entering(taking)
           rest == QueueEdge(buf, taking, next, giving)
           new == IF taking THEN next + 1 ELSE next
<1>1. buf \in Seq(Nat) /\ Len(buf) <= 2 /\ Len(buf) < next /\ Len(buf) \in Nat
      /\ \A i \in 1 .. Len(buf) : buf[i] = next - 1 - Len(buf) + i
  BY DEF IdsInOrder
<1>2. /\ rest \in Seq(Nat) /\ Len(rest) <= 2
      /\ Len(rest) = Len(buf) - d + e
      /\ \A i \in 1 .. Len(rest) :
            rest[i] = IF i + d <= Len(buf) THEN buf[i + d] ELSE next
  <2>1. PICK S : S = Nat
    OBVIOUS
  <2>2. buf \in Seq(S) /\ next \in S
    BY <1>1, <2>1
  <2>3. /\ rest \in Seq(S) /\ Len(rest) <= 2
        /\ Len(rest) = Len(buf) - d + e
        /\ \A i \in 1 .. Len(rest) :
              rest[i] = IF i + d <= Len(buf) THEN buf[i + d] ELSE next
    BY <1>1, <2>2, QueueFacts
  <2> QED
    BY <2>1, <2>3
<1>3. d \in {0, 1} /\ e \in {0, 1} /\ new = next + e /\ Len(rest) \in Nat
      /\ (Len(buf) = 0 => d = 0)
  BY <1>1, <1>2 DEF Entering, Leaving
<1> HIDE DEF d, e, rest, new
<1>4. Len(rest) < new
  BY <1>1, <1>2, <1>3
<1>5. \A i \in 1 .. Len(rest) : rest[i] = new - 1 - Len(rest) + i
  <2> TAKE i \in 1 .. Len(rest)
  <2>1. CASE i + d <= Len(buf)
    <3>1. rest[i] = buf[i + d] /\ i + d \in 1 .. Len(buf)
      BY <1>1, <1>2, <1>3, <2>1
    <3>2. buf[i + d] = next - 1 - Len(buf) + (i + d)
      BY <1>1, <3>1
    <3> QED
      BY <1>1, <1>2, <1>3, <3>1, <3>2
  <2>2. CASE ~(i + d <= Len(buf))
    <3>1. rest[i] = next
      BY <1>2, <2>2
    <3> QED
      BY <1>1, <1>2, <1>3, <2>2, <3>1
  <2> QED
    BY <2>1, <2>2
<1>6. IdsInOrder(rest, new)
  BY <1>2, <1>4, <1>5 DEF IdsInOrder
<1> QED
  BY <1>2, <1>6 DEF rest, new, d, e

\* Beats too; the one to be taken out next is the one behind the last taken.
LEMMA BeatsAdvance ==
  ASSUME NEW accesses, NEW last \in Nat, NEW buf, NEW next,
         NEW taking \in BOOLEAN, NEW giving \in BOOLEAN,
         NoneEmpty(accesses, last),
         BeatsInOrder(accesses, last, buf, next),
         taking => in_ready(buf) /\ next.of <= last,
         NEW rest, rest = QueueEdge(buf, taking, next, giving),
         NEW new, new = IF taking THEN After(accesses, next) ELSE next,
         NEW turn, turn = IF buf # <<>> THEN Head(buf) ELSE next
  PROVE  /\ BeatsInOrder(accesses, last, rest, new)
         /\ IsPlace(accesses, last, turn)
         /\ (IF rest # <<>> THEN Head(rest) ELSE new) =
              IF buf # <<>> /\ giving THEN After(accesses, turn) ELSE turn
<1> DEFINE d == Leaving(buf, giving)
           e == Entering(taking)
           At(i) == IF i <= Len(buf) THEN buf[i] ELSE next
<1>1. /\ buf \in Seq(Places) /\ Len(buf) <= 2 /\ IsPlace(accesses, last, next)
      /\ Len(buf) \in Nat /\ next \in Places
      /\ \A i \in 1 .. Len(buf) :
          /\ IsPlace(accesses, last, buf[i]) /\ buf[i].of <= last
          /\ After(accesses, buf[i]) = IF i < Len(buf) THEN buf[i + 1] ELSE next
  BY DEF BeatsInOrder, IsPlace
<1>2. /\ rest \in Seq(Places) /\ Len(rest) <= 2
      /\ Len(rest) = Len(buf) - d + e
      /\ \A i \in 1 .. Len(rest) :
            rest[i] = IF i + d <= Len(buf) THEN buf[i + d] ELSE next
  <2> DEFINE out == QueueEdge(buf, taking, next, giving)
  <2>1. /\ out \in Seq(Places) /\ Len(out) <= 2
        /\ Len(out) = Len(buf) - d + e
        /\ \A i \in 1 .. Len(out) :
              out[i] = IF i + d <= Len(buf) THEN buf[i + d] ELSE next
    <3>1. PICK S : S = Places
      OBVIOUS
    <3>2. buf \in Seq(S) /\ next \in S /\ (taking => in_ready(buf))
      BY <1>1, <3>1
    <3>3. /\ out \in Seq(S) /\ Len(out) <= 2
          /\ Len(out) = Len(buf) - d + e
          /\ \A i \in 1 .. Len(out) :
                out[i] = IF i + d <= Len(buf) THEN buf[i + d] ELSE next
      BY <1>1, <3>2, QueueFacts
    <3> QED
      BY <3>1, <3>3
  <2>2. rest = out
    OBVIOUS
  <2> HIDE DEF out, d, e
  <2> QED
    BY <2>1, <2>2
<1>3. d \in {0, 1} /\ e \in {0, 1} /\ Len(rest) \in Nat /\ (Len(buf) = 0 => d = 0)
      /\ (e = 1 <=> taking)
  BY <1>1, <1>2 DEF Entering, Leaving
<1>4. IsPlace(accesses, last, new)
  BY <1>1, AfterFacts
<1>5. new = IF e = 1 THEN After(accesses, next) ELSE next
  BY <1>3
<1>5a. e = 1 => next.of <= last
  BY <1>3
<1> HIDE DEF d, e
<1>6. \A i \in 1 .. Len(rest) : rest[i] = At(i + d)
  BY <1>2
<1>7. \A i \in 1 .. Len(rest) :
          /\ IsPlace(accesses, last, rest[i]) /\ rest[i].of <= last
          /\ After(accesses, rest[i]) = IF i < Len(rest) THEN rest[i + 1] ELSE new
  <2> TAKE i \in 1 .. Len(rest)
  <2>1. CASE i + d <= Len(buf)
    <3>1. rest[i] = buf[i + d] /\ i + d \in 1 .. Len(buf)
      BY <1>1, <1>2, <1>3, <2>1
    <3>2. /\ IsPlace(accesses, last, rest[i]) /\ rest[i].of <= last
          /\ After(accesses, rest[i]) = IF i + d < Len(buf) THEN buf[i + d + 1] ELSE next
      BY <1>1, <3>1
    <3>3. CASE i + d < Len(buf)
      <4>1. i + 1 \in 1 .. Len(rest) /\ i + 1 + d <= Len(buf) /\ i < Len(rest)
        BY <1>1, <1>2, <1>3, <3>3
      <4>2. rest[i + 1] = buf[i + d + 1]
        BY <1>2, <1>3, <4>1
      <4> QED
        BY <3>2, <3>3, <4>1, <4>2
    <3>4. CASE ~(i + d < Len(buf))
      <4>1. After(accesses, rest[i]) = next /\ i + d = Len(buf)
        BY <1>1, <1>3, <2>1, <3>2, <3>4
      <4>2. CASE e = 1
        <5>1. i < Len(rest) /\ i + 1 \in 1 .. Len(rest) /\ ~(i + 1 + d <= Len(buf))
          BY <1>1, <1>2, <1>3, <4>1, <4>2
        <5>2. rest[i + 1] = next
          BY <1>2, <5>1
        <5> QED
          BY <3>2, <4>1, <5>1, <5>2
      <4>3. CASE e = 0
        <5>1. ~(i < Len(rest)) /\ new = next
          BY <1>1, <1>2, <1>3, <1>5, <4>1, <4>3
        <5> QED
          BY <3>2, <4>1, <5>1
      <4> QED
        BY <1>3, <4>2, <4>3
    <3> QED
      BY <3>3, <3>4
  <2>2. CASE ~(i + d <= Len(buf))
    <3>1. rest[i] = next /\ i = Len(rest) /\ e = 1
      BY <1>1, <1>2, <1>3, <2>2
    <3> QED
      BY <1>1, <1>5, <1>5a, <3>1
  <2> QED
    BY <2>1, <2>2
<1>8. BeatsInOrder(accesses, last, rest, new)
  BY <1>2, <1>4, <1>7 DEF BeatsInOrder
<1>9. turn = At(1) /\ (buf = <<>> <=> Len(buf) = 0)
  BY <1>1
<1>10. IsPlace(accesses, last, turn)
  BY <1>1, <1>9
<1>11. /\ rest # <<>> => Len(rest) > 0 /\ Head(rest) = rest[1]
       /\ rest = <<>> => Len(rest) = 0
  BY <1>2
<1>12. (IF rest # <<>> THEN Head(rest) ELSE new) =
         IF d = 1 THEN After(accesses, turn) ELSE turn
  <2>1. CASE rest # <<>>
    <3>1. 1 \in 1 .. Len(rest) /\ Head(rest) = At(1 + d)
      BY <1>3, <1>6, <1>11, <2>1
    <3>2. CASE d = 0
      BY <1>9, <2>1, <3>1, <3>2
    <3>3. CASE d = 1
      <4>1. Len(buf) > 0 /\ turn = buf[1]
        BY <1>1, <1>3, <1>9, <3>3
      <4>2. After(accesses, turn) = At(2)
        BY <1>1, <4>1
      <4> QED
        BY <2>1, <3>1, <3>3, <4>2
    <3> QED
      BY <1>3, <3>2, <3>3
  <2>2. CASE rest = <<>>
    <3>1. Len(buf) = d /\ e = 0 /\ new = next
      BY <1>1, <1>2, <1>3, <1>5, <1>11, <2>2
    <3>2. CASE d = 0
      BY <1>9, <2>2, <3>1, <3>2
    <3>3. CASE d = 1
      BY <1>1, <1>9, <2>2, <3>1, <3>3
    <3> QED
      BY <1>3, <3>2, <3>3
  <2> QED
    BY <2>1, <2>2
<1>13. d = 1 <=> (buf # <<>> /\ giving)
  BY DEF d, Leaving
<1> QED
  BY <1>8, <1>10, <1>12, <1>13

-----------------------------------------------------------------------------
\* The accesses are within the configuration words, and none is empty.
LEMMA AccessFacts ==
  ASSUME HubTyped
  PROVE  /\ \A k \in 1 .. MaxWrites :
               /\ writes[k].word \in Nat /\ writes[k].len \in Nat \ {0}
               /\ writes[k].word + writes[k].len <= Words
               /\ writes[k].strobe \subseteq 1 .. Lanes
         /\ \A k \in 1 .. MaxReads :
               /\ reads[k].word \in Nat /\ reads[k].len \in Nat \ {0}
               /\ reads[k].word + reads[k].len <= Words
               /\ reads[k].status \in BOOLEAN
<1>1. ASSUME NEW k \in 1 .. MaxWrites
      PROVE  /\ writes[k].word \in Nat /\ writes[k].len \in Nat \ {0}
             /\ writes[k].word + writes[k].len <= Words
             /\ writes[k].strobe \subseteq 1 .. Lanes
  <2>1. writes[k] \in Writes
    BY DEF HubTyped
  <2>2. writes[k] \in [word : Nat, len : Nat, strobe : SUBSET (1 .. Lanes)]
        /\ Fits(writes[k])
    BY <2>1, HubAssumption
  <2> QED
    BY <2>2 DEF Fits
<1>2. ASSUME NEW k \in 1 .. MaxReads
      PROVE  /\ reads[k].word \in Nat /\ reads[k].len \in Nat \ {0}
             /\ reads[k].word + reads[k].len <= Words
             /\ reads[k].status \in BOOLEAN
  <2>1. reads[k] \in Reads
    BY DEF HubTyped
  <2>2. reads[k] \in [word : Nat, len : Nat, status : BOOLEAN] /\ Fits(reads[k])
    BY <2>1, HubAssumption
  <2> QED
    BY <2>2 DEF Fits
<1> QED
  BY <1>1, <1>2

\* The initial state and the one after a reset.
AtRest ==
    /\ writes \in [1 .. MaxWrites -> Writes] /\ reads \in [1 .. MaxReads -> Reads]
    /\ sts_data \in 0 .. MaxStatus
    /\ int_awcntr_reg = 0 /\ int_arcntr_reg = 0
    /\ buf_0 = <<>> /\ buf_1 = <<>> /\ buf_3 = <<>>
    /\ buf_2 = [valid |-> FALSE, data |-> 0]
    /\ buf_4 = [valid |-> FALSE, data |-> NoReply]
    /\ cfg_data = Cleared
    /\ cpu = [aw |-> 1, w |-> First, b |-> 0, ar |-> 1, r |-> First,
              since |-> <<>>]

LEMMA FirstIsPlace ==
  ASSUME NEW accesses, NEW last \in Nat,
         NoneEmpty(accesses, last)
  PROVE  IsPlace(accesses, last, First)
<1>1. First \in Places /\ First.of = 1 /\ First.beat = 0
  BY DEF First, Places
<1>2. First.of \in 1 .. last + 1
  BY <1>1
<1>3. CASE 1 <= last
  <2>1. accesses[1].len \in Nat \ {0}
    BY <1>3 DEF NoneEmpty
  <2> QED
    BY <1>1, <1>2, <2>1 DEF IsPlace
<1>4. CASE ~(1 <= last)
  BY <1>1, <1>2, <1>4 DEF IsPlace
<1> QED
  BY <1>3, <1>4

LEMMA AtRestIInv == AtRest => HubIInv
<1> SUFFICES ASSUME AtRest PROVE HubIInv
  OBVIOUS
<1>1. /\ Words \in Nat \ {0} /\ Lanes \in Nat \ {0}
      /\ MaxWrites \in Nat /\ MaxReads \in Nat /\ MaxStatus \in Nat
  BY HubAssumption
<1>2. Never \in Places /\ First \in Places /\ Never.of = 0
  BY DEF Never, First, Places
<1>3. HubTyped
  <2>1. cfg_data \in [0 .. Words - 1 -> [1 .. Lanes -> Places]]
    BY <1>2 DEF AtRest, Cleared
  <2>2. \A w \in 0 .. Words - 1, l \in 1 .. Lanes :
           cfg_data[w][l].of \in 0 .. MaxWrites
    BY <1>1, <1>2 DEF AtRest, Cleared
  <2>3. buf_4 \in [valid : BOOLEAN,
                   data : [place : Places, value : [1 .. Lanes -> Places]]]
    BY <1>2 DEF AtRest, NoReply
  <2>4. cpu \in [aw : 1 .. MaxWrites + 1, w : Places, b : Nat,
                 ar : 1 .. MaxReads + 1, r : Places, since : Seq(Nat)]
    BY <1>1, <1>2 DEF AtRest
  <2>5. buf_2 \in [valid : BOOLEAN, data : Nat]
        /\ int_awcntr_reg \in Nat /\ int_arcntr_reg \in Nat
    BY DEF AtRest
  <2> QED
    BY <2>1, <2>2, <2>3, <2>4, <2>5 DEF HubTyped, AtRest
<1>4. /\ IsPlace(writes, MaxWrites, First) /\ IsPlace(reads, MaxReads, First)
  BY <1>1, <1>3, AccessFacts, FirstIsPlace DEF NoneEmpty
<1>5. /\ cpu.aw = 1 /\ cpu.w = First /\ cpu.b = 0 /\ cpu.ar = 1 /\ cpu.r = First
      /\ cpu.since = <<>> /\ ~buf_2.valid /\ ~buf_4.valid
      /\ buf_0 = <<>> /\ buf_1 = <<>> /\ buf_3 = <<>>
      /\ int_awcntr_reg = 0 /\ int_arcntr_reg = 0
  BY DEF AtRest
<1>6. /\ Applied = First /\ Answered = 0 /\ Fetched = First
  BY <1>5 DEF Applied, Answered, Fetched, InTurn, int_wvalid_wire,
              int_arvalid_wire, First
<1>7. WritesInTurn
  <2>1. IdsInOrder(<<>>, 1)
    BY DEF IdsInOrder
  <2>2. BeatsInOrder(writes, MaxWrites, <<>>, First)
    BY <1>4 DEF BeatsInOrder
  <2> QED
    BY <1>5, <1>6, <2>1, <2>2 DEF WritesInTurn, First
<1>8. ReadsInTurn
  <2>1. IdsInOrder(<<>>, 1)
    BY DEF IdsInOrder
  <2> QED
    BY <1>4, <1>5, <1>6, <2>1 DEF ReadsInTurn
<1>9. BytesNew
  <2> SUFFICES ASSUME NEW k \in 1 .. MaxWrites, NEW w \in 0 .. Words - 1, IsApplied(k, w)
               PROVE  FALSE
    BY DEF BytesNew
  <2>1. writes[k].word \in Nat
    BY <1>3, AccessFacts
  <2>2. k >= 1 /\ Applied.of = 1 /\ Applied.beat = 0
    BY <1>6 DEF First
  <2> QED
    BY <2>1, <2>2 DEF IsApplied
<1>10. RequestsDated /\ ReadsSeeAnswers
  BY <1>5 DEF RequestsDated, ReadsSeeAnswers, First
<1> QED
  BY <1>3, <1>7, <1>8, <1>9, <1>10 DEF HubIInv

-----------------------------------------------------------------------------
\* A clock edge on the side of the writes.

AnEdge(awvalid, wvalid, bready, arvalid, rready) ==
    /\ {awvalid, wvalid, bready, arvalid, rready} \subseteq BOOLEAN
    /\ HubClock(awvalid, wvalid, bready, arvalid, rready)

LEMMA AppliedIs == Applied = IF buf_1 # <<>> THEN Head(buf_1) ELSE cpu.w
  BY DEF Applied, InTurn, int_wvalid_wire, int_wdata_wire

LEMMA NextAppliedIs == Applied' = IF buf_1' # <<>> THEN Head(buf_1') ELSE cpu'.w
  BY DEF Applied, InTurn, int_wvalid_wire, int_wdata_wire

\* The address at the head of its queue is the one of the beat.
LEMMA WritePlace ==
  ASSUME HubTyped, WritesInTurn
  PROVE  /\ IsPlace(writes, MaxWrites, Applied)
         /\ Answered \in Nat
         /\ int_awvalid_wire => /\ int_awid_wire = Applied.of
                                /\ Applied.of \in 1 .. MaxWrites
         /\ int_wvalid_wire => int_wdata_wire = Applied
         /\ ~int_wvalid_wire => Applied = cpu.w
<1>1. MaxWrites \in Nat
  BY HubAssumption
<1>2. /\ cpu.aw \in 1 .. MaxWrites + 1 /\ cpu.w \in Places /\ cpu.b \in Nat
      /\ buf_2.valid \in BOOLEAN
  BY DEF HubTyped
<1>3. Answered \in Nat
  BY <1>2 DEF Answered
<1>4. IsPlace(writes, MaxWrites, Applied)
  <2>1. CASE buf_1 # <<>>
    <3>1. 1 \in 1 .. Len(buf_1) /\ Head(buf_1) = buf_1[1]
      BY <2>1 DEF WritesInTurn, BeatsInOrder
    <3> QED
      BY <2>1, <3>1, AppliedIs DEF WritesInTurn, BeatsInOrder
  <2>2. CASE buf_1 = <<>>
    BY <2>2, AppliedIs DEF WritesInTurn, BeatsInOrder
  <2> QED
    BY <2>1, <2>2
<1>5. ASSUME int_awvalid_wire
      PROVE  int_awid_wire = Applied.of /\ Applied.of \in 1 .. MaxWrites
  <2>1. buf_0 # <<>> /\ buf_0 \in Seq(Nat) /\ int_awid_wire = Head(buf_0)
    BY <1>5 DEF int_awvalid_wire, int_awid_wire, WritesInTurn, IdsInOrder
  <2>2. 1 \in 1 .. Len(buf_0) /\ Head(buf_0) = buf_0[1] /\ Len(buf_0) \in Nat
    BY <2>1
  <2>3. buf_0[1] = cpu.aw - 1 - Len(buf_0) + 1
    BY <2>2 DEF WritesInTurn, IdsInOrder
  <2>4. cpu.aw = Answered + 1 + Len(buf_0) /\ Applied.of = Answered + 1
    BY DEF WritesInTurn
  <2> QED
    BY <1>1, <1>2, <1>3, <2>1, <2>2, <2>3, <2>4
<1>6. /\ int_wvalid_wire => int_wdata_wire = Applied
      /\ ~int_wvalid_wire => Applied = cpu.w
  BY AppliedIs DEF int_wvalid_wire, int_wdata_wire
<1> QED
  BY <1>3, <1>4, <1>5, <1>6

\* A beat is applied when its address is there and the answer has a place; with
\* the last one the answer enters and the address leaves.
LEMMA WriteEdge ==
  ASSUME HubTyped, WritesInTurn, NEW awvalid, NEW wvalid, NEW bready, NEW arvalid, NEW rready,
         AnEdge(awvalid, wvalid, bready, arvalid, rready)
  PROVE  /\ WritesInTurn'
         /\ Applied' = IF int_we_wire(bready) THEN After(writes, Applied) ELSE Applied
         /\ Answered' = IF int_we_wire(bready) /\ int_wlast_wire
                          THEN Answered + 1 ELSE Answered
         /\ cpu'.aw \in 1 .. MaxWrites + 1 /\ cpu'.w \in Places /\ cpu'.b \in Nat
         /\ cpu.b <= cpu'.b
<1> DEFINE we == int_we_wire(bready)
           wlast == int_wlast_wire
<1>1. /\ awvalid \in BOOLEAN /\ wvalid \in BOOLEAN /\ bready \in BOOLEAN
      /\ arvalid \in BOOLEAN /\ rready \in BOOLEAN
      /\ HubClock(awvalid, wvalid, bready, arvalid, rready)
  BY DEF AnEdge
<1>2. MaxWrites \in Nat
  BY HubAssumption
<1>3. /\ cpu.aw \in 1 .. MaxWrites + 1 /\ cpu.w \in Places /\ cpu.b \in Nat
      /\ buf_2.valid \in BOOLEAN /\ int_awcntr_reg \in Nat
      /\ cpu.w.of \in Nat
  BY DEF HubTyped, Places
<1>4. /\ awvalid => cpu.aw <= MaxWrites /\ in_ready(buf_0)
      /\ wvalid => cpu.w.of <= MaxWrites /\ in_ready(buf_1)
      /\ buf_0' = QueueEdge(buf_0, awvalid, cpu.aw, int_awready_wire(bready))
      /\ buf_1' = QueueEdge(buf_1, wvalid, cpu.w, int_wready_wire(bready))
      /\ buf_2' = OutputEdge(buf_2, int_bvalid_wire, int_awid_wire, bready)
      /\ CounterEdge(bready, rready)
      /\ CpuEdge(awvalid, wvalid, bready, arvalid, rready)
      /\ writes' = writes
  BY <1>1 DEF HubClock
<1>5. /\ cpu'.aw = IF awvalid THEN cpu.aw + 1 ELSE cpu.aw
      /\ cpu'.w = IF wvalid THEN After(writes, cpu.w) ELSE cpu.w
      /\ cpu'.b = IF buf_2.valid /\ bready THEN cpu.b + 1 ELSE cpu.b
  BY <1>4 DEF CpuEdge
<1>6. /\ int_wready_wire(bready) \in BOOLEAN /\ int_awready_wire(bready) \in BOOLEAN
      /\ (buf_1 # <<>> /\ int_wready_wire(bready) <=> we)
      /\ (buf_0 # <<>> /\ int_awready_wire(bready) <=> we /\ wlast)
  BY DEF int_wready_wire, int_awready_wire, int_we_wire, int_wlast_wire,
         int_wvalid_wire, int_awvalid_wire
<1>7. NoneEmpty(writes, MaxWrites)
  BY AccessFacts DEF NoneEmpty
<1>8. /\ BeatsInOrder(writes, MaxWrites, buf_1', cpu'.w)
      /\ Applied' = IF we THEN After(writes, Applied) ELSE Applied
  <2>1. BeatsInOrder(writes, MaxWrites, buf_1, cpu.w)
    BY DEF WritesInTurn
  <2>2. PICK ready : ready = int_wready_wire(bready)
    OBVIOUS
  <2>3. ready \in BOOLEAN /\ buf_1' = QueueEdge(buf_1, wvalid, cpu.w, ready)
    BY <1>4, <1>6, <2>2
  <2>4. wvalid => in_ready(buf_1) /\ cpu.w.of <= MaxWrites
    BY <1>4
  <2>5. /\ cpu'.w = IF wvalid THEN After(writes, cpu.w) ELSE cpu.w
        /\ Applied = IF buf_1 # <<>> THEN Head(buf_1) ELSE cpu.w
    BY <1>5, AppliedIs
  <2>6. /\ BeatsInOrder(writes, MaxWrites, buf_1', cpu'.w)
        /\ (IF buf_1' # <<>> THEN Head(buf_1') ELSE cpu'.w) =
             IF buf_1 # <<>> /\ ready THEN After(writes, Applied) ELSE Applied
    BY <1>1, <1>2, <1>7, <2>1, <2>3, <2>4, <2>5, BeatsAdvance
  <2>7. buf_1 # <<>> /\ ready <=> we
    BY <1>6, <2>2
  <2> HIDE DEF we
  <2> QED
    BY <2>6, <2>7, NextAppliedIs
<1>9. /\ IdsInOrder(buf_0', cpu'.aw)
      /\ Len(buf_0') = Len(buf_0) - (IF we /\ wlast THEN 1 ELSE 0)
                       + (IF awvalid THEN 1 ELSE 0)
  <2>1. IdsInOrder(buf_0, cpu.aw) /\ cpu.aw \in Nat
    BY <1>3 DEF WritesInTurn
  <2>2. PICK ready : ready = int_awready_wire(bready)
    OBVIOUS
  <2>3. ready \in BOOLEAN /\ buf_0' = QueueEdge(buf_0, awvalid, cpu.aw, ready)
    BY <1>4, <1>6, <2>2
  <2>4. awvalid => in_ready(buf_0)
    BY <1>4
  <2>5. buf_0 # <<>> /\ ready <=> we /\ wlast
    BY <1>6, <2>2
  <2> DEFINE rest == QueueEdge(buf_0, awvalid, cpu.aw, ready)
  <2>6. /\ IdsInOrder(rest, IF awvalid THEN cpu.aw + 1 ELSE cpu.aw)
        /\ Len(rest) = Len(buf_0) - Leaving(buf_0, ready) + Entering(awvalid)
    BY <1>1, <2>1, <2>3, <2>4, IdsAdvance
  <2> HIDE DEF we, wlast, rest
  <2>7. rest = buf_0'
    BY <2>3 DEF rest
  <2> QED
    BY <1>5, <2>5, <2>6, <2>7 DEF Entering, Leaving
<1>10. Answered' = IF we /\ wlast THEN Answered + 1 ELSE Answered
  <2>1. buf_2'.valid = IF ~buf_2.valid \/ bready THEN int_bvalid_wire ELSE buf_2.valid
    BY <1>4 DEF OutputEdge, OutputReady
  <2>2. we /\ wlast <=> (~buf_2.valid \/ bready) /\ int_bvalid_wire
    BY DEF int_we_wire, int_bvalid_wire, int_bready_wire, OutputReady
  <2>3. int_bvalid_wire \in BOOLEAN
    BY DEF int_bvalid_wire, int_wlast_wire, int_awvalid_wire, int_wvalid_wire
  <2> QED
    BY <1>1, <1>3, <1>5, <2>1, <2>2, <2>3 DEF Answered
<1>11. /\ IsPlace(writes, MaxWrites, Applied) /\ Answered \in Nat
       /\ Applied.of = Answered + 1 /\ Applied.beat = int_awcntr_reg
       /\ cpu.aw = Answered + 1 + Len(buf_0)
  BY WritePlace DEF WritesInTurn
<1>12. /\ int_awcntr_reg' = IF ~we THEN int_awcntr_reg
                            ELSE IF wlast THEN 0 ELSE int_awcntr_reg + 1
  BY <1>4 DEF CounterEdge
<1>13. ASSUME we
       PROVE  After(writes, Applied) = IF wlast THEN [of |-> Applied.of + 1, beat |-> 0]
                                       ELSE [of |-> Applied.of, beat |-> Applied.beat + 1]
  <2>1. int_wvalid_wire /\ int_awvalid_wire
    BY <1>13 DEF int_we_wire
  <2>2. int_wdata_wire = Applied /\ Applied.of <= MaxWrites
    BY <1>2, <1>11, <2>1, WritePlace
  <2>3. wlast <=> Applied.beat + 1 = writes[Applied.of].len
    BY <2>1, <2>2 DEF int_wlast_wire
  <2> HIDE DEF wlast
  <2> QED
    BY <1>2, <1>7, <1>11, <2>2, <2>3, AfterFacts
<1>14. Applied'.of = Answered' + 1 /\ Applied'.beat = int_awcntr_reg'
  <2> HIDE DEF we, wlast
  <2>1. CASE we /\ wlast
    BY <1>8, <1>10, <1>11, <1>12, <1>13, <2>1
  <2>2. CASE we /\ ~wlast
    BY <1>8, <1>10, <1>11, <1>12, <1>13, <2>2
  <2>3. CASE ~we
    BY <1>8, <1>10, <1>11, <1>12, <2>3
  <2> QED
    BY <2>1, <2>2, <2>3
<1>15. cpu'.aw = Answered' + 1 + Len(buf_0')
  <2>1. Len(buf_0) \in Nat
    BY DEF WritesInTurn, IdsInOrder
  <2> DEFINE out == IF we /\ wlast THEN 1 ELSE 0
             in == IF awvalid THEN 1 ELSE 0
  <2>2. out \in {0, 1} /\ in \in {0, 1}
    OBVIOUS
  <2>3. Len(buf_0') = Len(buf_0) - out + in
    BY <1>9
  <2>4. Answered' = Answered + out
    BY <1>10, <1>11
  <2>5. cpu'.aw = cpu.aw + in
    BY <1>3, <1>5
  <2> HIDE DEF out, in
  <2> QED
    BY <1>3, <1>11, <2>1, <2>2, <2>3, <2>4, <2>5
<1>16. WritesInTurn'
  BY <1>4, <1>8, <1>9, <1>14, <1>15 DEF WritesInTurn
<1>17. cpu'.aw \in 1 .. MaxWrites + 1 /\ cpu'.b \in Nat /\ cpu.b <= cpu'.b
  BY <1>2, <1>3, <1>4, <1>5
<1>18. cpu'.w \in Places
  BY <1>8 DEF BeatsInOrder, IsPlace
<1> QED
  BY <1>8, <1>10, <1>16, <1>17, <1>18
-----------------------------------------------------------------------------
\* A clock edge on the side of the reads.

\* The request at the head of its queue is the one being read.
LEMMA ReadPlace ==
  ASSUME HubTyped, ReadsInTurn
  PROVE  /\ Fetched = [of |-> cpu.ar - Len(buf_3), beat |-> int_arcntr_reg]
         /\ IsPlace(reads, MaxReads, Fetched)
         /\ int_arvalid_wire => /\ int_arid_wire = Fetched.of
                                /\ Fetched.of \in 1 .. MaxReads
                                /\ Fetched.of < cpu.ar
         /\ ~int_arvalid_wire => Fetched.of = cpu.ar
         /\ Len(buf_3) \in Nat /\ Fetched.of \in Nat /\ Fetched.of <= cpu.ar
<1>1. cpu.ar \in 1 .. MaxReads + 1 /\ MaxReads \in Nat
  BY HubAssumption DEF HubTyped
<1>2. IdsInOrder(buf_3, cpu.ar) /\ IsPlace(reads, MaxReads, Fetched)
  BY DEF ReadsInTurn
<1>3. Len(buf_3) \in Nat
  BY <1>2 DEF IdsInOrder
<1>4. Fetched = [of |-> IF buf_3 # <<>> THEN Head(buf_3) ELSE cpu.ar,
                 beat |-> int_arcntr_reg]
  BY DEF Fetched, InTurn, int_arvalid_wire, int_arid_wire
<1>5. CASE buf_3 # <<>>
  <2>1. 1 \in 1 .. Len(buf_3) /\ Head(buf_3) = buf_3[1]
    BY <1>2, <1>5 DEF IdsInOrder
  <2>2. buf_3[1] = cpu.ar - 1 - Len(buf_3) + 1 /\ Len(buf_3) < cpu.ar
    BY <1>2, <2>1 DEF IdsInOrder
  <2>3. Head(buf_3) = cpu.ar - Len(buf_3) /\ Len(buf_3) > 0
    BY <1>1, <1>3, <2>1, <2>2
  <2>4. int_arvalid_wire /\ int_arid_wire = Head(buf_3)
    BY <1>5 DEF int_arvalid_wire, int_arid_wire
  <2>5. Fetched.of = Head(buf_3)
    BY <1>4, <1>5
  <2> QED
    BY <1>1, <1>2, <1>3, <1>4, <1>5, <2>2, <2>3, <2>4, <2>5
<1>6. CASE buf_3 = <<>>
  <2>1. ~int_arvalid_wire /\ Len(buf_3) = 0
    BY <1>6 DEF int_arvalid_wire
  <2>2. Fetched.of = cpu.ar
    BY <1>4, <1>6
  <2> QED
    BY <1>1, <1>2, <1>4, <1>6, <2>1, <2>2
<1> QED
  BY <1>5, <1>6

\* The reply on the port belongs to a read that has not been received in full.
LEMMA ReplyRequested ==
  ASSUME HubTyped, ReadsInTurn, buf_4.valid
  PROVE  /\ cpu.r.of < cpu.ar
         /\ After(reads, cpu.r) = Fetched
         /\ Fetched = IF Fetched.beat = 0 THEN [of |-> cpu.r.of + 1, beat |-> 0]
                      ELSE [of |-> cpu.r.of, beat |-> cpu.r.beat + 1]
<1>1. /\ IsPlace(reads, MaxReads, cpu.r) /\ cpu.r.of <= MaxReads
      /\ After(reads, cpu.r) = Fetched
      /\ buf_3 = <<>> => int_arcntr_reg = 0
  BY DEF ReadsInTurn
<1>2. NoneEmpty(reads, MaxReads) /\ MaxReads \in Nat
  BY AccessFacts, HubAssumption DEF NoneEmpty
<1>3. Fetched = IF cpu.r.beat + 1 = reads[cpu.r.of].len
                  THEN [of |-> cpu.r.of + 1, beat |-> 0]
                  ELSE [of |-> cpu.r.of, beat |-> cpu.r.beat + 1]
  BY <1>1, <1>2, AfterFacts
<1>4. cpu.r.of \in Nat /\ cpu.r.beat \in Nat /\ cpu.ar \in Nat
  BY DEF HubTyped, Places
<1>5. Fetched.beat = int_arcntr_reg /\ Fetched.of <= cpu.ar
      /\ (buf_3 # <<>> => Fetched.of < cpu.ar) /\ Fetched.of \in Nat
  BY ReadPlace DEF int_arvalid_wire
<1>6. CASE cpu.r.beat + 1 = reads[cpu.r.of].len
  <2>1. Fetched.of = cpu.r.of + 1 /\ Fetched.beat = 0
        /\ Fetched = [of |-> cpu.r.of + 1, beat |-> 0]
    BY <1>3, <1>6
  <2> QED
    BY <1>1, <1>4, <1>5, <2>1
<1>7. CASE cpu.r.beat + 1 # reads[cpu.r.of].len
  <2>1. Fetched.of = cpu.r.of /\ Fetched.beat = cpu.r.beat + 1
        /\ Fetched = [of |-> cpu.r.of, beat |-> cpu.r.beat + 1]
    BY <1>3, <1>7
  <2>2. Fetched.beat # 0 /\ buf_3 # <<>>
    BY <1>1, <1>4, <1>5, <2>1
  <2> QED
    BY <1>1, <1>4, <1>5, <2>1, <2>2
<1> QED
  BY <1>6, <1>7

\* A beat is read when a request is there and the reply has a place; with the
\* last one the request leaves.
LEMMA ReadEdge ==
  ASSUME HubTyped, ReadsInTurn, NEW awvalid, NEW wvalid, NEW bready, NEW arvalid, NEW rready,
         AnEdge(awvalid, wvalid, bready, arvalid, rready)
  PROVE  /\ ReadsInTurn'
         /\ Fetched' = IF int_re_wire(rready) THEN After(reads, Fetched) ELSE Fetched
         /\ cpu'.ar \in 1 .. MaxReads + 1 /\ cpu'.r \in Places
         /\ int_arcntr_reg' \in Nat
         /\ cpu'.r = IF buf_4.valid /\ rready THEN After(reads, cpu.r) ELSE cpu.r
         /\ OutputReady(buf_4, rready) => cpu'.r = Fetched
<1> DEFINE re == int_re_wire(rready)
           rlast == int_rlast_wire
<1>1. /\ awvalid \in BOOLEAN /\ wvalid \in BOOLEAN /\ bready \in BOOLEAN
      /\ arvalid \in BOOLEAN /\ rready \in BOOLEAN
      /\ HubClock(awvalid, wvalid, bready, arvalid, rready)
  BY DEF AnEdge
<1>2. MaxReads \in Nat /\ NoneEmpty(reads, MaxReads)
  BY HubAssumption, AccessFacts DEF NoneEmpty
<1>3. /\ cpu.ar \in 1 .. MaxReads + 1 /\ cpu.r \in Places
      /\ buf_4.valid \in BOOLEAN /\ int_arcntr_reg \in Nat
  BY DEF HubTyped
<1>4. /\ arvalid => cpu.ar <= MaxReads /\ in_ready(buf_3)
      /\ buf_3' = QueueEdge(buf_3, arvalid, cpu.ar, int_arready_wire(rready))
      /\ buf_4' = OutputEdge(buf_4, int_arvalid_wire, int_rdata_wire, rready)
      /\ CounterEdge(bready, rready)
      /\ CpuEdge(awvalid, wvalid, bready, arvalid, rready)
      /\ reads' = reads
  BY <1>1 DEF HubClock
<1>5. /\ cpu'.ar = IF arvalid THEN cpu.ar + 1 ELSE cpu.ar
      /\ cpu'.r = IF buf_4.valid /\ rready THEN After(reads, cpu.r) ELSE cpu.r
  BY <1>4 DEF CpuEdge
<1>6. /\ Fetched = [of |-> cpu.ar - Len(buf_3), beat |-> int_arcntr_reg]
      /\ IsPlace(reads, MaxReads, Fetched)
      /\ int_arvalid_wire => int_arid_wire = Fetched.of /\ Fetched.of \in 1 .. MaxReads
      /\ ~int_arvalid_wire => Fetched.of = cpu.ar
      /\ Len(buf_3) \in Nat /\ Fetched.of \in Nat
  BY ReadPlace
<1>7. /\ re <=> OutputReady(buf_4, rready) /\ int_arvalid_wire
      /\ buf_3 # <<>> /\ int_arready_wire(rready) <=> re /\ rlast
      /\ int_arready_wire(rready) \in BOOLEAN
  BY DEF int_re_wire, int_rready_wire, int_arready_wire, int_arvalid_wire, int_rlast_wire
<1>8. /\ IdsInOrder(buf_3', cpu'.ar)
      /\ Len(buf_3') = Len(buf_3) - (IF re /\ rlast THEN 1 ELSE 0) + Entering(arvalid)
  <2>1. IdsInOrder(buf_3, cpu.ar) /\ cpu.ar \in Nat
    BY <1>3 DEF ReadsInTurn
  <2>2. PICK ready : ready = int_arready_wire(rready)
    OBVIOUS
  <2>3. ready \in BOOLEAN /\ buf_3' = QueueEdge(buf_3, arvalid, cpu.ar, ready)
    BY <1>4, <1>7, <2>2
  <2>4. arvalid => in_ready(buf_3)
    BY <1>4
  <2>5. buf_3 # <<>> /\ ready <=> re /\ rlast
    BY <1>7, <2>2
  <2> DEFINE rest == QueueEdge(buf_3, arvalid, cpu.ar, ready)
  <2>6. /\ IdsInOrder(rest, IF arvalid THEN cpu.ar + 1 ELSE cpu.ar)
        /\ Len(rest) = Len(buf_3) - Leaving(buf_3, ready) + Entering(arvalid)
    BY <1>1, <2>1, <2>3, <2>4, IdsAdvance
  <2> HIDE DEF re, rlast, rest
  <2>7. rest = buf_3'
    BY <2>3 DEF rest
  <2>8. Leaving(buf_3, ready) = IF re /\ rlast THEN 1 ELSE 0
    BY <2>5 DEF Leaving
  <2> QED
    BY <1>5, <2>6, <2>7, <2>8
<1>9. /\ Fetched' = [of |-> cpu'.ar - Len(buf_3'), beat |-> int_arcntr_reg']
  <2>1. /\ buf_3' # <<>> => Head(buf_3') = cpu'.ar - Len(buf_3')
        /\ buf_3' = <<>> => Len(buf_3') = 0
    <3>1. ASSUME buf_3' # <<>> PROVE Head(buf_3') = cpu'.ar - Len(buf_3')
      <4>1. 1 \in 1 .. Len(buf_3') /\ Head(buf_3') = buf_3'[1] /\ Len(buf_3') \in Nat
        BY <1>8, <3>1 DEF IdsInOrder
      <4>2. buf_3'[1] = cpu'.ar - 1 - Len(buf_3') + 1
        BY <1>8, <4>1 DEF IdsInOrder
      <4>3. cpu'.ar \in Int
        BY <1>3, <1>5
      <4> QED
        BY <4>1, <4>2, <4>3
    <3> QED
      BY <3>1
  <2>2. cpu'.ar \in Nat
    BY <1>3, <1>5
  <2>3. Fetched' = [of |-> IF buf_3' # <<>> THEN Head(buf_3') ELSE cpu'.ar,
                    beat |-> int_arcntr_reg']
    BY DEF Fetched, InTurn, int_arvalid_wire, int_arid_wire
  <2> QED
    BY <2>1, <2>2, <2>3
<1>10. int_arcntr_reg' = IF ~re THEN int_arcntr_reg
                         ELSE IF rlast THEN 0 ELSE int_arcntr_reg + 1
  BY <1>4 DEF CounterEdge
<1>11. ASSUME re
       PROVE  After(reads, Fetched) = IF rlast THEN [of |-> Fetched.of + 1, beat |-> 0]
                                      ELSE [of |-> Fetched.of, beat |-> Fetched.beat + 1]
  <2>1. int_arvalid_wire
    BY <1>7, <1>11
  <2>2. int_arid_wire = Fetched.of /\ Fetched.of <= MaxReads /\ Fetched.beat = int_arcntr_reg
    BY <1>2, <1>6, <2>1
  <2>3. rlast <=> Fetched.beat + 1 = reads[Fetched.of].len
    BY <2>1, <2>2 DEF int_rlast_wire
  <2> HIDE DEF rlast
  <2> QED
    BY <1>2, <1>6, <2>2, <2>3, AfterFacts
<1>12. cpu'.ar - Len(buf_3') = Fetched.of + (IF re /\ rlast THEN 1 ELSE 0)
  <2> DEFINE out == IF re /\ rlast THEN 1 ELSE 0
             in == IF arvalid THEN 1 ELSE 0
  <2>1. out \in {0, 1} /\ in \in {0, 1}
    OBVIOUS
  <2>2. Len(buf_3') = Len(buf_3) - out + in
    BY <1>8 DEF Entering
  <2>3. cpu'.ar = cpu.ar + in /\ Fetched.of = cpu.ar - Len(buf_3)
    BY <1>3, <1>5, <1>6
  <2> HIDE DEF out, in
  <2>4. cpu'.ar - Len(buf_3') = Fetched.of + out
    BY <1>3, <1>6, <2>1, <2>2, <2>3
  <2> QED
    BY <2>4 DEF out
<1>13. Fetched' = IF re THEN After(reads, Fetched) ELSE Fetched
  <2>1. Fetched.beat = int_arcntr_reg
        /\ Fetched = [of |-> Fetched.of, beat |-> int_arcntr_reg]
    BY <1>6
  <2>2. Fetched.of \in Nat
    BY <1>6
  <2> HIDE DEF re, rlast
  <2>3. CASE re /\ rlast
    BY <1>9, <1>10, <1>11, <1>12, <2>3
  <2>4. CASE re /\ ~rlast
    BY <1>9, <1>10, <1>11, <1>12, <2>1, <2>2, <2>4
  <2>5. CASE ~re
    <3>1. cpu'.ar - Len(buf_3') = Fetched.of /\ int_arcntr_reg' = int_arcntr_reg
      BY <1>10, <1>12, <2>2, <2>5
    <3>2. Fetched' = Fetched
      BY <1>9, <2>1, <3>1
    <3> QED
      BY <2>5, <3>2
  <2> QED
    BY <2>3, <2>4, <2>5
<1>14. buf_3' = <<>> => int_arcntr_reg' = 0
  <2> SUFFICES ASSUME buf_3' = <<>> PROVE int_arcntr_reg' = 0
    OBVIOUS
  <2> DEFINE out == IF re /\ rlast THEN 1 ELSE 0
             in == IF arvalid THEN 1 ELSE 0
  <2>1. 0 = Len(buf_3) - out + in /\ out \in {0, 1} /\ in \in {0, 1}
    BY <1>8 DEF Entering
  <2>2. Len(buf_3) = out
    <3> HIDE DEF out, in
    <3>1. Len(buf_3) = out - in
      BY <1>6, <2>1
    <3>2. in = 0 \/ (out = 1 /\ in = 1 /\ Len(buf_3) = 0)
      BY <1>6, <2>1, <3>1
    <3>3. out = 1 => buf_3 # <<>>
      BY <1>7 DEF out
    <3>4. Len(buf_3) = 0 => buf_3 = <<>>
      BY DEF ReadsInTurn, IdsInOrder
    <3> QED
      BY <1>6, <2>1, <3>1, <3>2, <3>3, <3>4
  <2>3. CASE re /\ rlast
    BY <1>10, <2>3
  <2>4. CASE ~(re /\ rlast)
    <3>1. Len(buf_3) = 0 /\ buf_3 = <<>>
      BY <2>2, <2>4 DEF ReadsInTurn, IdsInOrder
    <3>2. ~re
      BY <1>7, <3>1 DEF int_arvalid_wire
    <3>3. int_arcntr_reg = 0
      BY <3>1 DEF ReadsInTurn
    <3> QED
      BY <1>10, <3>2, <3>3
  <2> QED
    BY <2>3, <2>4
<1>15. IsPlace(reads, MaxReads, Fetched')
  <2>1. re => Fetched.of <= MaxReads
    BY <1>2, <1>6, <1>7
  <2> HIDE DEF re
  <2> QED
    BY <1>2, <1>6, <1>13, <2>1, AfterFacts
<1>16. OutputReady(buf_4, rready) => cpu'.r = Fetched
  BY <1>3, <1>5 DEF OutputReady, ReadsInTurn
<1>17. ~OutputReady(buf_4, rready) => cpu'.r = cpu.r /\ buf_4' = buf_4
  <2> SUFFICES ASSUME ~OutputReady(buf_4, rready) PROVE cpu'.r = cpu.r /\ buf_4' = buf_4
    OBVIOUS
  <2>1. cpu'.r = cpu.r
    BY <1>5 DEF OutputReady
  <2>2. buf_4' = [valid |-> buf_4.valid, data |-> buf_4.data]
    BY <1>4 DEF OutputEdge, OutputLoad
  <2>3. buf_4 = [valid |-> buf_4.valid, data |-> buf_4.data]
    BY DEF HubTyped
  <2> QED
    BY <2>1, <2>2, <2>3
<1>18. OutputReady(buf_4, rready) =>
         /\ buf_4'.valid = int_arvalid_wire
         /\ buf_4'.data = int_rdata_wire
  BY <1>4 DEF OutputEdge, OutputLoad
<1>19. int_arvalid_wire => int_rdata_wire.place = Fetched
  <2> SUFFICES ASSUME int_arvalid_wire PROVE int_rdata_wire.place = Fetched
    OBVIOUS
  <2>1. int_rdata_wire.place = [of |-> int_arid_wire, beat |-> int_arcntr_reg]
    BY DEF int_rdata_wire
  <2>2. Fetched = [of |-> int_arid_wire, beat |-> int_arcntr_reg]
    BY DEF Fetched, InTurn
  <2> QED
    BY <2>1, <2>2
<1>20. IsPlace(reads, MaxReads, cpu'.r)
  BY <1>6, <1>16, <1>17 DEF ReadsInTurn
<1>21. IF buf_4'.valid THEN /\ buf_4'.data.place = cpu'.r /\ cpu'.r.of <= MaxReads
                            /\ After(reads, cpu'.r) = Fetched'
                       ELSE cpu'.r = Fetched'
  <2> HIDE DEF re, rlast
  <2>1. CASE OutputReady(buf_4, rready) /\ int_arvalid_wire
    <3>1. buf_4'.valid /\ buf_4'.data.place = Fetched /\ cpu'.r = Fetched
      BY <1>16, <1>18, <1>19, <2>1
    <3>2. Fetched' = After(reads, Fetched)
      BY <1>7, <1>13, <2>1
    <3>3. Fetched.of <= MaxReads
      BY <1>2, <1>6, <2>1
    <3> QED
      BY <3>1, <3>2, <3>3
  <2>2. CASE OutputReady(buf_4, rready) /\ ~int_arvalid_wire
    <3>1. ~buf_4'.valid /\ cpu'.r = Fetched /\ Fetched' = Fetched
      BY <1>7, <1>13, <1>16, <1>18, <2>2
    <3> QED
      BY <3>1
  <2>3. CASE ~OutputReady(buf_4, rready)
    <3>1. buf_4' = buf_4 /\ cpu'.r = cpu.r /\ Fetched' = Fetched /\ buf_4.valid
      BY <1>7, <1>13, <1>17, <2>3 DEF OutputReady
    <3> QED
      BY <3>1 DEF ReadsInTurn
  <2> QED
    BY <2>1, <2>2, <2>3
<1>22. ReadsInTurn'
  BY <1>4, <1>8, <1>14, <1>15, <1>20, <1>21 DEF ReadsInTurn
<1>23. cpu'.ar \in 1 .. MaxReads + 1 /\ cpu'.r \in Places
  <2>1. cpu'.ar \in 1 .. MaxReads + 1
    BY <1>2, <1>3, <1>4, <1>5
  <2> QED
    BY <1>20, <2>1 DEF IsPlace
<1>24. int_arcntr_reg' \in Nat
  BY <1>3, <1>10
<1> QED
  BY <1>5, <1>13, <1>16, <1>22, <1>23, <1>24

-----------------------------------------------------------------------------
\* What a clock edge does to the bytes and to the replies.

\* The flip-flops that a beat names take it, and no others.
LEMMA CfgFacts ==
  ASSUME HubTyped, WritesInTurn, NEW awvalid, NEW wvalid, NEW bready, NEW arvalid, NEW rready,
         AnEdge(awvalid, wvalid, bready, arvalid, rready)
  PROVE  /\ cfg_data' = IF int_we_wire(bready)
                          THEN Registers!Written(cfg_data, writes[Applied.of], Applied)
                          ELSE cfg_data
         /\ int_we_wire(bready) =>
              /\ Applied.of \in 1 .. MaxWrites
              /\ Applied.beat < writes[Applied.of].len
              /\ After(writes, Applied) =
                   IF Applied.beat + 1 = writes[Applied.of].len
                     THEN [of |-> Applied.of + 1, beat |-> 0]
                     ELSE [of |-> Applied.of, beat |-> Applied.beat + 1]
<1>1. CfgEdge(bready)
  BY DEF AnEdge, HubClock
<1>2. CASE int_we_wire(bready)
  <2>1. int_wvalid_wire /\ int_awvalid_wire
    BY <1>2 DEF int_we_wire
  <2>2. /\ int_awid_wire = Applied.of /\ Applied.of \in 1 .. MaxWrites
        /\ int_wdata_wire = Applied /\ IsPlace(writes, MaxWrites, Applied)
    BY <2>1, WritePlace
  <2>3. Applied.beat = int_awcntr_reg
    BY DEF WritesInTurn
  <2>4. cfg_data' = [cfg_data EXCEPT ![writes[Applied.of].word + Applied.beat] =
                    [l \in 1 .. Lanes |->
                        IF l \in writes[Applied.of].strobe
                          THEN Applied ELSE @[l]]]
    BY <1>1, <1>2, <2>2, <2>3 DEF CfgEdge
  <2>5. cfg_data' = Registers!Written(cfg_data, writes[Applied.of], Applied)
    BY <2>4 DEF Registers!Written
  <2>6. MaxWrites \in Nat /\ NoneEmpty(writes, MaxWrites)
    BY HubAssumption, AccessFacts DEF NoneEmpty
  <2>7. Applied.of <= MaxWrites /\ Applied.beat < writes[Applied.of].len
    BY <2>2, <2>6 DEF IsPlace
  <2> QED
    BY <1>2, <2>2, <2>5, <2>6, <2>7, AfterFacts
<1>3. CASE ~int_we_wire(bready)
  BY <1>1, <1>3 DEF CfgEdge
<1> QED
  BY <1>2, <1>3

\* One byte after a beat has been applied.
LEMMA ByteWritten ==
  ASSUME HubTyped, NEW k \in 1 .. MaxWrites, NEW place \in Places,
         place.beat < writes[k].len, NEW w \in 0 .. Words - 1, NEW l \in 1 .. Lanes
  PROVE  Registers!Written(cfg_data, writes[k], place)[w][l] =
           IF w = writes[k].word + place.beat /\ l \in writes[k].strobe
             THEN place ELSE cfg_data[w][l]
<1>1. cfg_data \in [0 .. Words - 1 -> [1 .. Lanes -> Places]]
  BY DEF HubTyped
<1>2. writes[k].word \in Nat /\ writes[k].len \in Nat
      /\ writes[k].word + writes[k].len <= Words /\ Words \in Nat
      /\ place.beat \in Nat
  BY AccessFacts, HubAssumption DEF Places
<1>3. writes[k].word + place.beat \in 0 .. Words - 1
  BY <1>2
<1> QED
  BY <1>1, <1>3 DEF Registers!Written

\* No byte forgets a write it has seen, and the beat applied is the newest.
LEMMA BytesEdge ==
  ASSUME HubTyped, WritesInTurn, BytesNew,
         NEW awvalid, NEW wvalid, NEW bready, NEW arvalid, NEW rready,
         AnEdge(awvalid, wvalid, bready, arvalid, rready)
  PROVE  /\ BytesNew'
         /\ cfg_data' \in [0 .. Words - 1 -> [1 .. Lanes -> Places]]
         /\ \A w \in 0 .. Words - 1, l \in 1 .. Lanes :
               cfg_data'[w][l].of \in 0 .. MaxWrites
<1>1. /\ Applied' = IF int_we_wire(bready) THEN After(writes, Applied) ELSE Applied
      /\ writes' = writes
  BY WriteEdge DEF AnEdge, HubClock
<1>2. /\ cfg_data \in [0 .. Words - 1 -> [1 .. Lanes -> Places]]
      /\ \A w \in 0 .. Words - 1, l \in 1 .. Lanes : cfg_data[w][l].of \in 0 .. MaxWrites
  BY DEF HubTyped
<1>3. CASE ~int_we_wire(bready)
  <2>1. Applied' = Applied /\ cfg_data' = cfg_data
    BY <1>1, <1>3, CfgFacts
  <2>2. BytesNew'
    BY <1>1, <2>1 DEF BytesNew, IsApplied
  <2> QED
    BY <1>2, <2>1, <2>2
<1>4. CASE int_we_wire(bready)
  <2> DEFINE k0 == Applied.of
             w0 == writes[Applied.of].word + Applied.beat
  <2>1. /\ k0 \in 1 .. MaxWrites /\ Applied.beat < writes[k0].len
        /\ cfg_data' = Registers!Written(cfg_data, writes[k0], Applied)
        /\ Applied' = IF Applied.beat + 1 = writes[k0].len
                        THEN [of |-> k0 + 1, beat |-> 0]
                        ELSE [of |-> k0, beat |-> Applied.beat + 1]
    BY <1>1, <1>4, CfgFacts
  <2>2. Applied \in Places /\ Applied.beat \in Nat /\ MaxWrites \in Nat
    BY WritePlace, HubAssumption DEF IsPlace, Places
  <2>3. writes[k0].word \in Nat /\ writes[k0].len \in Nat
    BY <2>1, AccessFacts
  <2>4. \A w \in 0 .. Words - 1, l \in 1 .. Lanes :
           cfg_data'[w][l] = IF w = w0 /\ l \in writes[k0].strobe
                               THEN Applied ELSE cfg_data[w][l]
    BY <2>1, <2>2, ByteWritten
  <2>5. cfg_data' \in [0 .. Words - 1 -> [1 .. Lanes -> Places]]
    BY <1>2, <2>1, <2>2 DEF Registers!Written
  <2>6. \A w \in 0 .. Words - 1, l \in 1 .. Lanes :
               cfg_data'[w][l].of \in 0 .. MaxWrites
    <3> TAKE w \in 0 .. Words - 1, l \in 1 .. Lanes
    <3>1. k0 \in 0 .. MaxWrites
      BY <2>1
    <3>2. CASE w = w0 /\ l \in writes[k0].strobe
      BY <2>4, <3>1, <3>2
    <3>3. CASE ~(w = w0 /\ l \in writes[k0].strobe)
      BY <1>2, <2>4, <3>3
    <3> QED
      BY <3>2, <3>3
  <2>7. ASSUME NEW k \in 1 .. MaxWrites, NEW w \in 0 .. Words - 1, NEW l \in 1 .. Lanes,
               l \in writes[k].strobe, IsApplied(k, w)'
        PROVE  k <= cfg_data'[w][l].of
    <3>1. /\ writes[k].word \in Nat /\ w >= writes[k].word
          /\ w < writes[k].word + writes[k].len
          /\ \/ k < Applied'.of
             \/ k = Applied'.of /\ w < writes[k].word + Applied'.beat
      BY <1>1, <2>7, AccessFacts DEF IsApplied
    <3>2. w \in Nat /\ k \in Nat /\ k0 \in Nat /\ cfg_data[w][l].of \in Int
      BY <1>2, <2>1
    <3>3. k < k0 \/ (k = k0 /\ w < w0) \/ (k = k0 /\ w = w0)
      <4>1. CASE Applied.beat + 1 = writes[k0].len
        <5>1. Applied'.of = k0 + 1 /\ Applied'.beat = 0
          BY <2>1, <4>1
        <5>2. k <= k0
          BY <3>1, <3>2, <5>1
        <5>3. k = k0 => w <= w0
          BY <2>2, <2>3, <3>1, <3>2, <4>1
        <5> QED
          BY <2>2, <2>3, <3>2, <5>2, <5>3
      <4>2. CASE Applied.beat + 1 # writes[k0].len
        <5>1. Applied'.of = k0 /\ Applied'.beat = Applied.beat + 1
          BY <2>1, <4>2
        <5>2. k <= k0
          BY <3>1, <3>2, <5>1
        <5>3. k = k0 => w <= w0
          BY <2>2, <2>3, <3>1, <3>2, <5>1
        <5> QED
          BY <2>2, <2>3, <3>2, <5>2, <5>3
      <4> QED
        BY <4>1, <4>2
    <3>4. CASE k < k0 \/ (k = k0 /\ w < w0)
      <4>1. IsApplied(k, w)
        BY <3>1, <3>4 DEF IsApplied
      <4>2. k <= cfg_data[w][l].of
        BY <2>7, <4>1 DEF BytesNew
      <4>3. k <= k0
        BY <3>2, <3>4
      <4>4. cfg_data'[w][l] = Applied \/ cfg_data'[w][l] = cfg_data[w][l]
        BY <2>4
      <4> QED
        BY <4>2, <4>3, <4>4
    <3>5. CASE k = k0 /\ w = w0
      <4>1. cfg_data'[w][l] = Applied
        BY <2>4, <2>7, <3>5
      <4> QED
        BY <3>2, <3>5, <4>1
    <3> QED
      BY <3>3, <3>4, <3>5
  <2>8. BytesNew'
    BY <1>1, <2>7 DEF BytesNew
  <2> QED
    BY <2>5, <2>6, <2>8
<1> QED
  BY <1>3, <1>4

\* A read enters with the answers counted so far and leaves with its last beat.
LEMMA SinceEdge ==
  ASSUME HubTyped, WritesInTurn, ReadsInTurn, RequestsDated,
         NEW awvalid, NEW wvalid, NEW bready, NEW arvalid, NEW rready,
         AnEdge(awvalid, wvalid, bready, arvalid, rready)
  PROVE  /\ RequestsDated'
         /\ cpu'.since \in Seq(Nat)
         /\ \A i \in 1 .. Len(cpu'.since) : cpu'.since[i] <= cpu.b
         /\ buf_4.valid /\ ~rready => Len(cpu.since) > 0 /\ Head(cpu'.since) = Head(cpu.since)
<1> DEFINE data == buf_4.valid /\ rready
           complete == data /\ After(reads, cpu.r).beat = 0
           since == IF arvalid THEN Append(cpu.since, cpu.b) ELSE cpu.since
<1>1. /\ arvalid \in BOOLEAN /\ rready \in BOOLEAN
      /\ CpuEdge(awvalid, wvalid, bready, arvalid, rready)
  BY DEF AnEdge, HubClock
<1>2. /\ cpu'.since = IF complete THEN Tail(since) ELSE since
      /\ cpu'.ar = IF arvalid THEN cpu.ar + 1 ELSE cpu.ar
      /\ cpu'.r = IF data THEN After(reads, cpu.r) ELSE cpu.r
  BY <1>1 DEF CpuEdge
<1>3. /\ cpu.since \in Seq(Nat) /\ cpu.ar \in Nat /\ cpu.r.of \in Nat /\ cpu.b \in Nat
      /\ Len(cpu.since) \in Nat
  BY DEF HubTyped, Places
<1>4. /\ Len(cpu.since) = cpu.ar - cpu.r.of
      /\ \A i \in 1 .. Len(cpu.since) : cpu.since[i] <= cpu.b
  BY DEF RequestsDated
<1>5. cpu.b <= cpu'.b /\ cpu'.b \in Nat
  BY WriteEdge
<1>6. /\ since \in Seq(Nat) /\ Len(since) = Len(cpu.since) + (IF arvalid THEN 1 ELSE 0)
      /\ \A i \in 1 .. Len(since) : since[i] <= cpu.b
      /\ Len(cpu.since) > 0 => Head(since) = Head(cpu.since)
  <2>1. CASE arvalid
    <3>1. since = Append(cpu.since, cpu.b)
      BY <2>1
    <3>2. Append(cpu.since, cpu.b) \in Seq(Nat)
          /\ Len(Append(cpu.since, cpu.b)) = Len(cpu.since) + 1
      BY <1>3
    <3>3. \A i \in 1 .. Len(cpu.since) : Append(cpu.since, cpu.b)[i] = cpu.since[i]
      BY <1>3
    <3>4. Append(cpu.since, cpu.b)[Len(cpu.since) + 1] = cpu.b
      BY <1>3
    <3>5. ASSUME NEW i \in 1 .. Len(cpu.since) + 1
          PROVE  Append(cpu.since, cpu.b)[i] <= cpu.b
      <4>1. CASE i \in 1 .. Len(cpu.since)
        BY <1>4, <3>3, <4>1
      <4>2. CASE i = Len(cpu.since) + 1
        BY <1>3, <3>4, <4>2
      <4> QED
        BY <1>3, <4>1, <4>2
    <3>6. ASSUME Len(cpu.since) > 0
          PROVE  Head(Append(cpu.since, cpu.b)) = Head(cpu.since)
      <4>1. 1 \in 1 .. Len(cpu.since)
        BY <1>3, <3>6
      <4>2. Head(Append(cpu.since, cpu.b)) = Append(cpu.since, cpu.b)[1]
        BY <3>2
      <4>3. Head(cpu.since) = cpu.since[1]
        BY <1>3
      <4> QED
        BY <3>3, <4>1, <4>2, <4>3
    <3> QED
      BY <2>1, <3>1, <3>2, <3>5, <3>6
  <2>2. CASE ~arvalid
    BY <1>3, <1>4, <2>2
  <2> QED
    BY <1>1, <2>1, <2>2
<1>7. ASSUME buf_4.valid
      PROVE  /\ cpu.r.of < cpu.ar /\ Len(cpu.since) > 0
             /\ After(reads, cpu.r).of = IF After(reads, cpu.r).beat = 0
                                           THEN cpu.r.of + 1 ELSE cpu.r.of
  <2>1. /\ cpu.r.of < cpu.ar
        /\ After(reads, cpu.r) = Fetched
        /\ Fetched = IF Fetched.beat = 0 THEN [of |-> cpu.r.of + 1, beat |-> 0]
                     ELSE [of |-> cpu.r.of, beat |-> cpu.r.beat + 1]
    BY <1>7, ReplyRequested
  <2>2. Len(cpu.since) > 0
    BY <1>3, <1>4, <2>1
  <2>3. Fetched.of = IF Fetched.beat = 0 THEN cpu.r.of + 1 ELSE cpu.r.of
    <3>1. CASE Fetched.beat = 0
      BY <2>1, <3>1
    <3>2. CASE Fetched.beat # 0
      BY <2>1, <3>2
    <3> QED
      BY <3>1, <3>2
  <2> QED
    BY <2>1, <2>2, <2>3
<1> DEFINE in == IF arvalid THEN 1 ELSE 0
<1>7a. in \in {0, 1} /\ Len(since) = Len(cpu.since) + in /\ cpu'.ar = cpu.ar + in
  <2>1. CASE arvalid
    <3>1. in = 1 /\ cpu'.ar = cpu.ar + 1
      BY <1>2, <2>1
    <3>2. Len(since) = Len(cpu.since) + 1
      BY <1>6, <2>1
    <3> QED
      BY <3>1, <3>2
  <2>2. CASE ~arvalid
    <3>1. in = 0 /\ cpu'.ar = cpu.ar
      BY <1>2, <2>2
    <3>2. Len(since) = Len(cpu.since) + 0
      BY <1>6, <2>2
    <3> HIDE DEF since, in
    <3> QED
      BY <1>3, <3>1, <3>2
  <2> QED
    BY <2>1, <2>2
<1>7b. since \in Seq(Nat) /\ Len(since) \in Nat
       /\ (since # <<>> <=> Len(since) > 0)
       /\ \A i \in 1 .. Len(since) : since[i] \in Nat /\ since[i] <= cpu.b
  BY <1>6
<1> HIDE DEF since, in
<1>8. CASE complete
  <2>1. buf_4.valid /\ data /\ Len(cpu.since) > 0 /\ cpu'.since = Tail(since)
        /\ cpu'.r.of = cpu.r.of + 1
    BY <1>2, <1>7, <1>8
  <2>2. since # <<>> /\ Len(since) > 0
    BY <1>3, <1>7a, <1>7b, <2>1
  <2>3. Tail(since) \in Seq(Nat) /\ Len(Tail(since)) = Len(since) - 1
    BY <1>6, <2>2, HeadTailProperties
  <2>4. \A i \in 1 .. Len(Tail(since)) : Tail(since)[i] = since[i + 1]
    BY <1>6, <2>2, <2>3
  <2>5. \A i \in 1 .. Len(cpu'.since) : cpu'.since[i] <= cpu.b
    <3> TAKE i \in 1 .. Len(cpu'.since)
    <3>1. i + 1 \in 1 .. Len(since)
      BY <1>7b, <2>1, <2>3
    <3> QED
      BY <1>7b, <2>1, <2>4, <3>1
  <2>6. Len(cpu'.since) = cpu'.ar - cpu'.r.of
    <3>1. Len(cpu'.since) = Len(since) - 1
      BY <2>1, <2>3
    <3>2. cpu'.r.of = cpu.r.of + 1
      BY <2>1
    <3>3. in \in Nat
      BY <1>7a
    <3>4. Len(since) - 1 = (cpu.ar + in) - (cpu.r.of + 1)
      BY <1>3, <1>4, <1>7a, <3>3
    <3> QED
      BY <1>7a, <3>1, <3>2, <3>4
  <2>7. \A i \in 1 .. Len(cpu'.since) : cpu'.since[i] <= cpu'.b
    <3> TAKE i \in 1 .. Len(cpu'.since)
    <3>1. cpu'.since[i] \in Nat
      BY <2>1, <2>3
    <3> QED
      BY <1>3, <1>5, <2>5, <3>1
  <2> QED
    BY <2>1, <2>3, <2>5, <2>6, <2>7 DEF RequestsDated
<1>9. CASE ~complete
  <2>1. cpu'.since = since
    BY <1>2, <1>9
  <2>2. cpu'.r.of = cpu.r.of
    <3>1. CASE data
      BY <1>2, <1>7, <1>9, <3>1
    <3>2. CASE ~data
      BY <1>2, <3>2
    <3> QED
      BY <3>1, <3>2
  <2>3. Len(cpu'.since) = cpu'.ar - cpu'.r.of
    BY <1>3, <1>4, <1>7a, <2>1, <2>2
  <2>4. \A i \in 1 .. Len(cpu'.since) : cpu'.since[i] <= cpu'.b
    <3> TAKE i \in 1 .. Len(cpu'.since)
    <3>1. cpu'.since[i] \in Nat /\ cpu'.since[i] <= cpu.b
      BY <1>7b, <2>1
    <3> QED
      BY <1>3, <1>5, <3>1
  <2> QED
    BY <1>6, <1>7, <1>7b, <2>1, <2>3, <2>4 DEF RequestsDated
<1> QED
  BY <1>8, <1>9

\* A reply shows every write answered when its read was requested: that write
\* had been applied before, and no byte forgets a write.
LEMMA RepliesEdge ==
  ASSUME HubIInv, NEW awvalid, NEW wvalid, NEW bready, NEW arvalid, NEW rready,
         AnEdge(awvalid, wvalid, bready, arvalid, rready)
  PROVE  ReadsSeeAnswers'
<1>1. HubTyped /\ WritesInTurn /\ ReadsInTurn /\ BytesNew /\ RequestsDated /\ ReadsSeeAnswers
  BY DEF HubIInv
<1>2. /\ buf_4' = OutputEdge(buf_4, int_arvalid_wire, int_rdata_wire, rready)
      /\ writes' = writes /\ reads' = reads /\ rready \in BOOLEAN
  BY DEF AnEdge, HubClock
<1>3. \A w, l : Naming(w, l)' = Naming(w, l)
  BY <1>2 DEF Naming
<1>4. CASE OutputReady(buf_4, rready)
  <2> SUFFICES ASSUME buf_4'.valid,
                      ~reads[buf_4'.data.place.of].status,
                      NEW l \in 1 .. Lanes,
                      NEW k \in Naming(reads[buf_4'.data.place.of].word
                                         + buf_4'.data.place.beat, l),
                      k <= Head(cpu'.since)
               PROVE  k <= buf_4'.data.value[l].of
    BY <1>2, <1>3 DEF ReadsSeeAnswers
  <2>1. int_arvalid_wire /\ buf_4'.data = int_rdata_wire
    BY <1>2, <1>4 DEF OutputEdge, OutputLoad
  <2>2. /\ int_arid_wire = Fetched.of /\ Fetched.of \in 1 .. MaxReads
        /\ Fetched.of < cpu.ar /\ Fetched.beat = int_arcntr_reg
        /\ IsPlace(reads, MaxReads, Fetched)
        /\ Fetched = [of |-> cpu.ar - Len(buf_3), beat |-> int_arcntr_reg]
    BY <1>1, <2>1, ReadPlace
  <2> DEFINE w == reads[Fetched.of].word + Fetched.beat
  <2>3. int_rdata_wire.place = Fetched
    BY <2>1, <2>2 DEF int_rdata_wire, Fetched, InTurn
  <2>4. ~reads[Fetched.of].status /\ k \in Naming(w, l)
    BY <2>1, <2>3
  <2>5. int_rdata_wire.value = cfg_data[w]
    BY <2>1, <2>2, <2>4 DEF int_rdata_wire
  <2>6. w \in 0 .. Words - 1
    <3>1. /\ reads[Fetched.of].word \in Nat /\ reads[Fetched.of].len \in Nat
          /\ reads[Fetched.of].word + reads[Fetched.of].len <= Words
      BY <1>1, <2>2, AccessFacts
    <3>2. Fetched.beat \in Nat /\ Fetched.beat < reads[Fetched.of].len
          /\ Words \in Nat /\ MaxReads \in Nat
      <4>1. MaxReads \in Nat /\ Words \in Nat
        BY HubAssumption
      <4> QED
        BY <2>2, <4>1 DEF IsPlace, Places
    <3> QED
      BY <3>1, <3>2
  <2>7. k <= cpu.b
    <3>1. /\ cpu'.since \in Seq(Nat)
          /\ \A i \in 1 .. Len(cpu'.since) : cpu'.since[i] <= cpu.b
          /\ RequestsDated'
      BY <1>1, SinceEdge
    <3>2. cpu'.r = Fetched
      BY <1>1, <1>4, ReadEdge
    <3>3. Len(cpu'.since) = cpu'.ar - cpu'.r.of
      BY <3>1 DEF RequestsDated
    <3>4. cpu.ar <= cpu'.ar /\ cpu'.ar \in Nat /\ cpu.ar \in Nat
      <4>1. cpu.ar \in Nat
        BY <1>1 DEF HubTyped
      <4>2. cpu'.ar = IF arvalid THEN cpu.ar + 1 ELSE cpu.ar
        BY DEF AnEdge, HubClock, CpuEdge
      <4> QED
        BY <4>1, <4>2
    <3>5. Len(cpu'.since) > 0
      BY <2>2, <3>2, <3>3, <3>4
    <3>6. 1 \in 1 .. Len(cpu'.since) /\ Head(cpu'.since) = cpu'.since[1]
          /\ cpu'.since[1] \in Nat
      BY <3>1, <3>5
    <3>7. k \in Nat /\ cpu.b \in Nat
      BY <1>1, HubAssumption DEF HubTyped, Naming
    <3> QED
      BY <3>1, <3>6, <3>7
  <2>8. k \in 1 .. MaxWrites /\ l \in writes[k].strobe /\ IsApplied(k, w)
    <3>1. /\ k \in 1 .. MaxWrites /\ l \in writes[k].strobe
          /\ w \in writes[k].word .. writes[k].word + writes[k].len - 1
      BY <2>4 DEF Naming
    <3>2. writes[k].word \in Nat /\ writes[k].len \in Nat
      BY <1>1, <3>1, AccessFacts
    <3>3. k < Applied.of
      <4>1. Applied.of = Answered + 1 /\ cpu.b \in Nat /\ buf_2.valid \in BOOLEAN
            /\ k \in Nat
        BY <1>1, <3>1, HubAssumption DEF WritesInTurn, HubTyped
      <4>2. cpu.b <= Answered /\ Answered \in Nat
        BY <4>1 DEF Answered
      <4> QED
        BY <2>7, <4>1, <4>2
    <3>4. w >= writes[k].word /\ w < writes[k].word + writes[k].len
      <4> HIDE DEF w
      <4> QED
        BY <2>6, <3>1, <3>2
    <3> QED
      BY <3>1, <3>3, <3>4 DEF IsApplied
  <2>9. k <= cfg_data[w][l].of
    <3> HIDE DEF w
    <3> QED
      BY <1>1, <2>6, <2>8 DEF BytesNew
  <2> QED
    BY <2>1, <2>5, <2>9
<1>5. CASE ~OutputReady(buf_4, rready)
  <2>1. buf_4.valid /\ ~rready
    BY <1>2, <1>5 DEF OutputReady
  <2>2. buf_4'.valid = buf_4.valid /\ buf_4'.data = buf_4.data
    BY <1>2, <1>5 DEF OutputEdge, OutputLoad
  <2>3. Head(cpu'.since) = Head(cpu.since)
    BY <1>1, <2>1, SinceEdge
  <2> QED
    BY <1>1, <1>2, <1>3, <2>2, <2>3 DEF ReadsSeeAnswers
<1> QED
  BY <1>4, <1>5

LEMMA TypesEdge ==
  ASSUME HubIInv, NEW awvalid, NEW wvalid, NEW bready, NEW arvalid, NEW rready,
         AnEdge(awvalid, wvalid, bready, arvalid, rready)
  PROVE  HubTyped'
<1>1. HubTyped /\ WritesInTurn /\ ReadsInTurn /\ BytesNew /\ RequestsDated
  BY DEF HubIInv
<1>2. /\ buf_4' = OutputEdge(buf_4, int_arvalid_wire, int_rdata_wire, rready)
      /\ buf_2' = OutputEdge(buf_2, int_bvalid_wire, int_awid_wire, bready)
      /\ CounterEdge(bready, rready)
      /\ CpuEdge(awvalid, wvalid, bready, arvalid, rready)
      /\ sts_data' \in {sts_data, sts_data + 1} /\ sts_data' <= MaxStatus
      /\ writes' = writes /\ reads' = reads
      /\ rready \in BOOLEAN /\ bready \in BOOLEAN
  BY DEF AnEdge, HubClock
<1>3. /\ writes \in [1 .. MaxWrites -> Writes] /\ reads \in [1 .. MaxReads -> Reads]
      /\ int_awcntr_reg \in Nat /\ sts_data \in 0 .. MaxStatus
      /\ cfg_data \in [0 .. Words - 1 -> [1 .. Lanes -> Places]]
      /\ buf_2 \in [valid : BOOLEAN, data : Nat]
      /\ buf_4 \in [valid : BOOLEAN,
                    data : [place : Places, value : [1 .. Lanes -> Places]]]
  BY <1>1 DEF HubTyped
<1>4. int_awcntr_reg' \in Nat /\ int_arcntr_reg' \in Nat
  BY <1>1, <1>2, <1>3, ReadEdge DEF CounterEdge
<1>5. sts_data' \in 0 .. MaxStatus
  BY <1>2, <1>3, HubAssumption
<1>6. buf_2' \in [valid : BOOLEAN, data : Nat]
  <2>1. int_awid_wire \in Nat
    BY <1>1, HubAssumption, WritePlace DEF int_awid_wire, int_awvalid_wire
  <2>2. int_bvalid_wire \in BOOLEAN
    BY DEF int_bvalid_wire, int_wlast_wire, int_awvalid_wire, int_wvalid_wire
  <2> QED
    BY <1>2, <1>3, <2>1, <2>2 DEF OutputEdge, OutputLoad
<1>7. buf_4' \in [valid : BOOLEAN,
                  data : [place : Places, value : [1 .. Lanes -> Places]]]
  <2>1. int_rdata_wire \in [place : Places, value : [1 .. Lanes -> Places]]
    <3>1. CASE ~int_arvalid_wire
      BY <3>1 DEF int_rdata_wire, NoReply, Never, Places
    <3>2. CASE int_arvalid_wire
      <4>1. /\ int_arid_wire = Fetched.of /\ Fetched.of \in 1 .. MaxReads
            /\ Fetched.beat = int_arcntr_reg /\ IsPlace(reads, MaxReads, Fetched)
            /\ Fetched = [of |-> cpu.ar - Len(buf_3), beat |-> int_arcntr_reg]
        BY <1>1, <3>2, ReadPlace
      <4>2. /\ reads[Fetched.of].word \in Nat /\ reads[Fetched.of].len \in Nat
            /\ reads[Fetched.of].word + reads[Fetched.of].len <= Words
            /\ reads[Fetched.of].status \in BOOLEAN
        BY <1>1, <4>1, AccessFacts
      <4>3. Words \in Nat /\ MaxReads \in Nat /\ MaxStatus \in Nat
        BY HubAssumption
      <4>4. Fetched.beat \in Nat /\ Fetched.beat < reads[Fetched.of].len
        BY <4>1, <4>3 DEF IsPlace, Places
      <4>5. reads[Fetched.of].word + Fetched.beat \in 0 .. Words - 1
        BY <4>2, <4>3, <4>4
      <4>6. cfg_data[reads[Fetched.of].word + Fetched.beat] \in [1 .. Lanes -> Places]
        BY <1>3, <4>5
      <4>7. [l \in 1 .. Lanes |-> [of |-> sts_data, beat |-> 0]] \in [1 .. Lanes -> Places]
        BY <1>3, <4>3 DEF Places
      <4>8. [of |-> int_arid_wire, beat |-> int_arcntr_reg] \in Places
        BY <4>1, <4>3, <4>4 DEF Places
      <4>9. int_rdata_wire =
              [place |-> [of |-> int_arid_wire, beat |-> int_arcntr_reg],
               value |-> IF reads[Fetched.of].status
                           THEN [l \in 1 .. Lanes |-> [of |-> sts_data, beat |-> 0]]
                           ELSE cfg_data[reads[Fetched.of].word + Fetched.beat]]
        BY <3>2, <4>1 DEF int_rdata_wire
      <4> QED
        BY <4>6, <4>7, <4>8, <4>9
    <3> QED
      BY <3>1, <3>2
  <2>2. int_arvalid_wire \in BOOLEAN
    BY DEF int_arvalid_wire
  <2>3. buf_4'.valid \in BOOLEAN
    BY <1>2, <1>3, <2>2 DEF OutputEdge
  <2>4. buf_4'.data \in [place : Places, value : [1 .. Lanes -> Places]]
    BY <1>2, <1>3, <2>1 DEF OutputEdge, OutputLoad
  <2>5. buf_4' = [valid |-> buf_4'.valid, data |-> buf_4'.data]
    BY <1>2 DEF OutputEdge
  <2> QED
    BY <2>3, <2>4, <2>5
<1>8. cpu' \in [aw : 1 .. MaxWrites + 1, w : Places, b : Nat,
                ar : 1 .. MaxReads + 1, r : Places, since : Seq(Nat)]
  <2>1. /\ cpu'.aw \in 1 .. MaxWrites + 1 /\ cpu'.w \in Places /\ cpu'.b \in Nat
    BY <1>1, WriteEdge
  <2>2. cpu'.ar \in 1 .. MaxReads + 1 /\ cpu'.r \in Places
    BY <1>1, ReadEdge
  <2>3. cpu'.since \in Seq(Nat)
    BY <1>1, SinceEdge
  <2>4. cpu' = [aw |-> cpu'.aw, w |-> cpu'.w, b |-> cpu'.b, ar |-> cpu'.ar,
                r |-> cpu'.r, since |-> cpu'.since]
    BY <1>2 DEF CpuEdge
  <2> QED
    BY <2>1, <2>2, <2>3, <2>4
<1>9. /\ cfg_data' \in [0 .. Words - 1 -> [1 .. Lanes -> Places]]
      /\ \A w \in 0 .. Words - 1, l \in 1 .. Lanes :
            cfg_data'[w][l].of \in 0 .. MaxWrites
  BY <1>1, BytesEdge
<1> QED
  BY <1>2, <1>3, <1>4, <1>5, <1>6, <1>7, <1>8, <1>9 DEF HubTyped

LEMMA ResetIInv == AtRest' => HubIInv'
  BY AtRestIInv, PTL

LEMMA HubNextIInv == HubIInv /\ [HubNext]_hub => HubIInv'
<1> SUFFICES ASSUME HubIInv, [HubNext]_hub PROVE HubIInv'
  OBVIOUS
<1>1. HubTyped /\ WritesInTurn /\ ReadsInTurn /\ BytesNew /\ RequestsDated /\ ReadsSeeAnswers
  BY DEF HubIInv
<1>2. ASSUME NEW awvalid \in BOOLEAN, NEW wvalid \in BOOLEAN, NEW bready \in BOOLEAN,
             NEW arvalid \in BOOLEAN, NEW rready \in BOOLEAN,
             HubClock(awvalid, wvalid, bready, arvalid, rready)
      PROVE  HubIInv'
  <2>1. AnEdge(awvalid, wvalid, bready, arvalid, rready)
    BY <1>2 DEF AnEdge
  <2>2. WritesInTurn'
    BY <1>1, <2>1, WriteEdge
  <2>3. ReadsInTurn'
    BY <1>1, <2>1, ReadEdge
  <2>4. BytesNew'
    BY <1>1, <2>1, BytesEdge
  <2>5. RequestsDated'
    BY <1>1, <2>1, SinceEdge
  <2>6. ReadsSeeAnswers' /\ HubTyped'
    BY <2>1, RepliesEdge, TypesEdge
  <2> QED
    BY <2>2, <2>3, <2>4, <2>5, <2>6 DEF HubIInv
<1>3. CASE HubReset
  <2>1. AtRest'
    BY <1>1, <1>3 DEF HubReset, AtRest, HubTyped
  <2> QED
    BY <2>1, ResetIInv
<1>4. CASE UNCHANGED hub
  BY <1>1, <1>4 DEF hub, HubIInv, HubTyped, WritesInTurn, ReadsInTurn, BytesNew, RequestsDated,
     ReadsSeeAnswers, Naming, IsApplied, Applied, Answered, Fetched, IdsInOrder, BeatsInOrder,
     IsPlace, After, InTurn, int_wvalid_wire, int_wdata_wire, int_arvalid_wire, int_arid_wire
<1> QED
  BY <1>2, <1>3, <1>4 DEF HubNext

\* Addresses, data, answers, requests and replies stay in step: the strengthened
\* invariant of the hub.
THEOREM HubIInvTheorem == HubSpec => []HubIInv
<1>1. HubInit => AtRest
  BY HubAssumption DEF HubInit, AtRest
<1> QED
  BY <1>1, AtRestIInv, HubNextIInv, PTL DEF HubSpec

\* Every access lies within the registers, its beat counter within the access;
\* and a reply shows, in every byte, a write at least as new as any answered
\* when the read was requested.
THEOREM AnswersTheorem == HubSpec => []AnswersKept
<1>1. HubIInv => AnswersKept
  <2> SUFFICES ASSUME HubIInv PROVE AnswersKept
    OBVIOUS
  <2>1. HubTyped /\ WritesInTurn /\ ReadsInTurn /\ ReadsSeeAnswers
    BY DEF HubIInv
  <2>2. Words \in Nat \ {0} /\ MaxWrites \in Nat /\ MaxReads \in Nat
    BY HubAssumption
  <2>3. /\ IsPlace(writes, MaxWrites, Applied) /\ Applied.beat = int_awcntr_reg
        /\ Applied.of = Answered + 1 /\ Answered \in Nat
        /\ int_awvalid_wire => int_awid_wire = Applied.of /\ Applied.of \in 1 .. MaxWrites
    BY <2>1, WritePlace DEF WritesInTurn
  <2>4. /\ IsPlace(reads, MaxReads, Fetched)
        /\ Fetched = [of |-> cpu.ar - Len(buf_3), beat |-> int_arcntr_reg]
        /\ int_arvalid_wire => int_arid_wire = Fetched.of /\ Fetched.of \in 1 .. MaxReads
        /\ int_arcntr_reg > 0 => int_arvalid_wire
    BY <2>1, ReadPlace DEF ReadsInTurn, int_arvalid_wire
  <2>5. /\ cpu.aw \in 1 .. MaxWrites + 1 /\ cpu.ar \in 1 .. MaxReads + 1 /\ cpu.b \in Nat
        /\ int_awcntr_reg \in Nat /\ int_arcntr_reg \in Nat /\ buf_2.valid \in BOOLEAN
    BY <2>1 DEF HubTyped
  <2>6. /\ Applied.of \in 1 .. MaxWrites + 1
        /\ Applied.of <= MaxWrites => int_awcntr_reg < writes[Applied.of].len
        /\ ~(Applied.of <= MaxWrites) => int_awcntr_reg = 0
    BY <2>3 DEF IsPlace
  <2>7. int_awcntr_reg \in 0 .. Words - 1
    <3>1. CASE Applied.of <= MaxWrites
      <4>1. Applied.of \in 1 .. MaxWrites
        BY <2>2, <2>6, <3>1
      <4>2. /\ writes[Applied.of].word \in Nat /\ writes[Applied.of].len \in Nat
            /\ writes[Applied.of].word + writes[Applied.of].len <= Words
        BY <2>1, <4>1, AccessFacts
      <4> QED
        BY <2>2, <2>5, <2>6, <3>1, <4>2
    <3>2. CASE ~(Applied.of <= MaxWrites)
      BY <2>2, <2>6, <3>2
    <3> QED
      BY <3>1, <3>2
  <2>8. int_awvalid_wire => int_awcntr_reg < writes[int_awid_wire].len
    BY <2>2, <2>3, <2>6
  <2>9. /\ Fetched.of \in 1 .. MaxReads + 1 /\ Fetched.beat = int_arcntr_reg
        /\ Fetched.of <= MaxReads => int_arcntr_reg < reads[Fetched.of].len
        /\ ~(Fetched.of <= MaxReads) => int_arcntr_reg = 0
    BY <2>4 DEF IsPlace
  <2>10. int_arcntr_reg \in 0 .. Words - 1
    <3>1. CASE Fetched.of <= MaxReads
      <4>1. Fetched.of \in 1 .. MaxReads
        BY <2>2, <2>9, <3>1
      <4>2. /\ reads[Fetched.of].word \in Nat /\ reads[Fetched.of].len \in Nat
            /\ reads[Fetched.of].word + reads[Fetched.of].len <= Words
        BY <2>1, <4>1, AccessFacts
      <4> QED
        BY <2>2, <2>5, <2>9, <3>1, <4>2
    <3>2. CASE ~(Fetched.of <= MaxReads)
      BY <2>2, <2>9, <3>2
    <3> QED
      BY <3>1, <3>2
  <2>11. int_arcntr_reg > 0 => int_arcntr_reg < reads[int_arid_wire].len
    BY <2>2, <2>4, <2>9
  <2>12. cpu.b \in 0 .. MaxWrites
    <3>1. cpu.b <= Answered
      BY <2>5 DEF Answered
    <3> QED
      BY <2>2, <2>3, <2>5, <2>6, <3>1
  <2>13. HubTypeOK
    BY <2>1, <2>5, <2>7, <2>8, <2>10, <2>11, <2>12 DEF HubTypeOK, HubTyped
  <2> QED
    BY <2>1, <2>13 DEF AnswersKept
<1> QED
  BY <1>1, HubIInvTheorem, PTL

-----------------------------------------------------------------------------
\* The hub as a register file.

Replying == IF buf_4.valid THEN <<buf_4.data>> ELSE <<>>

\* The register file counts beats as the hub does.
LEMMA SamePlaces ==
    /\ Registers!First = First /\ Registers!Never = Never
    /\ \A accesses, place : Registers!After(accesses, place) = After(accesses, place)
  BY DEF Registers!First, Registers!Never, Registers!After, First, Never, After

LEMMA EdgeImplements ==
  ASSUME HubIInv, NEW awvalid, NEW wvalid, NEW bready, NEW arvalid, NEW rready,
         AnEdge(awvalid, wvalid, bready, arvalid, rready)
  PROVE  Registers!Step
<1>1. HubTyped /\ WritesInTurn /\ ReadsInTurn
  BY DEF HubIInv
<1>2. /\ writes' = writes /\ reads' = reads
      /\ sts_data' \in {sts_data, sts_data + 1} /\ sts_data' <= MaxStatus
      /\ buf_4' = OutputEdge(buf_4, int_arvalid_wire, int_rdata_wire, rready)
      /\ rready \in BOOLEAN
  BY DEF AnEdge, HubClock
<1>3. MaxWrites \in Nat /\ MaxReads \in Nat
      /\ Len(writes) = MaxWrites /\ Len(reads) = MaxReads
  <2>1. MaxWrites \in Nat /\ MaxReads \in Nat
    BY HubAssumption
  <2>2. /\ writes \in [1 .. MaxWrites -> Writes] /\ reads \in [1 .. MaxReads -> Reads]
    BY <1>1 DEF HubTyped
  <2>3. /\ writes \in Seq(Writes) /\ reads \in Seq(Reads)
        /\ DOMAIN writes = 1 .. MaxWrites /\ DOMAIN reads = 1 .. MaxReads
    BY <2>1, <2>2, SeqDef
  <2> QED
    BY <2>1, <2>3
<1>4. Registers!Apply
  <2>1. CASE int_we_wire(bready)
    <3>1. /\ Applied' = After(writes, Applied)
          /\ cfg_data' = Registers!Written(cfg_data, writes[Applied.of], Applied)
          /\ Applied.of \in 1 .. MaxWrites
      BY <1>1, <2>1, WriteEdge, CfgFacts
    <3>2. Applied.of <= Len(writes)
      BY <1>3, <3>1
    <3> QED
      BY <3>1, <3>2, SamePlaces DEF Registers!Apply, Applied
  <2>2. CASE ~int_we_wire(bready)
    <3>1. Applied' = Applied /\ cfg_data' = cfg_data
      BY <1>1, <2>2, WriteEdge, CfgFacts
    <3> QED
      BY <3>1 DEF Registers!Apply, Applied
  <2> QED
    BY <2>1, <2>2
<1>5. Registers!Answer
  <2>1. WritesInTurn' /\ Answered' = IF int_we_wire(bready) /\ int_wlast_wire
                                       THEN Answered + 1 ELSE Answered
    BY <1>1, WriteEdge
  <2>2. Applied'.of = Answered' + 1 /\ Answered \in Nat
    BY <1>1, <2>1, WritePlace DEF WritesInTurn
  <2>3. (Answered' = Answered + 1 /\ Answered' < Applied'.of) \/ Answered' = Answered
    <3>1. CASE Answered' = Answered + 1
      BY <2>2, <3>1
    <3>2. CASE Answered' = Answered
      BY <3>2
    <3> QED
      BY <2>1, <3>1, <3>2
  <2> QED
    BY <2>3 DEF Registers!Answer, Answered, Applied
<1>6. /\ Fetched' = IF int_re_wire(rready) THEN After(reads, Fetched) ELSE Fetched
      /\ cpu'.r = IF buf_4.valid /\ rready THEN After(reads, cpu.r) ELSE cpu.r
      /\ ReadsInTurn'
      /\ OutputReady(buf_4, rready) => cpu'.r = Fetched
  BY <1>1, ReadEdge
<1>7. /\ buf_4.valid /\ rready => cpu'.r # cpu.r
      /\ ~(buf_4.valid /\ rready) => cpu'.r = cpu.r
  <2>1. buf_4.valid => After(reads, cpu.r) # cpu.r
    BY <1>1, <1>3, AccessFacts, AfterFacts DEF ReadsInTurn, NoneEmpty
  <2> QED
    BY <1>6, <2>1
<1>8. Registers!Take
  <2>1. buf_4.valid => Replying # <<>>
    BY DEF Replying
  <2> QED
    BY <1>6, <1>7, <2>1, SamePlaces DEF Registers!Take, Replying
<1>9. Registers!Fetch
  <2>1. CASE OutputReady(buf_4, rready) /\ int_arvalid_wire
    <3>1. /\ buf_4'.valid /\ buf_4'.data = int_rdata_wire
      BY <1>2, <2>1 DEF OutputEdge, OutputLoad
    <3>2. /\ int_arid_wire = Fetched.of /\ Fetched.of \in 1 .. MaxReads
          /\ Fetched = [of |-> cpu.ar - Len(buf_3), beat |-> int_arcntr_reg]
      BY <1>1, <2>1, ReadPlace
    <3>3. Fetched = [of |-> int_arid_wire, beat |-> int_arcntr_reg]
          /\ Fetched.beat = int_arcntr_reg
      BY <3>2
    <3>4. int_rdata_wire = Registers!Shown(reads[Fetched.of], Fetched)
      BY <2>1, <3>2, <3>3 DEF int_rdata_wire, Registers!Shown
    <3>5. Replying' = <<Registers!Shown(reads[Fetched.of], Fetched)>>
      BY <3>1, <3>4 DEF Replying
    <3>6. Fetched' = After(reads, Fetched)
      BY <1>6, <2>1 DEF int_re_wire, int_rready_wire
    <3>7. Fetched.of <= Len(reads)
      BY <1>3, <3>2
    <3>8. Replying = <<>> \/ cpu'.r # cpu.r
      BY <1>7, <2>1 DEF OutputReady, Replying
    <3> QED
      BY <3>5, <3>6, <3>7, <3>8, SamePlaces DEF Registers!Fetch, Fetched, Replying
  <2>2. CASE OutputReady(buf_4, rready) /\ ~int_arvalid_wire
    <3>1. ~buf_4'.valid
      BY <1>2, <2>2 DEF OutputEdge
    <3>2. Fetched' = Fetched
      BY <1>6, <2>2 DEF int_re_wire
    <3>3. Replying' = IF cpu'.r # cpu.r THEN <<>> ELSE Replying
      BY <1>7, <2>2, <3>1 DEF Replying, OutputReady
    <3> QED
      BY <3>2, <3>3 DEF Registers!Fetch, Fetched, Replying
  <2>3. CASE ~OutputReady(buf_4, rready)
    <3>1. buf_4'.valid = buf_4.valid /\ buf_4'.data = buf_4.data
      BY <1>2, <2>3 DEF OutputEdge, OutputLoad
    <3>2. Fetched' = Fetched
      BY <1>6, <2>3 DEF int_re_wire, int_rready_wire
    <3>3. Replying' = IF cpu'.r # cpu.r THEN <<>> ELSE Replying
      BY <1>7, <2>3, <3>1 DEF Replying, OutputReady
    <3> QED
      BY <3>2, <3>3 DEF Registers!Fetch, Fetched, Replying
  <2> QED
    BY <2>1, <2>2, <2>3
<1>10. Registers!Change
  BY <1>2 DEF Registers!Change
<1> QED
  BY <1>2, <1>4, <1>5, <1>8, <1>9, <1>10 DEF Registers!Step

\* Every edge of the hub is a step of the register file that programs expect:
\* writes are applied in order and answered after that, reads show a register
\* as it is at one moment, replies come in order and none is lost.
THEOREM RegisterTheorem == HubSpec => RegisterSpec
<1>1. HubInit => Registers!Init
  <2> SUFFICES ASSUME HubInit PROVE Registers!Init
    OBVIOUS
  <2> USE DEF HubInit, First
  <2>1. cfg_data = Registers!Cleared /\ sts_data = 0
    BY SamePlaces DEF Cleared, Registers!Cleared
  <2>2. Applied = First /\ Answered = 0 /\ Fetched = First /\ cpu.r = First /\ Replying = <<>>
    BY DEF Applied, Answered, Fetched, Replying, InTurn, int_wvalid_wire, int_arvalid_wire
  <2> QED
    BY <2>1, <2>2, SamePlaces DEF Registers!Init, Applied, Answered, Fetched, Replying
<1>2. HubIInv /\ [HubNext]_hub
        => [Registers!Next]_<<writes, reads, cfg_data, sts_data,
                InTurn(int_wvalid_wire, int_wdata_wire, cpu.w),
                cpu.b + (IF buf_2.valid THEN 1 ELSE 0),
                [of |-> InTurn(int_arvalid_wire, int_arid_wire, cpu.ar),
                 beat |-> int_arcntr_reg],
                cpu.r,
                IF buf_4.valid THEN <<buf_4.data>> ELSE <<>> >>
  <2> SUFFICES ASSUME HubIInv, [HubNext]_hub
      PROVE  Registers!Next \/ UNCHANGED <<writes, reads, cfg_data, sts_data,
                InTurn(int_wvalid_wire, int_wdata_wire, cpu.w),
                cpu.b + (IF buf_2.valid THEN 1 ELSE 0),
                [of |-> InTurn(int_arvalid_wire, int_arid_wire, cpu.ar),
                 beat |-> int_arcntr_reg],
                cpu.r,
                IF buf_4.valid THEN <<buf_4.data>> ELSE <<>> >>
    OBVIOUS
  <2>1. ASSUME NEW awvalid \in BOOLEAN, NEW wvalid \in BOOLEAN, NEW bready \in BOOLEAN,
               NEW arvalid \in BOOLEAN, NEW rready \in BOOLEAN,
               HubClock(awvalid, wvalid, bready, arvalid, rready)
        PROVE  Registers!Next
    <3>1. AnEdge(awvalid, wvalid, bready, arvalid, rready)
      BY <2>1 DEF AnEdge
    <3> QED
      BY <3>1, EdgeImplements DEF Registers!Next
  <2>2. CASE HubReset
    <3>1. cfg_data' = Registers!Cleared
      BY <2>2, SamePlaces DEF HubReset, Cleared, Registers!Cleared
    <3>2. Applied' = First /\ Answered' = 0 /\ Fetched' = First /\ cpu'.r = First
          /\ Replying' = <<>>
      BY <2>2 DEF HubReset, First, Applied, Answered, Fetched, Replying, InTurn,
                  int_wvalid_wire, int_arvalid_wire
    <3>3. UNCHANGED <<writes, reads, sts_data>>
      BY <2>2 DEF HubReset
    <3>4. Registers!Restart
      BY <3>1, <3>2, <3>3, SamePlaces DEF Registers!Restart, Applied, Answered, Fetched, Replying
    <3> QED
      BY <3>4 DEF Registers!Next
  <2>3. CASE UNCHANGED hub
    BY <2>3 DEF hub, InTurn, int_wvalid_wire, int_wdata_wire, int_arvalid_wire,
                int_arid_wire
  <2> QED
    BY <2>1, <2>2, <2>3 DEF HubNext
<1> QED
  BY <1>1, <1>2, HubIInvTheorem, PTL DEF HubSpec, RegisterSpec, Registers!Spec
=============================================================================
