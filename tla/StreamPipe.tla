----------------------------- MODULE StreamPipe -----------------------------
(* What a register stage on a stream promises: a pipe that holds at most    *)
(* Cap words and hands them on in order, none lost, none twice.  Words are  *)
(* named by serial number, so the last word accepted and the last word      *)
(* delivered say everything about its contents.                             *)
EXTENDS Naturals

CONSTANT Cap          \* words the pipe can hold

VARIABLES sent,       \* serial of the last word accepted, 0 at first
          rcvd        \* serial of the last word delivered

vars == <<sent, rcvd>>

Init == sent = 0 /\ rcvd = 0

Accept == /\ sent < rcvd + Cap
          /\ sent' = sent + 1
          /\ UNCHANGED rcvd

Deliver == /\ rcvd < sent
           /\ rcvd' = rcvd + 1
           /\ UNCHANGED sent

\* One word in and another one out at the same clock edge.
Shift == /\ rcvd < sent
         /\ sent' = sent + 1
         /\ rcvd' = rcvd + 1

\* Reset drops what the pipe holds and starts the count again.
Clear == sent' = 0 /\ rcvd' = 0

Next == Accept \/ Deliver \/ Shift \/ Clear

Spec == Init /\ [][Next]_vars
=============================================================================
