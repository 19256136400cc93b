---------------------------- MODULE BurstStream ----------------------------
(* What a DMA writer promises to the memory behind its AXI port: a sequence *)
(* of bursts of B beats that carries the words of the stream in order, and  *)
(* a sequence of burst addresses that walks the ring of slots 0 .. MaxAddr, *)
(* one address for each burst.  AXI pairs the n-th address with the n-th    *)
(* burst, so together they say which word lands where.  The channels are    *)
(* independent: addresses may run ahead of the data, or data ahead of its   *)
(* address, but never by more than two bursts.                              *)
EXTENDS Integers

CONSTANTS B,          \* beats in a burst
          MaxAddr     \* last slot of the ring

VARIABLES open,       \* addresses taken minus bursts whose last beat is taken
          addr,       \* last address taken (MaxAddr before the first)
          word,       \* serial of the last word taken, 0 before the first
          beat        \* beats taken of the burst under way

vars == <<open, addr, word, beat>>

NextSlot(a) == IF a < MaxAddr THEN a + 1 ELSE 0

Init == open = 0 /\ addr = MaxAddr /\ word = 0 /\ beat = 0

Last == beat + 1 = B

TakeAddress == addr' = NextSlot(addr)
KeepAddress == addr' = addr
TakeBeat == word' = word + 1 /\ beat' = IF Last THEN 0 ELSE beat + 1
KeepBeat == word' = word /\ beat' = beat

Address == TakeAddress /\ KeepBeat /\ open' = open + 1
Data == KeepAddress /\ TakeBeat /\ open' = IF Last THEN open - 1 ELSE open
Both == TakeAddress /\ TakeBeat /\ open' = IF Last THEN open ELSE open + 1
Restart == open' = 0 /\ addr' = MaxAddr /\ word' = 0 /\ beat' = 0

Next == /\ Address \/ Data \/ Both \/ Restart
        /\ open' \in -1 .. 2

Spec == Init /\ [][Next]_vars
=============================================================================
