---------------------------- MODULE RegisterFile ----------------------------
(* What a program expects of a file of memory-mapped registers behind a bus *)
(* that takes several accesses at a time: writes are applied beat by beat,  *)
(* in order, each to the bytes it names; a write is answered once all of it *)
(* has been applied; a read shows, beat by beat, what the register holds at *)
(* some moment between the request and the reply; replies come in order and *)
(* none is lost.  Status words change by themselves.                        *)
EXTENDS Naturals, Sequences, Accesses

CONSTANTS Words,      \* configuration words
          Lanes,      \* bytes of a word
          MaxStatus   \* bound: changes of the status

VARIABLES
    writes, reads,    \* the accesses of the program, in order
    cfg, sts,         \* the configuration and the version of the status
    applied,          \* the beat of a write to be applied next
    answered,         \* writes answered
    fetched,          \* the beat of a read to be read next
    taken,            \* the beat of a read the program receives next
    reply             \* the reply on the port, if there is one

\* A register remembers, byte by byte, the beat that wrote it last.
Cleared == [w \in 0 .. Words - 1 |-> [l \in 1 .. Lanes |-> Never]]

Written(regs, write, place) ==
    [regs EXCEPT ![write.word + place.beat] =
        [l \in 1 .. Lanes |-> IF l \in write.strobe THEN place ELSE @[l]]]

Shown(read, place) ==
    [place |-> place,
     value |-> IF read.status THEN [l \in 1 .. Lanes |-> [of |-> sts, beat |-> 0]]
                              ELSE cfg[read.word + place.beat]]

Init == /\ cfg = Cleared /\ sts = 0
        /\ applied = First /\ answered = 0
        /\ fetched = First /\ taken = First /\ reply = <<>>

Apply == \/ /\ applied.of <= Len(writes)
            /\ cfg' = Written(cfg, writes[applied.of], applied)
            /\ applied' = After(writes, applied)
         \/ UNCHANGED <<cfg, applied>>

\* At the earliest together with the last beat.
Answer == \/ answered' = answered + 1 /\ answered' < applied'.of
          \/ UNCHANGED answered

Take == \/ reply # <<>> /\ taken' = After(reads, taken)
        \/ UNCHANGED taken

Fetch == \/ /\ fetched.of <= Len(reads)
            /\ reply = <<>> \/ taken' # taken
            /\ reply' = <<Shown(reads[fetched.of], fetched)>>
            /\ fetched' = After(reads, fetched)
         \/ /\ reply' = IF taken' # taken THEN <<>> ELSE reply
            /\ UNCHANGED fetched

Change == sts' \in {sts, sts + 1} /\ sts' <= MaxStatus

Step == /\ Apply /\ Answer /\ Take /\ Fetch /\ Change
        /\ UNCHANGED <<writes, reads>>

Restart == /\ cfg' = Cleared /\ applied' = First /\ answered' = 0
           /\ fetched' = First /\ taken' = First /\ reply' = <<>>
           /\ UNCHANGED <<writes, reads, sts>>

Next == Step \/ Restart

Spec == Init /\ [][Next]_<<writes, reads, cfg, sts, applied, answered, fetched,
                          taken, reply>>
=============================================================================
