------------------------------ MODULE MCAxiHub ------------------------------
(* Two words of two bytes.  Writes: one byte, and 64 bits at once; reads: a  *)
(* word of the configuration, and 64 bits of the status.                    *)
EXTENDS AxiHub

MCWrites == {[word |-> 1, len |-> 1, strobe |-> {1}],
             [word |-> 0, len |-> 2, strobe |-> {1, 2}]}
MCReads == {[word |-> 1, len |-> 1, status |-> FALSE],
            [word |-> 0, len |-> 2, status |-> TRUE]}
=============================================================================
