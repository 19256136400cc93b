--------------------------- MODULE StreamBuffers ---------------------------
(* The two one-word register stages of modules/, as functions of a stage's  *)
(* registers and of the wires it sees.  output_buffer registers the forward *)
(* path (valid, data): a word waits in it until the reader is ready.        *)
(* input_buffer registers the backward path (ready): it is transparent      *)
(* until the reader stalls and then parks the one word that was under way.  *)
(* ...Edge is the clock edge with aresetn high, ...Reset the one with it    *)
(* low: the handshake bit is reset, the data register is not.               *)

\* output_buffer ------------------------------------------------------------

\* int_ready_wire: empty, or emptied at this very edge.
OutputReady(buf, out_ready) == ~buf.valid \/ out_ready

OutputLoad(buf, in_data, out_ready) ==
    IF OutputReady(buf, out_ready) THEN in_data ELSE buf.data

\* (the slip of leaving the word valid after the reader took it)
Sticky_OutputEdge(buf, in_valid, in_data, out_ready) ==
    [valid |-> buf.valid \/ in_valid,
     data  |-> OutputLoad(buf, in_data, out_ready)]

\* (the slip of loading the register over a word still waiting in it)
Overwriting_OutputEdge(buf, in_valid, in_data, out_ready) ==
    [valid |-> in_valid \/ (buf.valid /\ ~out_ready), data |-> in_data]

OutputEdge(buf, in_valid, in_data, out_ready) ==
    [valid |-> IF OutputReady(buf, out_ready) THEN in_valid ELSE buf.valid,
     data  |-> OutputLoad(buf, in_data, out_ready)]

OutputReset(buf, in_data, out_ready) ==
    [valid |-> FALSE, data |-> OutputLoad(buf, in_data, out_ready)]

\* input_buffer -------------------------------------------------------------

\* int_valid_wire and the out_data multiplexer.
InputValid(buf, in_valid) == ~buf.ready \/ in_valid

InputData(buf, in_data) == IF buf.ready THEN in_data ELSE buf.data

InputEdge(buf, in_valid, in_data, out_ready) ==
    [ready |-> IF InputValid(buf, in_valid) THEN out_ready ELSE buf.ready,
     data  |-> InputData(buf, in_data)]

InputReset(buf, in_data) ==
    [ready |-> TRUE, data |-> InputData(buf, in_data)]
=============================================================================
