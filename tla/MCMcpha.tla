------------------------------ MODULE MCMcpha -------------------------------
(* Values of Mcpha for the model checker. *)
EXTENDS Mcpha

\* A window that fits and one that fills the ring but for a word.
MCWindows == {<<1, 5>>, <<2, 7>>}
=============================================================================
