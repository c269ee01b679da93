----------------------------- MODULE MCTerminal -----------------------------
(* Terminal on a small screen.                                              *)
EXTENDS Terminal

\* A letter key, Enter, Backspace and one that has a character without shift only.
MCKeys == {[lower |-> "a", upper |-> "b"], [lower |-> "newline", upper |-> "newline"],
           [lower |-> "backspace", upper |-> "backspace"],
           [lower |-> "b", upper |-> "none"]}
=============================================================================
