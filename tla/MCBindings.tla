----------------------------- MODULE MCBindings -----------------------------
(* TLC instance of Bindings by itself, for what it does not keep. *)
EXTENDS Bindings
=============================================================================
