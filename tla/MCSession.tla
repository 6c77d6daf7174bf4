------------------------------ MODULE MCSession ------------------------------
(* One account that is disabled while a login is between its two steps. *)
EXTENDS Session
=============================================================================
