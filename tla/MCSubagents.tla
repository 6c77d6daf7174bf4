----------------------------- MODULE MCSubagents -----------------------------
(* Small instances of Subagents for TLC.                                   *)
EXTENDS Subagents

CONSTANTS b1, b2, db, port, docs

\* Two batches that share a database, with a second declaration of their own.
SharedScope == [b \in Batches |-> [i \in Index |->
                  IF i = 1 THEN {db} ELSE IF i > 2 THEN {}
                  ELSE IF b = b1 THEN {port} ELSE {docs}]]

\* One batch of tasks that declare nothing.
NoScope == [b \in Batches |-> [i \in Index |-> {}]]
=============================================================================
