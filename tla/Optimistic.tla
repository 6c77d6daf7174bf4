----------------------------- MODULE Optimistic -----------------------------
(***************************************************************************)
(* What the web frontend relies on of the server's optimistic locking: a   *)
(* row carries a version, every accepted write increments it, and a        *)
(* versioned write is accepted only at the version it names.  Rows are     *)
(* [version, live]: version 0 is an object that does not exist yet, a row  *)
(* that is not live is deleted, released, disabled or revoked.             *)
(***************************************************************************)
EXTENDS Naturals

(* A button: the operation it starts, the permission that shows it, and    *)
(* the rows it is shown on ("none" for a button of the toolbar).           *)
Button(op, needs, on) == [op |-> op, needs |-> needs, on |-> on]

(* A write: with the version the page read, or without one. *)
Request(op, versioned) == [op |-> op, versioned |-> versioned]

Results == {"ok", "conflict", "refused", "lost"}
Creates(op) == op \in {"create", "manual", "auto"}
Later(a, b) == IF a > b THEN a ELSE b
NoRow == [version |-> 0, live |-> FALSE]

(* What an accepted write makes of the row. *)
Written(op, row) ==
    [version |-> row.version + 1,
     live |-> IF op \in {"delete", "release", "revoke"} THEN FALSE
              ELSE IF Creates(op) \/ op = "restore" THEN TRUE ELSE row.live]

(* Which rows a write may hit at all; 404, not_deleted or unique otherwise. *)
Applies(op, row, softDeletes) ==
    CASE Creates(op) -> row.version = 0
      [] op = "restore" -> row.version > 0 /\ ~row.live
      [] op = "revoke" -> row.version > 0 /\ row.live
      [] OTHER -> row.version > 0 /\ (softDeletes => row.live)

(* Whether a write may be answered by result and have been committed or    *)
(* not: ok commits it, a lost answer may have.  Any write may be refused   *)
(* for a reason of its own: a duplicate, a reference, a permission.        *)
Answerable(write, row, softDeletes, result, commits) ==
    LET applies == Applies(write.op, row, softDeletes)
        current == row.version = write.version
    IN /\ result = "ok" => commits
       /\ result \in {"conflict", "refused"} => ~commits
       /\ result = "conflict" => write.versioned /\ applies /\ ~current
       /\ commits => applies /\ (write.versioned => current)
=============================================================================
