------------------------------ MODULE Imports ------------------------------
(***************************************************************************)
(* The two import panels of the Resources page                             *)
(* (src/frontend/src/components/ResourceImportPanel.tsx and                *)
(* ResourceInterfaceIpImportPanel.tsx, one control) and what the server    *)
(* makes of a batch (src/backend/app/services/resource_import.py).  The    *)
(* user picks a file or pastes text, has it validated, and confirms; the   *)
(* server validates again and stages the rows one by one in savepoints of  *)
(* one transaction, while a second batch and other users write.            *)
(***************************************************************************)
EXTENDS Naturals, Sequences, FiniteSets, SequencesExt

CONSTANTS
    Names,       \* what a row creates: a Resource, or an interface of one
    Batches,     \* the contents a file or a text can have: sequences of names
    NoFile,      \* no file chosen
    MaxCalls,    \* bound: requests in flight
    MaxBatches   \* bound: batches confirmed

ASSUME ImportsAssumption ==
    /\ Batches \subseteq Seq(Names) /\ <<>> \in Batches /\ NoFile \notin Names \union Nat
    /\ MaxCalls \in Nat \ {0} /\ MaxBatches \in Nat \ {0}

VARIABLES
    input,         \* values: carrier, format, file and text
    validation,    \* validateState: idle, loading, success with its errors, error
    confirmation,  \* importState: idle, loading, success, error
    validatedKey,  \* the fingerprint of what was validated
    calls,         \* validations and imports in flight or not yet answered
    created,       \* the batch that created each name, 0: another user, or NoFile
    batches,       \* history: the contents confirmed so far
    reported       \* history: the content last reported free of errors for this input

importVars == <<input, validation, confirmation, validatedKey, calls, created, batches, reported>>

panelVars == <<validation, confirmation, validatedKey>>

------------------------------------------------------------------------------
NoKey == <<>>
NothingReported == <<NoFile>>

(* emptyImportFormValues *)
EmptyInput == [carrier |-> "file", format |-> "csv", file |-> NoFile, text |-> <<>>]
File(rows, extension) == [rows |-> rows, extension |-> extension]
(* An empty file is as unreadable as one of the other format. *)
Files == {NoFile} \union {File(b, x) : b \in Batches \ {<<>>}, x \in {"csv", "xlsx"}}

(* importCarrierPatch: text is CSV; back at files, none is chosen.  (What  *)
(* the carrier does not show is dropped here already: nothing reads it,    *)
(* and a text that was kept can be typed again.)                           *)
CarrierPatch(carrier) ==
    [carrier |-> carrier, format |-> IF carrier = "text" THEN "csv" ELSE input.format,
     file |-> NoFile, text |-> IF carrier = "text" THEN input.text ELSE <<>>]

(* importTargetKey.  The key of a file is its name, size and date: files   *)
(* of one length share it.  The digest of a text is taken as injective.    *)
FileKey(format, file) == <<"file", format, file.extension, Len(file.rows)>>
TextKey(text) == <<"text", text>>
TargetKey(values) ==
    IF values.carrier = "text" THEN TextKey(values.text)
    ELSE IF values.file = NoFile THEN NoKey
    ELSE FileKey(values.format, values.file)

(* parse...FormValues: something to send.  The caps on size are left out.  *)
Sendable(values) ==
    IF values.carrier = "text" THEN values.text # <<>>
    ELSE values.file # NoFile
         /\ (values.format = "xlsx" => values.file.extension = "xlsx")

Content(values) == IF values.carrier = "text" THEN values.text ELSE values.file.rows

(* The server can parse it. *)
Readable(values) ==
    /\ Content(values) # <<>>
    /\ values.carrier = "file" => values.file.extension = values.format

Importing == validation.kind = "loading" \/ confirmation = "loading"

(* canConfirm: validated without errors, unchanged since, not yet imported. *)
CanConfirm ==
    /\ validation = [kind |-> "success", errors |-> FALSE]
    /\ validatedKey # NoKey /\ validatedKey = TargetKey(input)
    /\ confirmation # "success"

Reported(kind, errors) == [kind |-> kind, errors |-> errors]
NotValidated == Reported("idle", FALSE)
Call(op, batch) ==
    [op |-> op, batch |-> batch, rows |-> Content(input), key |-> TargetKey(input),
     readable |-> Readable(input), stage |-> "sent", todo |-> Content(input), staged |-> {},
     failed |-> FALSE, result |-> "none", mounted |-> TRUE]

ImportInit ==
    /\ input = EmptyInput
    /\ validation = NotValidated /\ confirmation = "idle" /\ validatedKey = NoKey
    /\ calls = {}
    /\ created \in [Names -> {NoFile, 0}]
    /\ batches = <<>>
    /\ reported = NothingReported

------------------------------------------------------------------------------
(* The panel. *)

(* The inputs are disabled while a request is in flight. *)
Edited ==
    \/ \E carrier \in {"file", "text"} : input' = CarrierPatch(carrier)
    \/ input.carrier = "file" /\ \E format \in {"csv", "xlsx"} : input' = [input EXCEPT !.format = format]
    \/ input.carrier = "file" /\ \E file \in Files : input' = [input EXCEPT !.file = file]
    \/ input.carrier = "text" /\ \E text \in Batches : input' = [input EXCEPT !.text = text]

(* Mutant: what was validated stays. *)
ChangeInputKeeps ==
    /\ ~Importing /\ Edited
    /\ reported' = NothingReported
    /\ UNCHANGED <<panelVars, calls, created, batches>>

(* changeInput: the results are those of another input. *)
ChangeInput ==
    /\ ~Importing /\ Edited
    /\ validation' = NotValidated /\ confirmation' = "idle" /\ validatedKey' = NoKey
    /\ reported' = NothingReported
    /\ UNCHANGED <<calls, created, batches>>

(* handleValidate with something to refuse at once. *)
RefuseInput ==
    /\ ~Importing /\ ~Sendable(input)
    /\ validation' = NotValidated /\ validatedKey' = NoKey
    /\ UNCHANGED <<input, confirmation, calls, created, batches, reported>>

Validate ==
    /\ ~Importing /\ Sendable(input) /\ Cardinality(calls) < MaxCalls
    /\ validation' = Reported("loading", FALSE)
    /\ calls' = calls \union {Call("validate", 0)}
    /\ UNCHANGED <<input, confirmation, validatedKey, created, batches, reported>>

(* handleImport *)
ConfirmImport ==
    /\ ~Importing /\ CanConfirm /\ Sendable(input)
    /\ Cardinality(calls) < MaxCalls /\ Len(batches) < MaxBatches
    /\ confirmation' = "loading"
    /\ batches' = Append(batches, Content(input))
    /\ calls' = calls \union {Call("import", Len(batches) + 1)}
    /\ UNCHANGED <<input, validation, validatedKey, created, reported>>

(* The answer to a validation, or its loss. *)
ValidationArrives(c) ==
    /\ c.op = "validate" /\ c.stage = "answered"
    /\ \/ /\ c.result \in {"valid", "errors"}
          /\ validation' = Reported("success", c.result = "errors")
          /\ validatedKey' = c.key
          /\ confirmation' = "idle"
          /\ reported' = IF c.result = "valid" THEN c.rows ELSE reported
       \/ /\ validation' = Reported("error", FALSE)
          /\ validatedKey' = NoKey
          /\ UNCHANGED <<confirmation, reported>>
    /\ calls' = calls \ {c}
    /\ UNCHANGED <<input, created, batches>>

ImportArrives(c) ==
    /\ c.op = "import" /\ c.stage = "answered"
    /\ \/ c.result = "ok" /\ confirmation' = "success"
       \/ confirmation' = "error"
    /\ calls' = calls \ {c}
    /\ UNCHANGED <<input, validation, validatedKey, created, batches, reported>>

(* The panel is closed and opened anew; what was sent is not taken back,   *)
(* but only a write matters still.                                         *)
ReopenPanel ==
    /\ input' = EmptyInput
    /\ validation' = NotValidated /\ confirmation' = "idle" /\ validatedKey' = NoKey
    /\ calls' = {[c EXCEPT !.mounted = FALSE] :
                   c \in {d \in calls : d.op = "import" /\ d.stage # "answered"}}
    /\ reported' = NothingReported
    /\ UNCHANGED <<created, batches>>

------------------------------------------------------------------------------
(* The server. *)
Taken(h) == created[h] # NoFile
(* An answer to a closed panel is dropped. *)
Moved(c, d) ==
    calls' = (calls \ {c}) \union (IF d.stage = "answered" /\ ~d.mounted THEN {} ELSE {d})
Answered(c, result) == [c EXCEPT !.stage = "answered", !.todo = <<>>, !.staged = {}, !.result = result]
ServerOnly == UNCHANGED <<input, panelVars, batches, reported>>

(* parse_and_validate: no row is taken, and none is there twice. *)
Faultless(rows) == (\A h \in ToSet(rows) : ~Taken(h)) /\ IsInjective(rows)

(* validate_import: read only, and no locks. *)
ServerValidates(c) ==
    /\ c.op = "validate" /\ c.stage = "sent"
    /\ Moved(c, Answered(c, IF ~c.readable THEN "error"
                            ELSE IF Faultless(c.todo) THEN "valid" ELSE "errors"))
    /\ UNCHANGED created /\ ServerOnly

(* write_import validates again, on what is committed by now. *)
ServerRechecks(c) ==
    /\ c.op = "import" /\ c.stage = "sent"
    /\ Moved(c, IF c.readable /\ Faultless(c.todo) THEN [c EXCEPT !.stage = "writing"]
                ELSE Answered(c, "error"))
    /\ UNCHANGED created /\ ServerOnly

(* The unique index makes a row wait for the transaction that staged it.   *)
Holders(c) == {d \in calls \ {c} : c.todo # <<>> /\ Head(c.todo) \in d.staged}

(* One row in its savepoint; its host may have gone as well. *)
StageRow(c) ==
    /\ c.stage = "writing" /\ c.todo # <<>> /\ Holders(c) = {}
    /\ \E stands \in BOOLEAN :
          LET fails == Taken(Head(c.todo)) \/ ~stands
          IN Moved(c, [c EXCEPT !.todo = Tail(c.todo),
                                !.staged = IF fails THEN c.staged ELSE c.staged \union {Head(c.todo)},
                                !.failed = c.failed \/ fails])
    /\ UNCHANGED created /\ ServerOnly

(* Two batches that wait for each other: PostgreSQL aborts one. *)
DeadlockAborts(c) ==
    /\ c.stage = "writing"
    /\ \E d \in Holders(c) : c \in Holders(d)
    /\ Moved(c, Answered(c, "error"))
    /\ UNCHANGED created /\ ServerOnly

(* Mutant: the rows whose savepoints held are committed. *)
FinishBatchPartly(c) ==
    /\ c.stage = "writing" /\ c.todo = <<>>
    /\ Moved(c, Answered(c, IF c.failed THEN "error" ELSE "ok"))
    /\ created' = [h \in Names |-> IF h \in c.staged THEN c.batch ELSE created[h]]
    /\ ServerOnly

(* A failed row rolls back the batch; otherwise all of it is committed. *)
FinishBatch(c) ==
    /\ c.stage = "writing" /\ c.todo = <<>>
    /\ Moved(c, Answered(c, IF c.failed THEN "error" ELSE "ok"))
    /\ created' = [h \in Names |-> IF h \in c.staged /\ ~c.failed THEN c.batch ELSE created[h]]
    /\ ServerOnly

(* The process or the connection ends before the commit. *)
BatchAborts(c) ==
    /\ c.stage # "answered"
    /\ Moved(c, Answered(c, "error"))
    /\ UNCHANGED created /\ ServerOnly

(* Another user creates a name, waiting for who staged it. *)
OthersCreate(h) ==
    /\ ~Taken(h) /\ \A c \in calls : h \notin c.staged
    /\ created' = [created EXCEPT ![h] = 0]
    /\ UNCHANGED calls /\ ServerOnly

ServerStep(c) ==
    ServerValidates(c) \/ ServerRechecks(c) \/ StageRow(c) \/ DeadlockAborts(c) \/ FinishBatch(c)
PanelStep(c) == ValidationArrives(c) \/ ImportArrives(c)

ImportNext ==
    \/ ChangeInput \/ RefuseInput \/ Validate \/ ConfirmImport \/ ReopenPanel
    \/ \E c \in calls : ServerStep(c) \/ BatchAborts(c) \/ PanelStep(c)
    \/ \E h \in Names : OthersCreate(h)

ImportSpec == ImportInit /\ [][ImportNext]_importVars

(* The server works on, and requests are answered or given up. *)
ImportFairness ==
    WF_importVars(\E c \in calls : ServerStep(c) \/ PanelStep(c))

------------------------------------------------------------------------------
(* The types of the panel's state. *)
ImportTypeOK ==
    /\ input.carrier \in {"file", "text"} /\ input.format \in {"csv", "xlsx"}
    /\ input.file \in Files /\ input.text \in Batches
    /\ validation \in [kind : {"idle", "loading", "success", "error"}, errors : BOOLEAN]
    /\ confirmation \in {"idle", "loading", "success", "error"}
    /\ Cardinality(calls) <= MaxCalls
    /\ created \in [Names -> 0 .. MaxBatches \union {NoFile}]
    /\ Len(batches) <= MaxBatches

(* An import is sent only for the very content whose validation reported   *)
(* no errors since the input last changed, although two files can have the *)
(* same fingerprint and answers come late.                                 *)
ImportsWhatWasValidated ==
    \A c \in calls : c.mounted /\ c.op = "import" => c.rows = reported

(* Whatever others create meanwhile, whatever row fails and whichever      *)
(* batch is aborted, a batch is there with every row of it or not at all;  *)
(* and a panel that reports success reports a batch that is there.         *)
BatchesWhole ==
    /\ \A i \in DOMAIN batches :
          {h \in Names : created[h] = i} \in {{}, ToSet(batches[i])}
    /\ confirmation = "success" => \E i \in DOMAIN batches :
          batches[i] = reported /\ \A h \in ToSet(reported) : created[h] = i

(* Neither button of the panel stays busy. *)
ImportsSettle == []<>(~Importing)
=============================================================================
