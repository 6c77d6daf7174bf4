-------------------------------- MODULE Forms --------------------------------
(***************************************************************************)
(* A form of the web frontend from its opening to the answer of its        *)
(* request (src/frontend/src/components/*Form.tsx and *.ts): the texts it  *)
(* starts with, what it reads of them, the create or the partial update it *)
(* builds, and what the server makes of that.  Fields are independent, so  *)
(* a behaviour watches two fields of one form, and the object has these.   *)
(* Checks of one field against another, or of a value against its          *)
(* neighbours in the database, only refuse, before or after the request.   *)
(***************************************************************************)
EXTENDS FormFields, Naturals, FiniteSets

CONSTANTS
    Sheets,     \* the forms a behaviour may be about
    LastSaved   \* bound: the object is not written past this version

ASSUME FormsAssumption == Sheets \subseteq DOMAIN Sheet /\ LastSaved \in Nat \ {0}

VARIABLES
    sheet,      \* the form
    watched,    \* two of its fields
    stored,     \* the object at the server: version (0: none yet) and values
    formMode,   \* closed, create or edit
    base,       \* edit: the object the form was opened on
    texts,      \* values: what the inputs show
    post        \* the request, with the texts it was made of

formVars == <<sheet, watched, stored, formMode, base, texts, post>>

------------------------------------------------------------------------------
(* Texts and values: a core with or without surrounding blanks.  The first *)
(* is an option or an id too; Zero is read as a number; Bad fails a check; *)
(* Loose is the first in another spelling, as HOST-A is host-a, or         *)
(* 10.0.0.5/24 is 10.0.0.0/24.                                             *)
Text(core, padded) == [core |-> core, padded |-> padded]
First == Text("first", FALSE)
Second == Text("second", FALSE)
Padded == Text("first", TRUE)
Loose == Text("loose", FALSE)
Zero == Text("0", FALSE)
Bad == Text("bad", FALSE)
Empty == Text("", FALSE)
Blanks == Text("", TRUE)
Null == Text("null", FALSE)
Wrong == Text("wrong", FALSE)
Trim(t) == Text(t.core, FALSE)

Numbers == {"number", "positive", "count"}
Ids == {"choice", "reference", "link"}
Required == {"text", "verbatim", "secret", "number", "reference"}
Trimmed == {"text", "optional", "json"} \union Numbers
Nullable == {"optional", "positive", "count", "free", "note", "link"}
Unchecked == {"verbatim", "free", "note"} \union Ids

Way(f) == Sheet[sheet].read[f]

(* What can be typed or picked. *)
Typeable(way) ==
    IF way = "choice" THEN {First, Second}
    ELSE IF way \in Ids THEN {First, Second, Empty}
    ELSE IF way \in Numbers THEN {First, Second, Padded, Zero, Bad, Empty, Blanks}
    ELSE {First, Second, Padded, Bad, Empty, Blanks}
            \union (IF way \in {"text", "verbatim"} THEN {Loose} ELSE {})

(* parse...FormValues: the value of a text, or Wrong. *)
Reads(way, t) ==
    IF way = "json" /\ Trim(t) = Empty THEN Empty
    ELSE IF t = Empty /\ way \in Nullable THEN Null
    ELSE IF \/ Trim(t) = Empty /\ way \notin {"free", "note"}
            \/ t = Bad /\ way \notin Unchecked
            \/ t = Zero /\ way \in {"number", "positive"}
    THEN Wrong
    ELSE IF way \in Trimmed THEN Trim(t) ELSE t

(* Mutant: a zero shows as unknown. *)
ShowsNoZero(way, value) ==
    IF value = Null \/ value = Zero THEN Empty ELSE value

(* ...FormValuesFrom...: how a value shows; null as the empty text. *)
Shows(way, value) == IF value = Null THEN Empty ELSE value

(* empty...FormValues: a choice starts at its default. *)
Starts(f) == IF Way(f) = "choice" \/ f \in Sheet[sheet].preset THEN First ELSE Empty

Inputs == IF formMode = "create" THEN Sheet[sheet].createInputs ELSE Sheet[sheet].editInputs

(* build...CreateInput: whether a create carries the value of a field. *)
CreatePayload(f, value) ==
    /\ f \in Sheet[sheet].createInputs
    /\ \/ f \in Sheet[sheet].creates
       \/ value \notin {Null, Empty} /\ (Way(f) = "note" => value # Blanks)

(* build...Patch: whether a patch carries the value of a field. *)
PatchPayload(f, value) == f \in Sheet[sheet].patches /\ value # base.values[f]

------------------------------------------------------------------------------
NoObject == [version |-> 0, values |-> [f \in watched |-> Null]]
NoTexts == [f \in watched |-> Empty]
NoPost == [state |-> "none", fields |-> <<>>, version |-> 0, typed |-> <<>>, result |-> "none"]

(* A value as a write leaves it. *)
Stored(way) == (IF way \in Nullable THEN {Null} ELSE {}) \union
               (IF way = "json" THEN {Empty} ELSE {}) \union
               (IF way = "count" THEN {Zero} ELSE {}) \union {First}

(* Bound: of the two fields watched one is a choice, where a form has one. *)
ChoiceFields == {f \in DOMAIN Sheet[sheet].read : Way(f) = "choice"}
Watchable ==
    {w \in SUBSET DOMAIN Sheet[sheet].read :
        Cardinality(w) = 2 /\ (ChoiceFields # {} => (CHOOSE f \in ChoiceFields : TRUE) \in w)}

FormsInit ==
    /\ sheet \in Sheets
    /\ watched \in Watchable
    /\ stored \in [version : {1}, values : {v \in [watched -> {First, Null, Empty, Zero}] :
                                                \A f \in watched : v[f] \in Stored(Way(f))}]
                  \union {NoObject}
    /\ formMode = "closed"
    /\ base = NoObject
    /\ texts = NoTexts
    /\ post = NoPost

OpenForCreate ==
    /\ formMode = "closed" /\ stored.version = 0 /\ Sheet[sheet].createInputs # {}
    /\ formMode' = "create"
    /\ texts' = [f \in watched |-> Starts(f)]
    /\ UNCHANGED <<sheet, watched, stored, base, post>>

MountedOn(object) ==
    /\ base' = object
    /\ texts' = [f \in watched |-> Shows(Way(f), object.values[f])]

Unmounted == formMode' = "closed" /\ base' = NoObject /\ texts' = NoTexts

OpenForEdit ==
    /\ formMode = "closed" /\ stored.version > 0 /\ Sheet[sheet].editInputs # {}
    /\ formMode' = "edit"
    /\ MountedOn(stored)
    /\ UNCHANGED <<sheet, watched, stored, post>>

(* setField *)
Type(f, t) ==
    /\ formMode # "closed" /\ f \in Inputs
    /\ Sheet[sheet].locks => post.state = "none"
    /\ t \in Typeable(Way(f))
    /\ texts' = [texts EXCEPT ![f] = t]
    /\ UNCHANGED <<sheet, watched, stored, formMode, base, post>>

(* handleSubmit: nothing is sent while a field is wrong or nothing changed. *)
SubmitForm ==
    /\ formMode # "closed" /\ post.state = "none"
    /\ LET value == [f \in watched |-> Reads(Way(f), texts[f])]
           carried == {f \in watched :
                         IF formMode = "create" THEN CreatePayload(f, value[f])
                         ELSE PatchPayload(f, value[f])}
       IN /\ \A f \in watched : f \in Inputs => value[f] # Wrong
          /\ formMode = "edit" => carried # {}
          /\ post' = [state |-> "sent", fields |-> [f \in carried |-> value[f]],
                      version |-> base.version, typed |-> texts, result |-> "none"]
    /\ UNCHANGED <<sheet, watched, stored, formMode, base, texts>>

Savable ==
    /\ IF formMode = "create" THEN stored.version = 0 ELSE stored.version = post.version
    /\ \A f \in DOMAIN post.fields : Way(f) = "verbatim" => post.fields[f] # Bad

(* normalize_cidr, normalize_hostname, normalize_username: the host bits   *)
(* are zeroed, or the letters made small.                                  *)
Normal(f, value) == IF f \in Normalised /\ value = Loose THEN First ELSE value

(* What is omitted keeps its value, or takes the default of a new object. *)
Merged ==
    [f \in watched |->
        IF f \in DOMAIN post.fields
        THEN Normal(f, IF Way(f) = "verbatim" THEN Trim(post.fields[f]) ELSE post.fields[f])
        ELSE IF formMode = "edit" THEN stored.values[f]
        ELSE IF Way(f) \in Nullable THEN Null
        ELSE IF Way(f) = "json" THEN Empty ELSE First]

ServerSaves ==
    /\ post.state = "sent"
    /\ stored.version < LastSaved
    /\ Savable
    /\ stored' = [version |-> stored.version + 1, values |-> Merged]
    /\ \E result \in {"ok", "lost"} : post' = [post EXCEPT !.state = "answered", !.result = result]
    /\ UNCHANGED <<sheet, watched, formMode, base, texts>>

(* 409, 422, 403, or no answer. *)
ServerRefuses ==
    /\ post.state = "sent"
    /\ \E result \in {"conflict", "refused", "lost"} :
          /\ result = "conflict" => formMode = "edit" /\ stored.version # post.version
          /\ post' = [post EXCEPT !.state = "answered", !.result = result]
    /\ UNCHANGED <<sheet, watched, stored, formMode, base, texts>>

FormSaved ==
    /\ post.state = "answered" /\ post.result = "ok"
    /\ post' = NoPost
    /\ Unmounted
    /\ UNCHANGED <<sheet, watched, stored>>

(* The form stays with what was typed, or is mounted anew on the object as *)
(* fetched after a version conflict.                                       *)
FormRejected ==
    /\ post.state = "answered" /\ post.result # "ok"
    /\ post' = NoPost
    /\ \/ UNCHANGED <<base, texts>>
       \/ post.result = "conflict" /\ MountedOn(stored)
    /\ UNCHANGED <<sheet, watched, stored, formMode>>

CloseForm ==
    /\ formMode # "closed" /\ post.state = "none"
    /\ Unmounted
    /\ UNCHANGED <<sheet, watched, stored, post>>

(* Another user's write. *)
OtherSaves(f) ==
    /\ stored.version \in 1 .. LastSaved - 2
    /\ \E v \in Stored(Way(f)) \union {Second} :
          stored' = [version |-> stored.version + 1, values |-> [stored.values EXCEPT ![f] = v]]
    /\ UNCHANGED <<sheet, watched, formMode, base, texts, post>>

FormsNext ==
    \/ OpenForCreate \/ OpenForEdit \/ CloseForm
    \/ \E f \in watched : OtherSaves(f) \/ \E t \in Typeable(Way(f)) : Type(f, t)
    \/ SubmitForm \/ ServerSaves \/ ServerRefuses \/ FormSaved \/ FormRejected

FormsSpec == FormsInit /\ [][FormsNext]_formVars

------------------------------------------------------------------------------
(* The types of the form's state. *)
FormsTypeOK ==
    /\ sheet \in Sheets /\ watched \subseteq DOMAIN Sheet[sheet].read
    /\ stored.version \in 0 .. LastSaved /\ DOMAIN stored.values = watched
    /\ formMode \in {"closed", "create", "edit"}
    /\ \A f \in watched : texts[f] \in Typeable(Way(f)) \union {Empty}
    /\ post.state \in {"none", "sent", "answered"}
    /\ DOMAIN post.fields \subseteq watched

(* Null, the empty text and blanks are one to the reader of a form. *)
Meaning(t) == IF t = Null \/ Trim(t) = Empty THEN Null ELSE Trim(t)

(* An accepted create or edit leaves the object as the form showed it when *)
(* it was submitted, in the fields the form can change and in no other,    *)
(* although an edit sends only part of it and others write too: a CIDR, a  *)
(* hostname and a username in the server's normal form of what was typed,  *)
(* any other field with the meaning typed.  A form in which nothing was    *)
(* changed sends nothing.                                                  *)
SavesWhatWasTyped ==
    [][/\ post.state = "sent" /\ stored' # stored /\ post' # post =>
             \A f \in watched :
                Meaning(stored'.values[f]) =
                    IF f \in Inputs THEN Normal(f, Meaning(post.typed[f]))
                    ELSE Meaning(IF formMode = "edit" THEN base.values[f] ELSE stored'.values[f])
       /\ post.state = "none" /\ post'.state = "sent" /\ formMode = "edit" =>
             \E f \in watched : texts[f] # Shows(Way(f), base.values[f])]_formVars
=============================================================================
