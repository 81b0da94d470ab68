------------------------------ MODULE CrudForm ------------------------------
(***************************************************************************)
(* ResourcePage, the page by which most tables are edited: a list that is  *)
(* polled, one form at a time filled from a row of the list as it was last *)
(* fetched, and one save at a time that sends every field of the form, not *)
(* only those that were typed.  The form may be closed and another opened  *)
(* while a save is under way; other pages edit the same rows.  A save that *)
(* begins offline waits, and sends the form that is there when it goes on; *)
(* if there is none by then, it posts what the last one held.              *)
(* Of a fetch only its answer is modelled: it shows the rows as they were  *)
(* at some time, and the form may be opened any time later.                *)
(***************************************************************************)
EXTENDS Naturals, FiniteSets

CONSTANTS
  RowId,
  Field,
  Json,           \* the json fields of the page
  CreateOnly,     \* fields that the form shows for a new row only
  Key,            \* fields by which POST finds the row that it writes over; on most
                  \* pages none, and POST adds a row
  Masked,         \* fields that the server answers with a mask
  Content,        \* what a field may hold
  Given,          \* the rows at the start: each fields with contents, or no row
  MaxForms,       \* how many forms and foreign edits are opened
  MaxTyped        \* how many controls are set per opening of a form, each once

\* "" is an empty control, "bad" a json text that does not parse, "default" the
\* default of every field.
Null == "null"
Mask == "mask"
Held == Content \cup {Null, Mask, "default"}
Control == Held \cup {"", "bad"}

ASSUME CrudAssumption ==
  /\ Given \in [RowId -> [Field -> Content \cup {Null}] \cup {[f \in Field |-> "absent"]}]
  /\ Json \subseteq Field /\ CreateOnly \subseteq Field /\ Masked \subseteq Field
  /\ Key \subseteq Field
  /\ RowId \cap {"new", "closed"} = {}
  /\ MaxForms \in Nat /\ MaxTyped \in Nat

VARIABLES
  records,        \* the table: each row, or no row
  shown,          \* the list as it was last fetched
  editing,        \* the row the form is for, "new", or "closed"
  form,           \* its controls
  saving,         \* the save under way
  formError,      \* whether the form shows an error
  typed,          \* the controls of the open form that were typed in
  forms,          \* forms and foreign edits so far
  meant,          \* what somebody meant a field of a row to hold
  misposted       \* what a POST wrote over a row that was there, or with no form open

crudVars == <<records, shown, editing, form, saving, formError, typed, forms, meant, misposted>>

NoRecord == [f \in Field |-> "absent"]

Absent == {r \in RowId : records[r] = NoRecord}
Unborn == {r \in Absent : \A m \in meant : m[1] # r}

\* What the list holds for the rows there are.
Fetched == [r \in RowId |->
              IF r \in Absent THEN NoRecord
              ELSE [f \in Field |-> IF f \in Masked /\ records[r][f] # Null
                                      THEN Mask ELSE records[r][f]]]

-----------------------------------------------------------------------------
(* The form.                                                               *)

\* A json field that is null shows its default.
InitialValues(row) ==
  [f \in Field |-> IF row[f] # Null THEN row[f]
                   ELSE IF f \in Json THEN "default" ELSE ""]

DefaultValues == [f \in Field |-> "default"]

\* The controls the open form has, or that are sent without one.
ShownFields == IF editing \in RowId THEN Field \ CreateOnly ELSE Field

\* What an open control may be set to.
Choices(f) == Content \cup (IF f \in Json THEN {"bad"} ELSE {""})

\* Empty controls are not sent, and cannot clear a field.
Payload == [f \in {g \in ShownFields : form[g] # ""} |-> form[f]]

Fetch ==
  /\ shown' = Fetched
  /\ UNCHANGED <<records, editing, form, saving, formError, typed, forms, meant, misposted>>

Opened(what, values) ==
  /\ forms < MaxForms
  /\ forms' = forms + 1
  /\ editing' = what
  /\ form' = values
  /\ formError' = FALSE
  /\ typed' = {}
  /\ UNCHANGED <<records, shown, saving, meant, misposted>>

OpenCreate ==
  /\ editing = "closed"
  /\ Opened("new", DefaultValues)

\* Faulty variant: the controls keep what the form before had in them.
OpenEditStale(r) ==
  /\ editing = "closed" /\ shown[r] # NoRecord
  /\ Opened(r, [f \in Field |-> IF form[f] = "" THEN InitialValues(shown[r])[f] ELSE form[f]])

OpenEdit(r) ==
  /\ editing = "closed" /\ shown[r] # NoRecord
  /\ Opened(r, InitialValues(shown[r]))

UpdateField(f, v) ==
  /\ editing # "closed" /\ f \in ShownFields \ typed
  /\ Cardinality(typed) < MaxTyped
  /\ form' = [form EXCEPT ![f] = v]
  /\ typed' = typed \cup {f}
  /\ UNCHANGED <<records, shown, editing, saving, formError, forms, meant, misposted>>

CloseForm ==
  /\ editing # "closed"
  /\ editing' = "closed" /\ typed' = {}
  /\ UNCHANGED <<records, shown, form, saving, formError, forms, meant, misposted>>

-----------------------------------------------------------------------------
(* Saves.                                                                  *)

NoSave == [at |-> "none", row |-> "new", payload |-> NoRecord]

\* The mutation runs: it reads the form.  A json text that does not parse rejects
\* it before anything is sent.
Send ==
  /\ IF \E f \in DOMAIN Payload : Payload[f] = "bad"
       THEN saving' = NoSave /\ formError' = TRUE /\ UNCHANGED meant
       ELSE /\ saving' = [at |-> "sent", row |-> editing, payload |-> Payload]
            /\ meant' = meant \cup {<<editing, f, form[f]>> : f \in typed}
            /\ UNCHANGED formError
  /\ UNCHANGED <<records, shown, editing, form, typed, forms, misposted>>

\* The button waits for the save before.
Save == editing # "closed" /\ saving = NoSave /\ Send

SaveOffline ==
  /\ editing # "closed" /\ saving = NoSave
  /\ saving' = [NoSave EXCEPT !.at = "paused"]
  /\ UNCHANGED <<records, shown, editing, form, formError, typed, forms, meant, misposted>>

\* Back online, whatever is in the form by now.
Continue == saving.at = "paused" /\ Send

Patched(row, payload) ==
  [f \in Field |-> IF f \in DOMAIN payload THEN payload[f] ELSE row[f]]

\* The rows that have the key of "row".
Twins(row) ==
  {r \in RowId \ Absent : Key # {} /\ \A f \in Key : f \in DOMAIN row /\ records[r][f] = row[f]}

\* PATCH: a key that another row has is refused.
ServePatch(r) ==
  LET row == Patched(records[r], saving.payload)
  IN /\ Twins(row) \subseteq {r}
     /\ records' = [records EXCEPT ![r] = row]
     /\ UNCHANGED <<meant, misposted>>

\* POST: a new row, or the one with the key.
ServePost ==
  LET found == Twins(saving.payload)
  IN /\ Key \subseteq DOMAIN saving.payload
     /\ \E r \in IF found = {} THEN Unborn ELSE found :
          LET old == IF found = {} THEN [f \in Field |-> Null] ELSE records[r]
          IN /\ records' = [records EXCEPT ![r] = Patched(old, saving.payload)]
             /\ meant' = meant \cup {<<r, f, old[f]>> : f \in IF found = {} THEN Field ELSE {}}
                           \cup {<<r, m[2], m[3]>> : m \in {n \in meant : n[1] = "new"}}
             /\ misposted' =
                  misposted \cup {<<r, f, saving.payload[f]>> :
                                    f \in {g \in DOMAIN saving.payload :
                                            found # {} \/ saving.row = "closed"}}

\* The server carries it out or refuses it.
Serve ==
  /\ saving.at = "sent"
  /\ \/ /\ \/ saving.row \in RowId \ Absent /\ ServePatch(saving.row)
           \/ saving.row \in {"new", "closed"} /\ ServePost
        /\ saving' = [saving EXCEPT !.at = "done"]
     \/ /\ saving' = [saving EXCEPT !.at = "refused"]
        /\ UNCHANGED <<records, meant, misposted>>
  /\ UNCHANGED <<shown, editing, form, formError, typed, forms>>

\* onSuccess closes, and onError marks, the form that is open then, be it the one
\* that was saved or another.  The answer may get lost.
SaveAnswered ==
  /\ saving.at \in {"done", "refused"}
  /\ saving' = NoSave
  /\ \/ /\ saving.at = "done"
        /\ editing' = "closed" /\ typed' = {}
        /\ form' = [f \in Field |-> ""]
        /\ formError' = FALSE
     \/ formError' = TRUE /\ UNCHANGED <<editing, form, typed>>
  /\ UNCHANGED <<records, shown, forms, meant, misposted>>

\* The button of a row, carried out while any form is open by then: the server
\* removes the row, or keeps it as an inactive one.
DeleteRow(r) ==
  /\ shown[r] # NoRecord /\ forms < MaxForms
  /\ forms' = forms + 1
  /\ records' \in {records, [records EXCEPT ![r] = NoRecord]}
  /\ UNCHANGED <<shown, editing, form, saving, formError, typed, meant, misposted>>

\* Another page saves.
EditElsewhere(r, f, v) ==
  /\ r \notin Absent /\ forms < MaxForms
  /\ forms' = forms + 1
  /\ Twins([records[r] EXCEPT ![f] = v]) \subseteq {r}
  /\ records' = [records EXCEPT ![r][f] = v]
  /\ meant' = meant \cup {<<r, f, v>>}
  /\ UNCHANGED <<shown, editing, form, saving, formError, typed, misposted>>

CrudInit ==
  /\ records = Given
  /\ shown = [r \in RowId |-> NoRecord]
  /\ editing = "closed"
  /\ form = [f \in Field |-> ""]
  /\ saving = NoSave
  /\ formError = FALSE
  /\ typed = {}
  /\ forms = 0
  /\ meant = UNION {{<<r, f, Given[r][f]>> : f \in Field} : r \in RowId \ Absent}
  /\ misposted = {}

CrudNext ==
  \/ Fetch
  \/ OpenCreate \/ CloseForm
  \/ \E r \in RowId : OpenEdit(r) \/ DeleteRow(r)
  \/ \E f \in Field : \E v \in Choices(f) : UpdateField(f, v)
  \/ Save \/ SaveOffline \/ Continue \/ Serve \/ SaveAnswered
  \/ \E r \in RowId, f \in Field, v \in Content : EditElsewhere(r, f, v)

CrudSpec == CrudInit /\ [][CrudNext]_crudVars

CrudTypeOK ==
  /\ records \in [RowId -> [Field -> Held \cup {"absent"}]]
  /\ shown \in [RowId -> [Field -> Held \cup {"absent"}]]
  /\ editing \in RowId \cup {"new", "closed"}
  /\ form \in [Field -> Control]
  /\ saving.at \in {"none", "paused", "sent", "done", "refused"}
  /\ saving.row \in RowId \cup {"new", "closed"}
  /\ DOMAIN saving.payload \subseteq Field
  /\ formError \in BOOLEAN
  /\ typed \subseteq Field
  /\ forms \in 0..MaxForms
-----------------------------------------------------------------------------
(***************************************************************************)
(* Saving a form changes no field to something nobody meant that field of  *)
(* that row to hold: whatever forms were opened, closed or overtaken by    *)
(* the answer to another save, and whichever of them a save that waited    *)
(* offline finds, an untyped control is sent with what the row itself once *)
(* held.  Only a masked secret becomes the mask, and only an empty field   *)
(* the default of its control; and what a POST put there may be what it    *)
(* wrote over the row of its key, or sent with no form open.               *)
(***************************************************************************)
SavesAreMeant ==
  \A r \in RowId \ Absent : \A f \in Field :
    LET v    == records[r][f]
        told == meant \cup misposted
    IN \/ <<r, f, v>> \in told
       \/ v = Mask /\ f \in Masked
       \/ v = "default" /\ <<r, f, Null>> \in told
=============================================================================
