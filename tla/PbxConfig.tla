------------------------------ MODULE PbxConfig ------------------------------
(***************************************************************************)
(* The PBX configuration of PbxService: the rows that administrators edit  *)
(* (routes, IVR menus, ring groups; queues, extensions and trunks through  *)
(* their own services), the three Asterisk files that applyAsteriskConfig() *)
(* generates from them, and what Asterisk (external) has loaded.  Edits    *)
(* validate and write in separate queries; an apply reads six tables at    *)
(* once, writes three files at once and sends three reloads in a row.      *)
(*                                                                         *)
(* A row that was never created and an inactive one look alike to every    *)
(* query made here, so both are inactive things.                           *)
(***************************************************************************)
EXTENDS Naturals, FiniteSets

CONSTANTS
  Extension, Trunk, Queue, Ivr, Group,
  Inbound, Outbound,   \* routes, by direction
  Admin,          \* slots of edits being handled
  Applier,        \* slots of applies being handled
  Configured,     \* the rows at the start: [Thing -> ConfigRow], all of them valid
  MaxEdits,       \* how many edits administrators ask for
  Asked,          \* what the n-th of them may be
  MaxWork,        \* edits so far and applies being handled, together
  NoEdit

Route  == Inbound \cup Outbound
Thing  == Extension \cup Trunk \cup Queue \cup Ivr \cup Group \cup Route
Device == Extension \cup Trunk

Table == {Extension, Trunk, Queue, Ivr, Group, Route}

\* The types of a route's destination; OUTSIDE are HANGUP and EXTERNAL_NUMBER.
DestinationType == {"EXTENSION", "QUEUE", "IVR", "RING_GROUP", "OUTSIDE"}

\* The table in which the value of a destination is looked up.
InTable(type) == CASE type = "EXTENSION"  -> Extension
                   [] type = "QUEUE"      -> Queue
                   [] type = "IVR"        -> Ivr
                   [] type = "RING_GROUP" -> Group
                   [] OTHER -> {}

\* "to" holds the value of the destination and the trunk of a route, the
\* destinations of the options of an IVR, the extensions of the members of a ring
\* group or a queue.  Only routes have a type: an option is written whole.
ConfigRow == [active : BOOLEAN, type : DestinationType, to : SUBSET Thing]

Value(row) == row.to \ Trunk

\* What a row points at, as far as it is looked up where it is.
Destinations(x, row) == IF x \in Route THEN Value(row) \cap InTable(row.type) ELSE Value(row)

VARIABLES
  things,         \* the tables
  edit,           \* the edits being handled
  retired,        \* things that were deactivated at some time
  mismatched,     \* routes one half of whose destination (type or value) was
                  \* written over another row than the one it was validated with
  edits,          \* edits begun so far
  job,            \* the applies being handled
  file,           \* the generated files
  live,           \* what Asterisk has loaded
  mixed           \* no apply that had the files to itself has ended well since
                  \* one failed or shared them

pbxVars == <<things, edit, retired, mismatched, edits, job, file, live, mixed>>

-----------------------------------------------------------------------------
(* Editing.                                                                *)

Pointing == Ivr \cup Group \cup Route

\* What the rows of each kind may point at.
Targets(x) == CASE x \in Route -> Thing \ Route
                [] x \in Ivr   -> Thing \ (Route \cup Trunk)
                [] x \in Group \cup Queue -> Extension
                [] OTHER -> {}

\* "save" creates a row or writes the fields that a PATCH names, "add" and "drop"
\* are the operations on one option or member.  "retire" is what delete does,
\* whoever points at the row.
RowField == {"type", "value", "trunk", "isActive"}

Order ==
  {e \in [thing : Thing, op : {"save", "add", "drop", "retire"}, names : SUBSET RowField,
          type : DestinationType, to : SUBSET Thing, isActive : BOOLEAN] :
     /\ e.to \subseteq Targets(e.thing)
     /\ e.thing \in Route => /\ e.op \in {"save", "retire"}
                             /\ \A t, u \in e.to : (t \in Trunk <=> u \in Trunk) => t = u
     /\ e.thing \notin Route => e.names \subseteq {"value", "isActive"}}

\* The body of a request over a row.
Merged(row, e) ==
  [active |-> IF "isActive" \in e.names THEN e.isActive ELSE row.active,
   type   |-> IF "type" \in e.names THEN e.type ELSE row.type,
   to     |-> (IF "value" \in e.names THEN Value(e) ELSE Value(row))
              \cup ((IF "trunk" \in e.names THEN e.to ELSE row.to) \cap Trunk)]

\* An edit being handled, what it has yet to validate, and the row as it was read.
Edit == [order : Order, left : SUBSET Thing, read : ConfigRow]

\* A destination that is not outside has a value, which is looked up where it is.
Destined(row) ==
  \/ row.type = "OUTSIDE"
  \/ Value(row) # {} /\ Value(row) \subseteq InTable(row.type)

ASSUME PbxAssumption ==
  /\ Configured \in [Thing -> ConfigRow]
  /\ \A x \in Thing : /\ Configured[x].to \subseteq Targets(x)
                      /\ \A t \in Configured[x].to : Configured[t].active
                      /\ x \in Route => Destined(Configured[x])
  /\ \A S, T \in Table : S = T \/ S \cap T = {}
  /\ Asked \in [1..MaxEdits -> SUBSET Order] /\ NoEdit \notin Edit
  /\ MaxEdits \in Nat /\ MaxWork \in Nat

\* Faulty variant: an added option is taken as it comes.
UncheckedAdds(e) == IF e.op = "save" /\ e.thing \in Pointing THEN e.to ELSE {}

\* What is validated before the write: of a route, the destination that it would
\* have, be it the one it has, and the trunk that is named.  Queue members are
\* users, whose extensions nobody looks at.
Validated(e) ==
  IF e.op = "save" /\ e.thing \in Route
    THEN Destinations(e.thing, Merged(things[e.thing], e))
           \cup (IF "trunk" \in e.names THEN e.to \cap Trunk ELSE {})
  ELSE IF e.op \in {"save", "add"} /\ e.thing \in Ivr \cup Group THEN e.to
  ELSE {}

Work == edits + Cardinality({p \in Applier : job[p].at # "idle"})

BeginEdit(d, e) ==
  /\ edit[d] = NoEdit
  /\ Work < MaxWork
  /\ e.op = "save" /\ e.thing \in Route => Destined(Merged(things[e.thing], e))
  /\ edit' = [edit EXCEPT ![d] = [order |-> e, left |-> Validated(e),
                                  read |-> things[e.thing]]]
  /\ edits' = edits + 1
  /\ UNCHANGED <<things, retired, mismatched, job, file, live, mixed>>

\* One validating query: the extensions of a group are looked up together,
\* destinations one after the other.  A target that is not active is refused.
Validate(d) ==
  /\ edit[d] # NoEdit
  /\ edit[d].left # {}
  /\ \E S \in IF edit[d].order.thing \in Group THEN {edit[d].left}
                                              ELSE {{t} : t \in edit[d].left} :
       edit' = [edit EXCEPT ![d] = IF \A t \in S : things[t].active
                                     THEN [edit[d] EXCEPT !.left = @ \ S]
                                     ELSE NoEdit]
  /\ UNCHANGED <<things, retired, mismatched, edits, job, file, live, mixed>>

\* The fields that are not named stay as they are by now.
Written(row, e) ==
  CASE e.op = "save"   -> Merged(row, e)
    [] e.op = "retire" -> [row EXCEPT !.active = FALSE]
    [] e.op = "add"    -> [row EXCEPT !.to = @ \cup e.to]
    [] e.op = "drop"   -> [row EXCEPT !.to = @ \ e.to]

\* The destination that x has after edit e, which read "row", was not validated.
Mismatches(e, x, read) ==
  LET half == e.names \cap {"type", "value"}
      same == Value(things[x]) = Value(read) /\ things[x].type = read.type
  IN IF x \notin Route \/ e.op # "save" \/ half = {} THEN x \in mismatched
     ELSE half # {"type", "value"} /\ ~ same

\* The rows change under the applies that are reading them.
Change(x, row) ==
  /\ things' = [things EXCEPT ![x] = row]
  /\ job' = [p \in Applier |-> IF job[p].at = "read"
                               THEN [job[p] EXCEPT !.since = @ \cup {things'}]
                               ELSE job[p]]

WriteRow(d) ==
  /\ edit[d] # NoEdit
  /\ edit[d].left = {}
  /\ LET e == edit[d].order
         x == e.thing
         row == Written(things[x], e)
     IN /\ Change(x, row)
        /\ retired' = IF things[x].active /\ ~ row.active THEN retired \cup {x} ELSE retired
        /\ mismatched' = IF Mismatches(e, x, edit[d].read) THEN mismatched \cup {x}
                                                          ELSE mismatched \ {x}
  /\ edit' = [edit EXCEPT ![d] = NoEdit]
  /\ UNCHANGED <<edits, file, live, mixed>>

EditFails(d) ==
  /\ edit[d] # NoEdit
  /\ edit' = [edit EXCEPT ![d] = NoEdit]
  /\ UNCHANGED <<things, retired, mismatched, edits, job, file, live, mixed>>

-----------------------------------------------------------------------------
(* Generating.  A snapshot is what the six queries returned.               *)

Listed(snap, S) == {x \in S : snap[x].active}

\* Faulty variant: destinations are rendered as they are stored.
Unresolved(snap, x) ==
  IF x \in Outbound THEN snap[x].to \cap Trunk ELSE snap[x].to \ Trunk

\* A destination or trunk that is not among the rows read, or not among those of
\* the destination's type, becomes Congestion();
\* an outbound route without a trunk takes the first one there is.
Resolved(snap, x) ==
  LET own == snap[x].to \cap Trunk IN
  IF x \in Outbound THEN Listed(snap, IF own = {} THEN Trunk ELSE own)
                    ELSE Listed(snap, Destinations(x, snap[x]))

\* What matters of a file: the sections it has (a peer, a queue, a context) and
\* the destinations it jumps to or dials.  The numbers that ring groups and queues
\* call are those of their members, active or not, and are left out.
File == [has : SUBSET Thing, jumps : SUBSET Thing]

RenderSip(snap)    == [has |-> Listed(snap, Device), jumps |-> {}]
RenderQueues(snap) == [has |-> Listed(snap, Queue), jumps |-> {}]

RenderDialplan(snap) ==
  [has   |-> Listed(snap, Ivr \cup Group),
   jumps |-> UNION {Resolved(snap, x) : x \in Listed(snap, Ivr \cup Route)}]

\* sip_omni, extensions_omni (the dialplan), queues_omni: the order of the reloads.
Part == 1..3

Render(snap) == [f \in Part |-> CASE f = 1 -> RenderSip(snap)
                                  [] f = 2 -> RenderDialplan(snap)
                                  [] f = 3 -> RenderQueues(snap)]

\* A file that has been truncated and not written yet.
Blank == [has |-> {}, jumps |-> {}]

\* Every destination the dialplan knows is there.
Lands(c) == c[2].jumps \subseteq UNION {c[f].has : f \in Part}
-----------------------------------------------------------------------------
(* Applying.                                                               *)

NoJob == [at |-> "idle", since |-> {}, text |-> [f \in Part |-> Blank],
          files |-> [f \in Part |-> "done"], next |-> 1, alone |-> FALSE]

\* "since": the states of the tables since the queries were sent; "drain":
\* answered with an error while other files are still being written.
Job == [at    : {"idle", "read", "write", "drain", "reload"},
        since : SUBSET [Thing -> ConfigRow],
        text  : [Part -> File],
        files : [Part -> {"todo", "open", "done"}],
        next  : Part,
        alone : BOOLEAN]

Handling(p) == job[p].at \in {"write", "drain", "reload"}

BeginApply(p) ==
  /\ job[p] = NoJob /\ Work < MaxWork
  /\ job' = [job EXCEPT ![p].at = "read", ![p].since = {things}]
  /\ UNCHANGED <<things, edit, retired, mismatched, edits, file, live, mixed>>

\* All six queries are answered, each with the rows its table had at some time
\* since they were sent; the files are generated and begun.
BeginFiles(p) ==
  /\ job[p].at = "read"
  /\ \E then \in [Table -> job[p].since] :
       LET snap == [x \in Thing |-> then[CHOOSE T \in Table : x \in T][x]] IN
       job' = [o \in Applier |->
                 IF o # p THEN [job[o] EXCEPT !.alone = FALSE]
                 ELSE [NoJob EXCEPT !.at = "write", !.text = Render(snap),
                         !.files = [f \in Part |-> "todo"],
                         !.alone = \A q \in Applier : ~ Handling(q)]]
  /\ UNCHANGED <<things, edit, retired, mismatched, edits, file, live, mixed>>

OpenFile(p, f) ==
  /\ job[p].files[f] = "todo"
  /\ job' = [job EXCEPT ![p].files[f] = "open"]
  /\ file' = [file EXCEPT ![f] = Blank]
  /\ UNCHANGED <<things, edit, retired, mismatched, edits, live, mixed>>

\* The state of the apply once file f is no more being written.
FileLeft(p, f, at) ==
  LET files == [job[p].files EXCEPT ![f] = "done"]
      over  == \A g \in Part : files[g] = "done"
  IN IF over /\ at = "drain" THEN NoJob
     ELSE [job[p] EXCEPT !.files = files,
                         !.at = IF over THEN "reload" ELSE at]

FillFile(p, f) ==
  /\ job[p].files[f] = "open"
  /\ file' = [file EXCEPT ![f] = job[p].text[f]]
  /\ job' = [job EXCEPT ![p] = FileLeft(p, f, job[p].at)]
  /\ UNCHANGED <<things, edit, retired, mismatched, edits, live, mixed>>

\* Promise.all rejects with the first failure; the other writes go on.
WriteFails(p, f) ==
  /\ job[p].files[f] # "done"
  /\ job' = [job EXCEPT ![p] = FileLeft(p, f, "drain")]
  /\ mixed' = TRUE
  /\ UNCHANGED <<things, edit, retired, mismatched, edits, file, live>>

\* Faulty variant: the reloads do not wait for the files.
ReloadEarly(p) ==
  /\ job[p].at \in {"write", "reload"}
  /\ live' = [live EXCEPT ![job[p].next] = file[job[p].next]]
  /\ IF job[p].next < 3
       THEN /\ job' = [job EXCEPT ![p].next = @ + 1]
            /\ UNCHANGED mixed
       ELSE /\ job' = [job EXCEPT ![p] = NoJob]
            /\ mixed' = ~ job[p].alone
  /\ UNCHANGED <<things, edit, retired, mismatched, edits, file>>

Reload(p) ==
  /\ job[p].at = "reload"
  /\ live' = [live EXCEPT ![job[p].next] = file[job[p].next]]
  /\ IF job[p].next < 3
       THEN /\ job' = [job EXCEPT ![p].next = @ + 1]
            /\ UNCHANGED mixed
       ELSE /\ job' = [job EXCEPT ![p] = NoJob]
            /\ mixed' = ~ job[p].alone
  /\ UNCHANGED <<things, edit, retired, mismatched, edits, file>>

\* A query rejects, or a command does: not sent, or carried out and not answered
\* in time.
ApplyFails(p) ==
  /\ job[p].at \in {"read", "reload"}
  /\ job' = [job EXCEPT ![p] = NoJob]
  /\ mixed' = (mixed \/ job[p].at = "reload")
  /\ \/ UNCHANGED live
     \/ job[p].at = "reload" /\ live' = [live EXCEPT ![job[p].next] = file[job[p].next]]
  /\ UNCHANGED <<things, edit, retired, mismatched, edits, file>>

AsteriskRestarts ==
  /\ live' = file
  /\ UNCHANGED <<things, edit, retired, mismatched, edits, job, file, mixed>>

\* The backend dies.
PbxCrash ==
  /\ edit' = [d \in Admin |-> NoEdit]
  /\ job' = [p \in Applier |-> NoJob]
  /\ mixed' = (mixed \/ \E p \in Applier : Handling(p))
  /\ UNCHANGED <<things, retired, mismatched, edits, file, live>>

PbxInit ==
  /\ things = Configured
  /\ edit = [d \in Admin |-> NoEdit]
  /\ retired = {} /\ mismatched = {}
  /\ edits = 0
  /\ job = [p \in Applier |-> NoJob]
  /\ file = [f \in Part |-> Blank]
  /\ live = [f \in Part |-> Blank]
  /\ mixed = FALSE

Editing ==
  \E d \in Admin :
    \/ edits < MaxEdits /\ \E e \in Asked[edits + 1] : BeginEdit(d, e)
    \/ Validate(d)
    \/ WriteRow(d)
    \/ EditFails(d)

Applying ==
  \E p \in Applier :
    \/ BeginApply(p)
    \/ BeginFiles(p)
    \/ \E f \in Part : OpenFile(p, f) \/ FillFile(p, f) \/ WriteFails(p, f)
    \/ Reload(p)
    \/ ApplyFails(p)

PbxNext ==
  \/ Editing
  \/ Applying
  \/ AsteriskRestarts
  \/ PbxCrash

PbxSpec == PbxInit /\ [][PbxNext]_pbxVars

PbxTypeOK ==
  /\ things \in [Thing -> ConfigRow]
  /\ edit \in [Admin -> Edit \cup {NoEdit}]
  /\ retired \subseteq Thing /\ mismatched \subseteq Thing
  /\ edits \in 0..MaxEdits
  /\ job \in [Applier -> Job]
  /\ file \in [Part -> File]
  /\ live \in [Part -> File]
  /\ mixed \in BOOLEAN
-----------------------------------------------------------------------------
Unmixed == ~ mixed /\ \A p \in Applier : ~ Handling(p)

(***************************************************************************)
(* Whatever half-written files, refused reloads and restarts came before,  *)
(* and although its six tables are read at different times, an apply that  *)
(* has the files to itself and ends well leaves Asterisk with a dialplan   *)
(* all of whose queues, devices and contexts exist, and it stays so until  *)
(* another apply.                                                          *)
(***************************************************************************)
LiveJumpsLand == Unmixed => Lands(live)

(***************************************************************************)
(* A route, menu or ring group points at a thing that is not active only   *)
(* if that was deactivated after it had been active, and a route's value   *)
(* is of the table of its type: nothing invalid is ever entered, though    *)
(* validation and write are separate queries and a PATCH writes only the   *)
(* fields it names.  Excepted are the routes whose type and value come     *)
(* from two such requests that overlapped.                                 *)
(***************************************************************************)
DanglingOnlyByRetirement ==
  LET Known(t) == things[t].active \/ t \in retired IN
  /\ \A x \in Pointing \ mismatched :
       /\ \A t \in Destinations(x, things[x]) : Known(t)
       /\ x \in Route => Destined(things[x])
  /\ \A x \in Route : \A t \in things[x].to \cap Trunk : Known(t)
=============================================================================
