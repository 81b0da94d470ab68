-------------------------- MODULE ConversationStore --------------------------
(***************************************************************************)
(* The "conversations" table of the backend as every handler sees it:      *)
(* rows that are read and written one query at a time, the find-or-create  *)
(* lookups that are outstanding between two queries, and the domain event  *)
(* that the last step emitted on the in-process event bus.                 *)
(*                                                                         *)
(* Each database query is atomic; a handler that awaits several of them is *)
(* several actions (modules Conversations, WhatsappInbox, Automations).    *)
(***************************************************************************)
CONSTANTS
  Conversation,   \* primary keys a row can be created with
  Contact,        \* contacts, by primary key
  Number,         \* WhatsApp numbers of the organization
  Agent,          \* users that can be given a conversation
  Queue,          \* service queues
  Handler,        \* slots of concurrently running find-or-create handlers
  None            \* null (an absent column) and undefined (an absent field)

ASSUME NoneAssumption ==
  None \notin Conversation \cup Contact \cup Number \cup Agent \cup Queue

VARIABLES
  conv,           \* the table: a row for every key, Absent until created
  lookup,         \* per handler: the find-or-create it is in the middle of
  emitted         \* the event the last step emitted, or None

storeVars == <<conv, lookup, emitted>>

OpenStatus == {"WAITING", "IN_PROGRESS", "PENDING"}
Status     == OpenStatus \cup {"RESOLVED", "CLOSED"}
Channel    == {"WHATSAPP", "TELEGRAM"}

\* The nullable time stamps waitingSince, resolvedAt and closedAt are kept as
\* "is set"; subject, priority, sector and metadata decide nothing.
Row == [status     : Status \cup {"ABSENT"},
        contact    : Contact \cup {None},
        channel    : Channel \cup {None},
        number     : Number \cup {None},
        queue      : Queue \cup {None},
        agent      : Agent \cup {None},
        waiting    : BOOLEAN,
        resolvedAt : BOOLEAN,
        closedAt   : BOOLEAN]

Absent == [status |-> "ABSENT", contact |-> None, channel |-> None,
           number |-> None, queue |-> None, agent |-> None,
           waiting |-> FALSE, resolvedAt |-> FALSE, closedAt |-> FALSE]

\* A conversation as create() inserts it.
NewRow(contact, channel, number, queue) ==
  [Absent EXCEPT !.status = "WAITING", !.contact = contact, !.channel = channel,
                 !.number = number, !.queue = queue, !.waiting = TRUE]

Exists(c) == conv[c].status # "ABSENT"
IsOpen(c) == conv[c].status \in OpenStatus

(***************************************************************************)
(* The where clause of a find-or-create.  number = None leaves the WhatsApp *)
(* number out of the clause, as create() and the Telegram webhook do.      *)
(***************************************************************************)
Where == [contact : Contact, channel : Channel, number : Number \cup {None}]

\* Faulty variant: the contact is left out of the clause.
SelectsAnyContact(w, row) ==
  /\ row.status \in OpenStatus
  /\ row.channel = w.channel
  /\ w.number \in {None, row.number}

Selects(w, row) ==
  /\ row.status \in OpenStatus
  /\ row.contact = w.contact
  /\ row.channel = w.channel
  /\ w.number \in {None, row.number}

Found(w) == {c \in Conversation : Selects(w, conv[c])}

(***************************************************************************)
(* An outstanding lookup remembers its clause and, for the properties      *)
(* only, the rows that came to satisfy it after it was answered.           *)
(***************************************************************************)
Lookup == [where : Where, late : SUBSET Conversation]

BeginLookup(h, w) == lookup' = [lookup EXCEPT ![h] = [where |-> w, late |-> {}]]

Noted(c, row) ==
  [h \in Handler |->
     IF lookup[h] # None /\ Selects(lookup[h].where, row)
                         /\ ~ Selects(lookup[h].where, conv[c])
     THEN [lookup[h] EXCEPT !.late = @ \cup {c}]
     ELSE lookup[h]]

\* One UPDATE of row c by a handler that has no lookup outstanding.
Save(c, row) ==
  /\ conv' = [conv EXCEPT ![c] = row]
  /\ lookup' = Noted(c, row)

\* The INSERT that ends the find-or-create of handler h.
Insert(h, c, row) ==
  /\ ~ Exists(c)
  /\ conv' = [conv EXCEPT ![c] = row]
  /\ lookup' = [Noted(c, row) EXCEPT ![h] = None]

EventType == {"conversation.created", "conversation.updated",
              "conversation.assigned", "conversation.transferred",
              "conversation.resolved", "conversation.closed",
              "conversation.reopened", "message.received"}

\* The payload is the row the emitting handler holds, which may be stale by
\* the time a listener uses it; listeners test no more of it than its status.
Event == [type : EventType, conv : Conversation, status : Status]

Emit(type, c, status) ==
  emitted' = [type |-> type, conv |-> c, status |-> status]

Silent == emitted' = None

StoreInit ==
  /\ conv = [c \in Conversation |-> Absent]
  /\ lookup = [h \in Handler |-> None]
  /\ emitted = None

StoreTypeOK ==
  /\ conv \in [Conversation -> Row]
  /\ lookup \in [Handler -> Lookup \cup {None}]
  /\ emitted \in Event \cup {None}

(***************************************************************************)
(* Whoever writes the table, a final status carries its time stamp: a      *)
(* CLOSED row has closedAt and a RESOLVED row has resolvedAt, whatever     *)
(* assignments, transfers, automations and reopenings came before.         *)
(***************************************************************************)
StampsMatch ==
  \A c \in Conversation :
    /\ conv[c].status = "CLOSED" => conv[c].closedAt
    /\ conv[c].status = "RESOLVED" => conv[c].resolvedAt

(***************************************************************************)
(* The find of a find-or-create goes stale only by what happens after it:  *)
(* every open conversation that the handler would now find was created,    *)
(* reopened or re-addressed since its lookup was answered.  So a handler   *)
(* that runs alone never opens a second conversation for its contact.      *)
(***************************************************************************)
StaleOnlyByOverlap ==
  \A h \in Handler :
    lookup[h] # None => Found(lookup[h].where) \subseteq lookup[h].late

(***************************************************************************)
(* At most one conversation of a contact is open on a channel: what the    *)
(* lookup in create() is there for ("Check if there's already an open      *)
(* conversation with this contact").                                       *)
(***************************************************************************)
OneOpenPerContact ==
  \A c, d \in Conversation :
    /\ IsOpen(c) /\ IsOpen(d)
    /\ conv[c].contact = conv[d].contact
    /\ conv[c].channel = conv[d].channel
    => c = d
=============================================================================
