---------------------------- MODULE Conversations ----------------------------
(***************************************************************************)
(* The HTTP operations of ConversationsService, run concurrently.          *)
(*                                                                         *)
(* Every operation awaits a read before it awaits its write, so a request  *)
(* in flight holds what it read while other handlers change the row.  The  *)
(* arrival of a request and the answer to its first query are one action;  *)
(* each later query is an action of its own.  A request that ends without  *)
(* a write (404, 400, an existing conversation) leaves no trace.           *)
(***************************************************************************)
EXTENDS ConversationStore

CONSTANTS
  Request,        \* slots of requests in flight
  Op,             \* the operations clients call in an instance
  CreateDto,      \* bodies of POST /conversations
  UpdateDto,      \* bodies of PATCH /conversations/:id
  TransferDto     \* bodies of POST /conversations/:id/transfer

Ops == {"create", "update", "assign", "transfer", "resolve", "close", "reopen"}

\* One record for all bodies; None is a field the client left out.
Dto == [contact : Contact \cup {None}, channel : Channel \cup {None},
        number : Number \cup {None}, queue : Queue \cup {None},
        agent : Agent \cup {None}]

NoDto == [contact |-> None, channel |-> None, number |-> None,
          queue |-> None, agent |-> None]

ASSUME ConversationsAssumption ==
  /\ Request \subseteq Handler
  /\ Op \subseteq Ops
  /\ CreateDto \subseteq {d \in Dto : d.contact # None /\ d.channel # None}
  /\ UpdateDto \subseteq {d \in Dto : d.agent = None}
  /\ TransferDto \subseteq {d \in Dto : d.contact = None}

VARIABLES
  req,            \* the requests in flight
  transfers       \* the conversation_transfers table

apiVars == <<req, transfers>>

\* "queue" is the queueId that transfer() read together with the row.
ReqRec == [op : Ops \cup {"none"}, at : {"idle", "insert", "record", "write"},
           conv : Conversation \cup {None}, queue : Queue \cup {None}, dto : Dto]

Idle == [op |-> "none", at |-> "idle", conv |-> None, queue |-> None, dto |-> NoDto]

Transfer == [conv : Conversation, fromQueue : Queue \cup {None},
             toQueue : Queue \cup {None}, toAgent : Agent \cup {None}]

ApiInit == req = [r \in Request |-> Idle] /\ transfers = {}

ApiTypeOK ==
  /\ req \in [Request -> ReqRec]
  /\ transfers \subseteq Transfer

-----------------------------------------------------------------------------
\* A request is accepted: its handler has read what it needs and awaits more.
Accept(r, op, at, c, queue, dto) ==
  /\ req[r].at = "idle"
  /\ op \in Op
  /\ req' = [req EXCEPT ![r] = [op |-> op, at |-> at, conv |-> c,
                                queue |-> queue, dto |-> dto]]
  /\ Silent
  /\ UNCHANGED <<conv, transfers>>

\* findOne() found the row; the handler goes on to its write.
ReadThenWrite(r, op, c, dto) ==
  /\ Exists(c)
  /\ Accept(r, op, "write", c, None, dto)
  /\ UNCHANGED lookup

CreateWhere(dto) ==
  [contact |-> dto.contact, channel |-> dto.channel, number |-> None]

\* Faulty variant: what the lookup finds is not looked at.
CreateAnyway(r, dto) ==
  /\ Accept(r, "create", "insert", None, None, dto)
  /\ BeginLookup(r, CreateWhere(dto))

CreateFind(r, dto) ==
  /\ Found(CreateWhere(dto)) = {}
  /\ Accept(r, "create", "insert", None, None, dto)
  /\ BeginLookup(r, CreateWhere(dto))

Update(r, c, dto) == ReadThenWrite(r, "update", c, dto)

\* The agent was found active; an unknown agent ends the request with a 404.
Assign(r, c, a) == ReadThenWrite(r, "assign", c, [NoDto EXCEPT !.agent = a])

TransferRead(r, c, dto) ==
  /\ Exists(c)
  /\ Accept(r, "transfer", "record", c, conv[c].queue, dto)
  /\ UNCHANGED lookup

Resolve(r, c) ==
  /\ conv[c].status # "CLOSED"
  /\ ReadThenWrite(r, "resolve", c, NoDto)

Close(r, c) == ReadThenWrite(r, "close", c, NoDto)

Reopen(r, c) == ReadThenWrite(r, "reopen", c, NoDto)

-----------------------------------------------------------------------------
(* The queries that write.  Each commits, and the step goes on with what    *)
(* the handler does when it has the answer.                                *)

Done(r) == req' = [req EXCEPT ![r] = Idle]

CommitInsert(r, c) ==
  LET dto == req[r].dto IN
  /\ req[r].at = "insert"
  /\ Insert(r, c, NewRow(dto.contact, dto.channel, dto.number, dto.queue))
  /\ UNCHANGED transfers

\* Faulty variant: the record does not name its conversation.
RecordUnlinked(r) ==
  /\ req[r].at = "record"
  /\ transfers' = transfers \cup
       {[conv |-> None, fromQueue |-> req[r].queue,
         toQueue |-> req[r].dto.queue, toAgent |-> req[r].dto.agent]}
  /\ UNCHANGED <<conv, lookup>>

\* The second of transfer()'s three queries; the third is not in a
\* transaction with it.
CommitRecord(r) ==
  LET q == req[r] IN
  /\ q.at = "record"
  /\ transfers' = transfers \cup
       {[conv |-> q.conv, fromQueue |-> q.queue,
         toQueue |-> q.dto.queue, toAgent |-> q.dto.agent]}
  /\ UNCHANGED <<conv, lookup>>

Else(new, old) == IF new = None THEN old ELSE new

(* The row as the final UPDATE of a request leaves it: only the columns the *)
(* operation names change, whatever happened to the row since it was read.  *)

Updated(dto, row) ==
  [row EXCEPT !.contact = Else(dto.contact, @), !.channel = Else(dto.channel, @),
              !.number = Else(dto.number, @), !.queue = Else(dto.queue, @)]

\* Faulty variant: the status stays what it was.
AssignedOnly(a, row) == [row EXCEPT !.agent = a, !.waiting = FALSE]

Assigned(a, row) ==
  [row EXCEPT !.agent = a, !.status = "IN_PROGRESS", !.waiting = FALSE]

\* Faulty variant: the status stays what it was.
MovedOnly(dto, readQueue, row) ==
  [row EXCEPT !.agent = dto.agent, !.queue = Else(dto.queue, readQueue)]

\* "readQueue" is the row's queue when transfer() read it.
Transferred(dto, readQueue, row) ==
  [row EXCEPT !.agent = dto.agent, !.queue = Else(dto.queue, readQueue),
              !.status = IF dto.agent # None THEN "IN_PROGRESS" ELSE "WAITING"]

Resolved(row) == [row EXCEPT !.status = "RESOLVED", !.resolvedAt = TRUE]

\* Faulty variant: closedAt is forgotten.
ClosedUnstamped(row) == [row EXCEPT !.status = "CLOSED"]

Closed(row) == [row EXCEPT !.status = "CLOSED", !.closedAt = TRUE]

Reopened(row) ==
  [row EXCEPT !.status = "IN_PROGRESS", !.resolvedAt = FALSE, !.closedAt = FALSE]

Written(q, row) ==
  CASE q.op = "update"   -> Updated(q.dto, row)
    [] q.op = "assign"   -> Assigned(q.dto.agent, row)
    [] q.op = "transfer" -> Transferred(q.dto, q.queue, row)
    [] q.op = "resolve"  -> Resolved(row)
    [] q.op = "close"    -> Closed(row)
    [] OTHER             -> Reopened(row)

CommitWrite(r) ==
  /\ req[r].at = "write"
  /\ Save(req[r].conv, Written(req[r], conv[req[r].conv]))
  /\ UNCHANGED transfers

CreateInsert(r, c) ==
  /\ CommitInsert(r, c)
  /\ Emit("conversation.created", c, "WAITING")
  /\ Done(r)

TransferRecord(r) ==
  /\ CommitRecord(r)
  /\ req' = [req EXCEPT ![r].at = "write"]
  /\ Silent

EventOf == [update   |-> "conversation.updated",
            assign   |-> "conversation.assigned",
            transfer |-> "conversation.transferred",
            resolve  |-> "conversation.resolved",
            close    |-> "conversation.closed",
            reopen   |-> "conversation.reopened"]

Write(r) ==
  /\ CommitWrite(r)
  /\ Emit(EventOf[req[r].op], req[r].conv,
          Written(req[r], conv[req[r].conv]).status)
  /\ Done(r)

\* A query commits but its answer is lost with the database connection (or
\* with the process): the handler goes no further.
LostAnswer(r) ==
  /\ \/ \E c \in Conversation : CommitInsert(r, c)
     \/ CommitRecord(r)
     \/ CommitWrite(r)
  /\ Silent
  /\ Done(r)

\* A query is rejected: the exception filter answers the client with an error.
Fail(r) ==
  /\ req[r].at # "idle"
  /\ Done(r)
  /\ lookup' = [lookup EXCEPT ![r] = None]
  /\ Silent
  /\ UNCHANGED <<conv, transfers>>

ApiStep ==
  \E r \in Request :
    \/ \E dto \in CreateDto : CreateFind(r, dto)
    \/ \E c \in Conversation :
         \/ CreateInsert(r, c)
         \/ \E dto \in UpdateDto : Update(r, c, dto)
         \/ \E a \in Agent : Assign(r, c, a)
         \/ \E dto \in TransferDto : TransferRead(r, c, dto)
         \/ Resolve(r, c)
         \/ Close(r, c)
         \/ Reopen(r, c)
    \/ TransferRecord(r)
    \/ Write(r)
    \/ LostAnswer(r)
    \/ Fail(r)

\* The process dies and is restarted: the tables remain.
Crash ==
  /\ req' = [r \in Request |-> Idle]
  /\ lookup' = [h \in Handler |-> None]
  /\ Silent
  /\ UNCHANGED <<conv, transfers>>

Init == StoreInit /\ ApiInit
Next == ApiStep \/ Crash
vars == <<conv, lookup, emitted, req, transfers>>
Spec == Init /\ [][Next]_vars

TypeOK == StoreTypeOK /\ ApiTypeOK

-----------------------------------------------------------------------------
(***************************************************************************)
(* A conversation that waits without a waitingSince was put back to a      *)
(* queue by a transfer, and the transfer table says so, even when the      *)
(* request or the process died halfway: transfer() neither sets nor clears *)
(* the stamp and inserts its record before it touches the row.             *)
(***************************************************************************)
UnclockedWaitIsTransferred ==
  \A c \in Conversation :
    conv[c].status = "WAITING" /\ ~ conv[c].waiting
      => \E t \in transfers : t.conv = c /\ t.toAgent = None

(***************************************************************************)
(* Of all operations only reopen() can leave a conversation in progress    *)
(* with nobody attending it: assign() and transfer() write agent and       *)
(* status in one update, and no other write separates them.                *)
(***************************************************************************)
Unattended(c) == conv[c].status = "IN_PROGRESS" /\ conv[c].agent = None

OnlyReopenLeavesUnattended ==
  [][\A c \in Conversation :
       ~ Unattended(c) /\ Unattended(c)'
         => \E r \in Request : /\ req[r].op = "reopen" /\ req[r].conv = c
                               /\ req'[r] = Idle]_vars

(***************************************************************************)
(* A closed conversation is not resolved afterwards: resolve() answers     *)
(* "Conversa ja encerrada" when the conversation is closed.                *)
(***************************************************************************)
ClosedIsNotResolved ==
  [][\A c \in Conversation :
       conv[c].status = "CLOSED" => conv'[c].status # "RESOLVED"]_vars
=============================================================================
