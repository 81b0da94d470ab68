---------------------------- MODULE OmniDesk_proofs ----------------------------
(***************************************************************************)
(* Proofs about Conversations, for any number of conversations, contacts,  *)
(* queues, agents and requests and for any request bodies; and then about  *)
(* OmniDesk, where webhooks and automations, in any number too, work on    *)
(* the same table.                                                         *)
(***************************************************************************)
EXTENDS OmniDesk, SequenceTheorems, TLAPS

-----------------------------------------------------------------------------
(* What the operators that make rows and requests return.                  *)

\* A transfer, update or assignment writes what a row may hold, and so do the
\* stamps of a final status.
LEMMA WrittenIsRow ==
  ASSUME NEW q \in ReqRec, NEW row \in Row
  PROVE  Written(q, row) \in Row
<1> USE DEF Row, Status, OpenStatus
<1>1. q.dto \in Dto /\ q.queue \in Queue \cup {None}
  BY DEF ReqRec
<1>2. Updated(q.dto, row) \in Row
  <2>1. /\ Else(q.dto.contact, row.contact) \in Contact \cup {None}
        /\ Else(q.dto.channel, row.channel) \in Channel \cup {None}
        /\ Else(q.dto.number, row.number) \in Number \cup {None}
        /\ Else(q.dto.queue, row.queue) \in Queue \cup {None}
    BY <1>1 DEF Else, Dto
  <2> QED
    BY <2>1 DEF Updated
<1>3. Assigned(q.dto.agent, row) \in Row
  BY <1>1 DEF Assigned, Dto
<1>4. Transferred(q.dto, q.queue, row) \in Row
  <2> DEFINE a == q.dto.agent
             to == Else(q.dto.queue, q.queue)
             st == IF q.dto.agent # None THEN "IN_PROGRESS" ELSE "WAITING"
  <2>1. to \in Queue \cup {None} /\ a \in Agent \cup {None}
    BY <1>1 DEF Else, Dto
  <2>2. st \in {"IN_PROGRESS", "WAITING"}
    OBVIOUS
  <2>3. Transferred(q.dto, q.queue, row) =
          [row EXCEPT !.agent = a, !.queue = to, !.status = st]
    BY DEF Transferred
  <2> HIDE DEF a, to, st
  <2> QED
    BY <2>1, <2>2, <2>3
<1>5. Resolved(row) \in Row /\ Closed(row) \in Row /\ Reopened(row) \in Row
  BY DEF Resolved, Closed, Reopened
<1> HIDE DEF Row
<1> QED
  BY <1>2, <1>3, <1>4, <1>5 DEF Written

LEMMA WrittenExists ==
  ASSUME NEW q \in ReqRec, NEW row \in Row, row.status # "ABSENT"
  PROVE  Written(q, row).status \in Status
<1> USE DEF Row, Status, OpenStatus
<1>1. Updated(q.dto, row).status = row.status
  BY DEF Updated
<1>2. Assigned(q.dto.agent, row).status = "IN_PROGRESS"
  BY DEF Assigned
<1>3. Transferred(q.dto, q.queue, row).status \in {"IN_PROGRESS", "WAITING"}
  BY DEF Transferred
<1>4. /\ Resolved(row).status = "RESOLVED" /\ Closed(row).status = "CLOSED"
      /\ Reopened(row).status = "IN_PROGRESS"
  BY DEF Resolved, Closed, Reopened
<1> QED
  BY <1>1, <1>2, <1>3, <1>4 DEF Written

LEMMA NewRowIsRow ==
  ASSUME NEW dto \in Dto
  PROVE  NewRow(dto.contact, dto.channel, dto.number, dto.queue) \in Row
BY DEF NewRow, Absent, Row, Dto, Status, OpenStatus

LEMMA WhereIsTyped ==
  ASSUME NEW dto \in CreateDto
  PROVE  CreateWhere(dto) \in Where /\ dto \in Dto
BY ConversationsAssumption DEF CreateWhere, Where, Dto

LEMMA BodiesAreTyped ==
  /\ NoDto \in Dto /\ UpdateDto \subseteq Dto /\ TransferDto \subseteq Dto
  /\ \A a \in Agent : [NoDto EXCEPT !.agent = a] \in Dto
BY ConversationsAssumption DEF NoDto, Dto

LEMMA IdleIsTyped == Idle \in ReqRec
BY BodiesAreTyped DEF Idle, ReqRec

\* Taking note of a write keeps the outstanding lookups typed.
LEMMA NotedIsTyped ==
  ASSUME lookup \in [Handler -> Lookup \cup {None}], NEW c \in Conversation, NEW row
  PROVE  Noted(c, row) \in [Handler -> Lookup \cup {None}]
<1> SUFFICES ASSUME NEW h \in Handler, lookup[h] # None
             PROVE  [lookup[h] EXCEPT !.late = @ \cup {c}] \in Lookup
  BY DEF Noted
<1>1. lookup[h] \in Lookup
  OBVIOUS
<1> QED
  BY <1>1 DEF Lookup

-----------------------------------------------------------------------------
(* Type correctness                                                        *)

\* A request that is not idle is about a conversation, unless it creates one;
\* the conversation of a write exists; only transfers insert records.
ReqShape ==
  \A r \in Request :
    /\ req[r].at \in {"record", "write"} =>
         req[r].conv \in Conversation /\ Exists(req[r].conv)
    /\ req[r].at = "write" => req[r].op \in DOMAIN EventOf
    /\ req[r].at = "record" => req[r].op = "transfer"
    /\ req[r].at = "insert" => req[r].dto \in CreateDto
    /\ req[r].op = "assign" => req[r].dto.agent \in Agent

TInv == TypeOK /\ ReqShape

LEMMA AcceptKeeps ==
  ASSUME TInv, NEW r \in Request, NEW op \in Ops, NEW at \in {"insert", "record", "write"},
         NEW c \in Conversation \cup {None}, NEW q \in Queue \cup {None}, NEW dto \in Dto,
         Accept(r, op, at, c, q, dto),
         at \in {"record", "write"} => c \in Conversation /\ Exists(c),
         at = "write" => op \in DOMAIN EventOf,
         at = "record" => op = "transfer",
         at = "insert" => dto \in CreateDto,
         op = "assign" => dto.agent \in Agent,
         lookup' \in [Handler -> Lookup \cup {None}]
  PROVE  TInv'
<1> DEFINE new == [op |-> op, at |-> at, conv |-> c, queue |-> q, dto |-> dto]
<1>1. new \in ReqRec
  BY DEF ReqRec
<1>2. /\ new.op = op /\ new.at = at /\ new.conv = c /\ new.dto = dto
  OBVIOUS
<1> HIDE DEF new
<1>3. /\ req' = [req EXCEPT ![r] = new] /\ conv' = conv /\ transfers' = transfers
      /\ emitted' = None
  BY DEF Accept, Silent, new
<1>4. TypeOK'
  BY <1>1, <1>3 DEF TInv, TypeOK, StoreTypeOK, ApiTypeOK
<1>5. ReqShape'
  <2> SUFFICES ASSUME NEW x \in Request PROVE
        /\ req'[x].at \in {"record", "write"} =>
             req'[x].conv \in Conversation /\ Exists(req'[x].conv)
        /\ req'[x].at = "write" => req'[x].op \in DOMAIN EventOf
        /\ req'[x].at = "record" => req'[x].op = "transfer"
        /\ req'[x].at = "insert" => req'[x].dto \in CreateDto
        /\ req'[x].op = "assign" => req'[x].dto.agent \in Agent
    BY <1>3 DEF ReqShape, Exists
  <2>1. CASE x = r
    BY <1>2, <1>3, <2>1 DEF TInv, TypeOK, ApiTypeOK
  <2>2. CASE x # r
    BY <1>3, <2>2 DEF TInv, TypeOK, ApiTypeOK, ReqShape
  <2> QED
    BY <2>1, <2>2
<1> QED
  BY <1>4, <1>5 DEF TInv

\* The step that ends a request, whatever it does to the tables.
LEMMA DoneKeeps ==
  ASSUME TInv, NEW r \in Request, Done(r),
         \A c \in Conversation : Exists(c) => Exists(c)'
  PROVE  req' \in [Request -> ReqRec] /\ ReqShape'
<1>1. Idle \in ReqRec /\ Idle.at = "idle" /\ Idle.op = "none"
  BY IdleIsTyped DEF Idle
<1>2. req' = [req EXCEPT ![r] = Idle] /\ req \in [Request -> ReqRec]
  BY DEF Done, TInv, TypeOK, ApiTypeOK
<1>3. ASSUME NEW x \in Request
      PROVE  req'[x] = Idle \/ req'[x] = req[x]
  BY <1>2
<1>4. ReqShape'
  BY <1>1, <1>3 DEF ReqShape, TInv
<1> QED
  BY <1>1, <1>2, <1>4

\* The three queries that write: typed tables, and no row goes away.
LEMMA CommitInsertTyped ==
  ASSUME TInv, NEW r \in Request, NEW c \in Conversation, CommitInsert(r, c)
  PROVE  /\ conv' \in [Conversation -> Row]
         /\ lookup' \in [Handler -> Lookup \cup {None}]
         /\ transfers' \subseteq Transfer
         /\ \A d \in Conversation : Exists(d) => Exists(d)'
<1> DEFINE dto == req[r].dto
           new == NewRow(dto.contact, dto.channel, dto.number, dto.queue)
<1>1. dto \in Dto /\ transfers' = transfers /\ transfers \subseteq Transfer
  BY ConversationsAssumption DEF TInv, TypeOK, ApiTypeOK, ReqRec, CommitInsert
<1>2. new \in Row /\ new.status = "WAITING"
  BY <1>1, NewRowIsRow DEF NewRow, Absent
<1>3. /\ ~ Exists(c)
      /\ conv' = [conv EXCEPT ![c] = new]
      /\ lookup' = [Noted(c, new) EXCEPT ![r] = None]
  BY DEF CommitInsert, Insert
<1>4. conv \in [Conversation -> Row] /\ lookup \in [Handler -> Lookup \cup {None}]
  BY DEF TInv, TypeOK, StoreTypeOK
<1> HIDE DEF dto, new
<1>5. Noted(c, new) \in [Handler -> Lookup \cup {None}]
  BY <1>4, NotedIsTyped
<1>6. \A d \in Conversation : Exists(d) => conv'[d] = conv[d]
  BY <1>3, <1>4 DEF Exists
<1> QED
  BY <1>1, <1>2, <1>3, <1>4, <1>5, <1>6 DEF Exists

LEMMA CommitRecordTyped ==
  ASSUME TInv, NEW r \in Request, CommitRecord(r)
  PROVE  /\ conv' = conv /\ lookup' = lookup
         /\ transfers' \subseteq Transfer
<1>1. req[r].dto \in Dto /\ req[r].queue \in Queue \cup {None}
      /\ req[r].conv \in Conversation /\ transfers \subseteq Transfer
  BY DEF TInv, TypeOK, ApiTypeOK, ReqRec, CommitRecord, ReqShape
<1>2. [conv |-> req[r].conv, fromQueue |-> req[r].queue,
       toQueue |-> req[r].dto.queue, toAgent |-> req[r].dto.agent] \in Transfer
  BY <1>1 DEF Transfer, Dto
<1> QED
  BY <1>1, <1>2 DEF CommitRecord

LEMMA CommitWriteTyped ==
  ASSUME TInv, NEW r \in Request, CommitWrite(r)
  PROVE  /\ conv' \in [Conversation -> Row]
         /\ lookup' \in [Handler -> Lookup \cup {None}]
         /\ transfers' \subseteq Transfer
         /\ \A d \in Conversation : Exists(d) => Exists(d)'
         /\ Written(req[r], conv[req[r].conv]).status \in Status
<1> DEFINE c == req[r].conv
           new == Written(req[r], conv[c])
<1>1. /\ req[r] \in ReqRec /\ c \in Conversation /\ conv[c].status # "ABSENT"
      /\ transfers' = transfers /\ transfers \subseteq Transfer
  BY DEF TInv, TypeOK, ApiTypeOK, CommitWrite, ReqShape, Exists
<1>2. conv \in [Conversation -> Row] /\ lookup \in [Handler -> Lookup \cup {None}]
  BY DEF TInv, TypeOK, StoreTypeOK
<1>3. new \in Row /\ new.status \in Status
  BY <1>1, <1>2, WrittenIsRow, WrittenExists
<1>4. conv' = [conv EXCEPT ![c] = new] /\ lookup' = Noted(c, new)
  BY DEF CommitWrite, Save
<1> HIDE DEF new, c
<1>5. Noted(c, new) \in [Handler -> Lookup \cup {None}]
  BY <1>1, <1>2, NotedIsTyped
<1>6. "ABSENT" \notin Status
  BY DEF Status, OpenStatus
<1>7. \A d \in Conversation : d # c => conv'[d] = conv[d]
  BY <1>2, <1>4
<1> QED
  BY <1>1, <1>2, <1>3, <1>4, <1>5, <1>6, <1>7 DEF Exists, new, c

LEMMA ReadThenWriteKeeps ==
  ASSUME TInv, NEW r \in Request, NEW c \in Conversation, NEW dto \in Dto,
         NEW op \in DOMAIN EventOf, op = "assign" => dto.agent \in Agent,
         ReadThenWrite(r, op, c, dto)
  PROVE  TInv'
<1>1. /\ Exists(c) /\ Accept(r, op, "write", c, None, dto)
      /\ lookup' \in [Handler -> Lookup \cup {None}]
  BY DEF ReadThenWrite, TInv, TypeOK, StoreTypeOK
<1>2. op \in Ops
  BY DEF EventOf, Ops
<1> QED
  BY <1>1, <1>2, AcceptKeeps

LEMMA ReadStepKeeps ==
  ASSUME TInv, NEW r \in Request, NEW c \in Conversation,
         \/ \E dto \in UpdateDto : Update(r, c, dto)
         \/ \E a \in Agent : Assign(r, c, a)
         \/ Resolve(r, c) \/ Close(r, c) \/ Reopen(r, c)
  PROVE  TInv'
<1>1. {"update", "assign", "resolve", "close", "reopen"} \subseteq DOMAIN EventOf
  BY DEF EventOf
<1>2. CASE \E dto \in UpdateDto : Update(r, c, dto)
  BY <1>1, <1>2, ReadThenWriteKeeps, BodiesAreTyped DEF Update
<1>3. ASSUME NEW a \in Agent, Assign(r, c, a) PROVE TInv'
  <2> DEFINE dto == [NoDto EXCEPT !.agent = a]
  <2>1. dto \in Dto /\ dto.agent = a
    BY BodiesAreTyped DEF NoDto
  <2>2. ReadThenWrite(r, "assign", c, dto)
    BY <1>3 DEF Assign
  <2> HIDE DEF dto
  <2> QED
    BY <1>1, <2>1, <2>2, ReadThenWriteKeeps
<1>4. CASE Resolve(r, c) \/ Close(r, c) \/ Reopen(r, c)
  BY <1>1, <1>4, ReadThenWriteKeeps, BodiesAreTyped DEF Resolve, Close, Reopen
<1> QED
  BY <1>2, <1>3, <1>4

LEMMA CreateFindKeeps ==
  ASSUME TInv, NEW r \in Request, NEW dto \in CreateDto, CreateFind(r, dto)
  PROVE  TInv'
<1>1. /\ Accept(r, "create", "insert", None, None, dto)
      /\ lookup' = [lookup EXCEPT ![r] = [where |-> CreateWhere(dto), late |-> {}]]
  BY DEF CreateFind, BeginLookup
<1>2. [where |-> CreateWhere(dto), late |-> {}] \in Lookup
  BY WhereIsTyped DEF Lookup
<1>3. lookup' \in [Handler -> Lookup \cup {None}]
  BY <1>1, <1>2 DEF TInv, TypeOK, StoreTypeOK
<1>4. "create" \in Ops
  BY DEF Ops
<1> QED
  BY <1>1, <1>3, <1>4, WhereIsTyped, AcceptKeeps

LEMMA TransferReadKeeps ==
  ASSUME TInv, NEW r \in Request, NEW c \in Conversation, NEW dto \in TransferDto,
         TransferRead(r, c, dto)
  PROVE  TInv'
<1>1. /\ Exists(c) /\ Accept(r, "transfer", "record", c, conv[c].queue, dto)
      /\ lookup' \in [Handler -> Lookup \cup {None}]
  BY DEF TransferRead, TInv, TypeOK, StoreTypeOK
<1>2. "transfer" \in Ops
  BY DEF Ops
<1>3. conv[c].queue \in Queue \cup {None}
  BY DEF TInv, TypeOK, StoreTypeOK, Row
<1> QED
  BY <1>1, <1>2, <1>3, BodiesAreTyped, AcceptKeeps

LEMMA EventIsTyped ==
  ASSUME NEW type \in EventType, NEW c \in Conversation, NEW st \in Status,
         Emit(type, c, st) \/ Silent
  PROVE  emitted' \in Event \cup {None}
BY DEF Emit, Event, Silent

\* Every action keeps the variables typed and the requests in shape.
LEMMA TypeStep == TInv /\ [Next]_vars => TInv'
<1> SUFFICES ASSUME TInv, [Next]_vars PROVE TInv'
  OBVIOUS
<1>1. ASSUME NEW r \in Request, NEW dto \in CreateDto, CreateFind(r, dto) PROVE TInv'
  BY <1>1, CreateFindKeeps
<1>2. ASSUME NEW r \in Request, NEW c \in Conversation,
             \/ \E dto \in UpdateDto : Update(r, c, dto)
             \/ \E a \in Agent : Assign(r, c, a)
             \/ Resolve(r, c) \/ Close(r, c) \/ Reopen(r, c)
      PROVE  TInv'
  BY <1>2, ReadStepKeeps
<1>3. ASSUME NEW r \in Request, NEW c \in Conversation, NEW dto \in TransferDto,
             TransferRead(r, c, dto)
      PROVE  TInv'
  BY <1>3, TransferReadKeeps
<1>4. ASSUME NEW r \in Request, Done(r), emitted' \in Event \cup {None},
             \/ \E c \in Conversation : CommitInsert(r, c)
             \/ CommitRecord(r)
             \/ CommitWrite(r)
      PROVE  TInv'
  <2>1. /\ conv' \in [Conversation -> Row]
        /\ lookup' \in [Handler -> Lookup \cup {None}]
        /\ transfers' \subseteq Transfer
        /\ \A d \in Conversation : Exists(d) => Exists(d)'
    <3>1. CASE CommitRecord(r)
      BY <3>1, CommitRecordTyped DEF TInv, TypeOK, StoreTypeOK, Exists
    <3> QED
      BY <1>4, <3>1, CommitInsertTyped, CommitWriteTyped
  <2> QED
    BY <1>4, <2>1, DoneKeeps DEF TInv, TypeOK, StoreTypeOK, ApiTypeOK
<1>5. ASSUME NEW r \in Request, NEW c \in Conversation, CreateInsert(r, c) PROVE TInv'
  <2>1. emitted' \in Event \cup {None}
    BY <1>5, EventIsTyped DEF CreateInsert, EventType, Status, OpenStatus
  <2> QED
    BY <1>4, <1>5, <2>1 DEF CreateInsert
<1>6. ASSUME NEW r \in Request, TransferRecord(r) PROVE TInv'
  <2>1. /\ CommitRecord(r) /\ req' = [req EXCEPT ![r].at = "write"] /\ emitted' = None
        /\ req[r].at = "record"
    BY <1>6 DEF TransferRecord, Silent, CommitRecord
  <2>2. req \in [Request -> ReqRec] /\ req[r].op = "transfer"
        /\ req[r].conv \in Conversation /\ Exists(req[r].conv)
    BY <2>1 DEF TInv, TypeOK, ApiTypeOK, ReqShape
  <2>3. req' \in [Request -> ReqRec]
    BY <2>1, <2>2 DEF ReqRec
  <2>4. conv' = conv /\ lookup' = lookup /\ transfers' \subseteq Transfer
    BY <2>1, CommitRecordTyped
  <2>5. "transfer" \in DOMAIN EventOf
    BY DEF EventOf
  <2>6. ReqShape'
    <3>1. ASSUME NEW x \in Request
          PROVE  /\ req'[x].op = req[x].op /\ req'[x].conv = req[x].conv
                 /\ req'[x].dto = req[x].dto
                 /\ req'[x].at = (IF x = r THEN "write" ELSE req[x].at)
      BY <2>1, <2>2 DEF ReqRec
    <3> QED
      BY <2>2, <2>4, <2>5, <3>1 DEF ReqShape, TInv, Exists
  <2> QED
    BY <2>1, <2>3, <2>4, <2>6 DEF TInv, TypeOK, StoreTypeOK, ApiTypeOK
<1>7. ASSUME NEW r \in Request, Write(r) PROVE TInv'
  <2>1. CommitWrite(r) /\ Done(r) /\ req[r].op \in DOMAIN EventOf
        /\ req[r].conv \in Conversation
    BY <1>7 DEF Write, CommitWrite, TInv, ReqShape
  <2>2. EventOf[req[r].op] \in EventType
    BY <2>1 DEF EventOf, EventType
  <2>3. Written(req[r], conv[req[r].conv]).status \in Status
    BY <2>1, CommitWriteTyped
  <2>4. Emit(EventOf[req[r].op], req[r].conv, Written(req[r], conv[req[r].conv]).status)
    BY <1>7 DEF Write
  <2>5. emitted' \in Event \cup {None}
    BY <2>1, <2>2, <2>3, <2>4, EventIsTyped
  <2> QED
    BY <1>4, <2>1, <2>5
<1>8. ASSUME NEW r \in Request, LostAnswer(r) PROVE TInv'
  BY <1>4, <1>8 DEF LostAnswer, Silent
<1>9. ASSUME NEW r \in Request, Fail(r) PROVE TInv'
  <2>1. Done(r) /\ conv' = conv /\ transfers' = transfers /\ emitted' = None
        /\ lookup' = [lookup EXCEPT ![r] = None]
    BY <1>9 DEF Fail, Silent
  <2>2. req' \in [Request -> ReqRec] /\ ReqShape'
    BY <2>1, DoneKeeps DEF Exists
  <2> QED
    BY <2>1, <2>2 DEF TInv, TypeOK, StoreTypeOK, ApiTypeOK
<1>10. CASE Crash
  <2>1. /\ req' = [r \in Request |-> Idle] /\ lookup' = [h \in Handler |-> None]
        /\ conv' = conv /\ transfers' = transfers /\ emitted' = None
    BY <1>10 DEF Crash, Silent
  <2>2. TypeOK'
    BY <2>1, IdleIsTyped DEF TInv, TypeOK, StoreTypeOK, ApiTypeOK
  <2>3. ReqShape'
    BY <2>1 DEF ReqShape, Idle
  <2> QED
    BY <2>2, <2>3 DEF TInv
<1>11. CASE UNCHANGED vars
  BY <1>11 DEF vars, TInv, TypeOK, StoreTypeOK, ApiTypeOK, ReqShape, Exists
<1> QED
  BY <1>1, <1>2, <1>3, <1>5, <1>6, <1>7, <1>8, <1>9, <1>10, <1>11 DEF Next, ApiStep

LEMMA TypeInit == Init => TInv
<1> SUFFICES ASSUME Init PROVE TInv
  OBVIOUS
<1>1. Absent \in Row
  BY DEF Absent, Row
<1>2. TypeOK
  BY <1>1, IdleIsTyped DEF Init, StoreInit, ApiInit, TypeOK, StoreTypeOK, ApiTypeOK
<1>3. ReqShape
  BY DEF Init, ApiInit, ReqShape, Idle
<1> QED
  BY <1>2, <1>3 DEF TInv

\* Tables, requests, lookups and events hold what they are declared to hold.
THEOREM TypeCorrect == Spec => []TypeOK
<1>1. TInv => TypeOK
  BY DEF TInv
<1> QED
  BY TypeInit, TypeStep, <1>1, PTL DEF Spec
-----------------------------------------------------------------------------
(* What a step may do to one row                                           *)

\* A row changes by an insert, or by the final query of a request about it.
LEMMA RowChanges ==
  ASSUME TInv, [Next]_vars, NEW c \in Conversation, conv'[c] # conv[c]
  PROVE  \/ /\ conv[c].status = "ABSENT" /\ conv'[c].status = "WAITING"
            /\ conv'[c].waiting
         \/ \E r \in Request :
              /\ req[r].at = "write" /\ req[r].conv = c /\ req' = [req EXCEPT ![r] = Idle]
              /\ conv'[c] = Written(req[r], conv[c])
              /\ transfers' = transfers
<1> DEFINE Ins == /\ conv[c].status = "ABSENT" /\ conv'[c].status = "WAITING"
                  /\ conv'[c].waiting
           Wri(r) == /\ req[r].at = "write" /\ req[r].conv = c
                     /\ req' = [req EXCEPT ![r] = Idle]
                     /\ conv'[c] = Written(req[r], conv[c])
                     /\ transfers' = transfers
<1>1. conv \in [Conversation -> Row]
  BY DEF TInv, TypeOK, StoreTypeOK
<1>2. ASSUME NEW r \in Request, NEW d \in Conversation, CommitInsert(r, d) PROVE Ins
  <2> DEFINE dto == req[r].dto
             new == NewRow(dto.contact, dto.channel, dto.number, dto.queue)
  <2>1. conv' = [conv EXCEPT ![d] = new] /\ conv[d].status = "ABSENT"
    BY <1>2 DEF CommitInsert, Insert, Exists
  <2>2. new.status = "WAITING" /\ new.waiting
    BY DEF NewRow, Absent
  <2> HIDE DEF new
  <2> QED
    BY <1>1, <2>1, <2>2
<1>3. ASSUME NEW r \in Request, CommitWrite(r), Done(r) PROVE Wri(r)
  <2> DEFINE new == Written(req[r], conv[req[r].conv])
  <2>1. conv' = [conv EXCEPT ![req[r].conv] = new] /\ req[r].at = "write"
        /\ req' = [req EXCEPT ![r] = Idle] /\ transfers' = transfers
    BY <1>3 DEF CommitWrite, Save, Done
  <2> HIDE DEF new
  <2>2. req[r].conv = c /\ conv'[c] = new
    BY <1>1, <2>1
  <2> QED
    BY <2>1, <2>2 DEF new
<1> HIDE DEF Ins, Wri
<1>4. CASE Crash \/ UNCHANGED vars
  BY <1>4 DEF Crash, vars
<1>5. ASSUME NEW r \in Request,
             \/ \E dto \in CreateDto : CreateFind(r, dto)
             \/ \E d \in Conversation :
                  \/ CreateInsert(r, d)
                  \/ \E dto \in UpdateDto : Update(r, d, dto)
                  \/ \E a \in Agent : Assign(r, d, a)
                  \/ \E dto \in TransferDto : TransferRead(r, d, dto)
                  \/ Resolve(r, d)
                  \/ Close(r, d)
                  \/ Reopen(r, d)
             \/ TransferRecord(r) \/ Write(r) \/ LostAnswer(r) \/ Fail(r)
      PROVE  Ins \/ \E x \in Request : Wri(x)
  <2>1. CASE \/ \E d \in Conversation : CommitInsert(r, d)
             \/ CommitWrite(r) /\ Done(r)
    BY <1>2, <1>3, <2>1
  <2>2. conv' = conv \/ (\E d \in Conversation : CommitInsert(r, d))
                    \/ (CommitWrite(r) /\ Done(r))
    BY <1>5 DEF CreateFind, CreateInsert, Update, Assign, TransferRead, Resolve, Close,
           Reopen, ReadThenWrite, Accept, TransferRecord, CommitRecord, Write,
           LostAnswer, Fail
  <2> QED
    BY <2>1, <2>2
<1>6. ASSUME ApiStep PROVE Ins \/ \E r \in Request : Wri(r)
  <2>1. PICK r \in Request :
             \/ \E dto \in CreateDto : CreateFind(r, dto)
             \/ \E d \in Conversation :
                  \/ CreateInsert(r, d)
                  \/ \E dto \in UpdateDto : Update(r, d, dto)
                  \/ \E a \in Agent : Assign(r, d, a)
                  \/ \E dto \in TransferDto : TransferRead(r, d, dto)
                  \/ Resolve(r, d)
                  \/ Close(r, d)
                  \/ Reopen(r, d)
             \/ TransferRecord(r) \/ Write(r) \/ LostAnswer(r) \/ Fail(r)
    BY <1>6 DEF ApiStep
  <2> QED
    BY <1>5, <2>1
<1> QED
  BY <1>4, <1>6 DEF Next, Ins, Wri

-----------------------------------------------------------------------------
(* Final statuses carry their stamps                                       *)

Stamped(row) == /\ row.status = "CLOSED" => row.closedAt
                /\ row.status = "RESOLVED" => row.resolvedAt

LEMMA WrittenIsStamped ==
  ASSUME NEW q \in ReqRec, NEW row \in Row, Stamped(row)
  PROVE  Stamped(Written(q, row))
<1> USE DEF Row, Stamped
<1>1. Stamped(Updated(q.dto, row))
  BY DEF Updated
<1>2. Stamped(Assigned(q.dto.agent, row))
  BY DEF Assigned
<1>3. Stamped(Transferred(q.dto, q.queue, row))
  BY DEF Transferred
<1>4. Stamped(Resolved(row)) /\ Stamped(Closed(row)) /\ Stamped(Reopened(row))
  BY DEF Resolved, Closed, Reopened
<1> HIDE DEF Row, Stamped
<1> QED
  BY <1>1, <1>2, <1>3, <1>4 DEF Written

LEMMA StampsStep == TInv /\ StampsMatch /\ [Next]_vars => StampsMatch'
<1> SUFFICES ASSUME TInv, StampsMatch, [Next]_vars, NEW c \in Conversation
             PROVE  Stamped(conv'[c])
  BY DEF StampsMatch, Stamped
<1>1. conv[c] \in Row /\ Stamped(conv[c]) /\ \A r \in Request : req[r] \in ReqRec
  BY DEF TInv, TypeOK, StoreTypeOK, ApiTypeOK, StampsMatch, Stamped
<1>2. CASE conv'[c] = conv[c]
  BY <1>1, <1>2
<1>3. CASE conv'[c].status = "WAITING"
  BY <1>3 DEF Stamped
<1> QED
  BY <1>1, <1>2, <1>3, RowChanges, WrittenIsStamped

\* A CLOSED row has closedAt and a RESOLVED row resolvedAt, for ever.
THEOREM FinalStatusIsStamped == Spec => []StampsMatch
<1>1. Absent.status = "ABSENT"
  BY DEF Absent
<1>2. Init => StampsMatch
  BY <1>1 DEF Init, StoreInit, StampsMatch
<1> QED
  BY TypeInit, TypeStep, StampsStep, <1>2, PTL DEF Spec
-----------------------------------------------------------------------------
(* Who waits without a clock was transferred                               *)

Recorded(c) == \E t \in transfers : t.conv = c /\ t.toAgent = None

\* A transfer to a queue that is about to write its row has left its record.
RecordFirst ==
  \A r \in Request :
    req[r].at = "write" /\ req[r].op = "transfer" /\ req[r].dto.agent = None
      => Recorded(req[r].conv)

ClockInv == TInv /\ RecordFirst /\ UnclockedWaitIsTransferred

\* Records are never deleted, and only one step puts a transfer before its write.
LEMMA RecordsStay ==
  ASSUME TInv, [Next]_vars
  PROVE  /\ transfers \subseteq transfers'
         /\ \A r \in Request :
              \/ TransferRecord(r)
              \/ req'[r] = req[r]
              \/ req'[r].at # "write" \/ req'[r].op # "transfer"
<1>1. req \in [Request -> ReqRec] /\ Idle.at = "idle"
  BY DEF TInv, TypeOK, ApiTypeOK, Idle
<1>2. CASE Crash \/ UNCHANGED vars
  BY <1>1, <1>2 DEF Crash, vars
<1> DEFINE Quiet == /\ transfers' = transfers
                    /\ \A r \in Request :
                         \/ req'[r] = req[r]
                         \/ req'[r].at # "write" \/ req'[r].op # "transfer"
<1>3. ASSUME NEW x \in Request, NEW op, NEW at, NEW c, NEW q, NEW dto,
             Accept(x, op, at, c, q, dto), at # "write" \/ op # "transfer"
      PROVE  Quiet
  BY <1>1, <1>3 DEF Accept
<1>4. ASSUME NEW x \in Request,
             CommitRecord(x) \/ transfers' = transfers, Done(x)
      PROVE  /\ transfers \subseteq transfers'
             /\ \A r \in Request : req'[r] = req[r] \/ req'[r].at # "write"
  BY <1>1, <1>4 DEF CommitRecord, Done
<1>5. ASSUME NEW x \in Request, TransferRecord(x)
      PROVE  /\ transfers \subseteq transfers'
             /\ \A r \in Request : req'[r] = req[r] \/ r = x
  BY <1>1, <1>5 DEF TransferRecord, CommitRecord
<1>6. ASSUME NEW x \in Request, NEW c \in Conversation,
             \/ \E dto \in UpdateDto : Update(x, c, dto)
             \/ \E a \in Agent : Assign(x, c, a)
             \/ \E dto \in TransferDto : TransferRead(x, c, dto)
             \/ Resolve(x, c) \/ Close(x, c) \/ Reopen(x, c)
      PROVE  Quiet
  <2> HIDE DEF Quiet
  <2>1. ASSUME NEW dto, Update(x, c, dto) PROVE Quiet
    BY <1>3, <2>1 DEF Update, ReadThenWrite
  <2>2. ASSUME NEW a, Assign(x, c, a) PROVE Quiet
    BY <1>3, <2>2 DEF Assign, ReadThenWrite
  <2>3. ASSUME NEW dto, TransferRead(x, c, dto) PROVE Quiet
    BY <1>3, <2>3 DEF TransferRead
  <2>4. CASE Resolve(x, c) \/ Close(x, c) \/ Reopen(x, c)
    BY <1>3, <2>4 DEF Resolve, Close, Reopen, ReadThenWrite
  <2> QED
    BY <1>6, <2>1, <2>2, <2>3, <2>4
<1>7. ASSUME NEW x \in Request,
             \/ \E c \in Conversation : CreateInsert(x, c)
             \/ Write(x) \/ LostAnswer(x) \/ Fail(x)
      PROVE  (CommitRecord(x) \/ transfers' = transfers) /\ Done(x)
  BY <1>7 DEF CreateInsert, CommitInsert, Write, CommitWrite, LostAnswer, Fail
<1>8. ASSUME NEW x \in Request, NEW dto \in CreateDto, CreateFind(x, dto)
      PROVE  Quiet
  BY <1>3, <1>8 DEF CreateFind
<1> QED
  BY <1>2, <1>3, <1>4, <1>5, <1>6, <1>7, <1>8 DEF Next, ApiStep
\* Only a transfer leaves a row waiting with the clock it found.
LEMMA WrittenWaits ==
  ASSUME NEW q \in ReqRec, NEW row \in Row, q.op \in DOMAIN EventOf,
         Written(q, row).status = "WAITING", ~ Written(q, row).waiting
  PROVE  \/ q.op = "transfer" /\ q.dto.agent = None
         \/ row.status = "WAITING" /\ ~ row.waiting
<1> USE DEF Row
<1>1. CASE q.op = "transfer"
  <2>1. q.dto.agent # None => Transferred(q.dto, q.queue, row).status = "IN_PROGRESS"
    BY DEF Transferred
  <2> QED
    BY <1>1, <2>1 DEF Written
<1>2. CASE q.op = "update"
  <2>1. /\ Updated(q.dto, row).status = row.status
        /\ Updated(q.dto, row).waiting = row.waiting
    BY DEF Updated
  <2> QED
    BY <1>2, <2>1 DEF Written
<1>3. CASE q.op \in {"assign", "resolve", "close", "reopen"}
  <2>1. /\ Assigned(q.dto.agent, row).status = "IN_PROGRESS"
        /\ Resolved(row).status = "RESOLVED" /\ Closed(row).status = "CLOSED"
        /\ Reopened(row).status = "IN_PROGRESS"
    BY DEF Assigned, Resolved, Closed, Reopened
  <2> QED
    BY <1>3, <2>1 DEF Written
<1> QED
  BY <1>1, <1>2, <1>3 DEF EventOf

LEMMA ClockStep == ClockInv /\ [Next]_vars => ClockInv'
<1> SUFFICES ASSUME ClockInv, [Next]_vars PROVE ClockInv'
  OBVIOUS
<1>1. TInv /\ TInv' /\ RecordFirst /\ UnclockedWaitIsTransferred
  BY TypeStep DEF ClockInv
<1>2. \A c \in Conversation : Recorded(c) => Recorded(c)'
  BY <1>1, RecordsStay DEF Recorded
<1>3. RecordFirst'
  <2> SUFFICES ASSUME NEW r \in Request, req'[r].at = "write", req'[r].op = "transfer",
                      req'[r].dto.agent = None
               PROVE  Recorded(req[r].conv)' /\ req'[r].conv = req[r].conv
    BY DEF RecordFirst, Recorded
  <2>1. CASE req'[r] = req[r]
    <3>1. req[r].conv \in Conversation /\ Recorded(req[r].conv)
      BY <1>1, <2>1 DEF TInv, ReqShape, RecordFirst
    <3> QED
      BY <1>2, <2>1, <3>1 DEF Recorded
  <2>2. CASE TransferRecord(r)
    <3>1. req \in [Request -> ReqRec] /\ req' = [req EXCEPT ![r].at = "write"]
      BY <1>1, <2>2 DEF TransferRecord, TInv, TypeOK, ApiTypeOK
    <3>2. req'[r].conv = req[r].conv /\ req'[r].dto = req[r].dto
      BY <3>1 DEF ReqRec
    <3>3. \E t \in transfers' : t.conv = req[r].conv /\ t.toAgent = req[r].dto.agent
      <4> DEFINE t == [conv |-> req[r].conv, fromQueue |-> req[r].queue,
                       toQueue |-> req[r].dto.queue, toAgent |-> req[r].dto.agent]
      <4>1. t.conv = req[r].conv /\ t.toAgent = req[r].dto.agent
        OBVIOUS
      <4>2. transfers' = transfers \cup {t}
        BY <2>2 DEF TransferRecord, CommitRecord
      <4> HIDE DEF t
      <4> QED
        BY <4>1, <4>2
    <3> QED
      BY <3>2, <3>3 DEF Recorded
  <2> QED
    BY <1>1, <2>1, <2>2, RecordsStay
<1>4. UnclockedWaitIsTransferred'
  <2> SUFFICES ASSUME NEW c \in Conversation, conv'[c].status = "WAITING", ~ conv'[c].waiting
               PROVE  Recorded(c)'
    BY DEF UnclockedWaitIsTransferred, Recorded
  <2>1. CASE conv'[c] = conv[c]
    BY <1>1, <1>2, <2>1 DEF UnclockedWaitIsTransferred, Recorded
  <2>2. ASSUME NEW r \in Request, req[r].at = "write", req[r].conv = c,
               conv'[c] = Written(req[r], conv[c])
        PROVE  Recorded(c)'
    <3>1. req[r] \in ReqRec /\ conv[c] \in Row /\ req[r].op \in DOMAIN EventOf
      BY <1>1, <2>2 DEF TInv, TypeOK, StoreTypeOK, ApiTypeOK, ReqShape
    <3>2. \/ req[r].op = "transfer" /\ req[r].dto.agent = None
          \/ conv[c].status = "WAITING" /\ ~ conv[c].waiting
      BY <2>2, <3>1, WrittenWaits
    <3>3. Recorded(c)
      BY <1>1, <2>2, <3>2 DEF RecordFirst, UnclockedWaitIsTransferred, Recorded
    <3> QED
      BY <1>2, <3>3
  <2> QED
    BY <1>1, <2>1, <2>2, RowChanges
<1> QED
  BY <1>1, <1>3, <1>4 DEF ClockInv

\* A row that waits without waitingSince was put there by a recorded transfer.
THEOREM UnclockedWaitsAreTransferred == Spec => []UnclockedWaitIsTransferred
<1>1. Init => ClockInv
  BY TypeInit DEF Init, ApiInit, StoreInit, ClockInv, RecordFirst, Idle,
     UnclockedWaitIsTransferred, Absent
<1>2. ClockInv => UnclockedWaitIsTransferred
  BY DEF ClockInv
<1> QED
  BY <1>1, ClockStep, <1>2, PTL DEF Spec
-----------------------------------------------------------------------------
(* Only reopen() leaves a conversation unattended                          *)

LEMMA WrittenAttended ==
  ASSUME NEW q \in ReqRec, NEW row \in Row, q.op \in DOMAIN EventOf \ {"reopen"},
         q.op = "assign" => q.dto.agent \in Agent,
         Written(q, row).status = "IN_PROGRESS", Written(q, row).agent = None
  PROVE  row.status = "IN_PROGRESS" /\ row.agent = None
<1> USE DEF Row
<1>1. CASE q.op = "transfer"
  <2>1. /\ Transferred(q.dto, q.queue, row).agent = q.dto.agent
        /\ q.dto.agent = None => Transferred(q.dto, q.queue, row).status = "WAITING"
    BY DEF Transferred
  <2> QED
    BY <1>1, <2>1 DEF Written
<1>2. CASE q.op = "update"
  <2>1. /\ Updated(q.dto, row).status = row.status
        /\ Updated(q.dto, row).agent = row.agent
    BY DEF Updated
  <2> QED
    BY <1>2, <2>1 DEF Written
<1>3. CASE q.op = "assign"
  <2>1. Assigned(q.dto.agent, row).agent = q.dto.agent
    BY DEF Assigned
  <2> QED
    BY <1>3, <2>1, NoneAssumption DEF Written
<1>4. CASE q.op \in {"resolve", "close"}
  <2>1. Resolved(row).status = "RESOLVED" /\ Closed(row).status = "CLOSED"
    BY DEF Resolved, Closed
  <2> QED
    BY <1>4, <2>1 DEF Written
<1> QED
  BY <1>1, <1>2, <1>3, <1>4 DEF EventOf

LEMMA AttendedStep ==
  ASSUME TInv, [Next]_vars, NEW c \in Conversation, ~ Unattended(c), Unattended(c)'
  PROVE  \E r \in Request : req[r].op = "reopen" /\ req[r].conv = c /\ req'[r] = Idle
<1>1. conv'[c].status = "IN_PROGRESS" /\ conv'[c].agent = None /\ conv'[c] # conv[c]
  BY DEF Unattended
<1>2. PICK r \in Request :
        /\ req[r].at = "write" /\ req[r].conv = c /\ req' = [req EXCEPT ![r] = Idle]
        /\ conv'[c] = Written(req[r], conv[c])
  BY <1>1, RowChanges
<1>3. /\ req \in [Request -> ReqRec] /\ req[r] \in ReqRec /\ conv[c] \in Row
      /\ req[r].op \in DOMAIN EventOf
      /\ req[r].op = "assign" => req[r].dto.agent \in Agent
  BY <1>2 DEF TInv, TypeOK, StoreTypeOK, ApiTypeOK, ReqShape
<1>4. req[r].op = "reopen"
  BY <1>1, <1>2, <1>3, WrittenAttended DEF Unattended
<1> QED
  BY <1>2, <1>3, <1>4

\* No other operation puts a conversation in progress without an agent.
THEOREM OnlyReopenUnattends == Spec => OnlyReopenLeavesUnattended
<1>1. TInv /\ [Next]_vars =>
        [\A c \in Conversation :
           ~ Unattended(c) /\ Unattended(c)'
             => \E r \in Request : /\ req[r].op = "reopen" /\ req[r].conv = c
                                   /\ req'[r] = Idle]_vars
  BY AttendedStep
<1> QED
  BY TypeInit, TypeStep, <1>1, PTL DEF Spec, OnlyReopenLeavesUnattended

-----------------------------------------------------------------------------
(* A find goes stale only by what happens after it                         *)

StaleInv == TInv /\ StaleOnlyByOverlap

Covered(h) == lookup[h] # None => Found(lookup[h].where) \subseteq lookup[h].late

\* Noting a write covers the row that it makes a lookup's clause select.
LEMMA NotedCovers ==
  ASSUME TInv, StaleOnlyByOverlap, NEW c \in Conversation, NEW row \in Row,
         conv' = [conv EXCEPT ![c] = row],
         NEW h \in Handler, lookup[h] # None, lookup'[h] = Noted(c, row)[h]
  PROVE  Covered(h)'
<1>1. lookup[h] \in Lookup /\ conv \in [Conversation -> Row]
  BY DEF TInv, TypeOK, StoreTypeOK
<1>2. Found(lookup[h].where) \subseteq lookup[h].late
  BY DEF StaleOnlyByOverlap
<1>3. CASE Selects(lookup[h].where, row) /\ ~ Selects(lookup[h].where, conv[c])
  <2>1. lookup'[h] = [lookup[h] EXCEPT !.late = @ \cup {c}]
    BY <1>3 DEF Noted
  <2>2. lookup'[h].where = lookup[h].where /\ lookup'[h].late = lookup[h].late \cup {c}
    BY <1>1, <2>1 DEF Lookup
  <2> QED
    BY <1>1, <1>2, <2>2 DEF Found, Covered
<1>4. CASE ~ (Selects(lookup[h].where, row) /\ ~ Selects(lookup[h].where, conv[c]))
  <2>1. lookup'[h] = lookup[h]
    BY <1>4 DEF Noted
  <2> QED
    BY <1>1, <1>2, <1>4, <2>1 DEF Found, Covered
<1> QED
  BY <1>3, <1>4

LEMMA StaleStep == StaleInv /\ [Next]_vars => StaleInv'
<1> SUFFICES ASSUME StaleInv, [Next]_vars PROVE StaleInv'
  OBVIOUS
<1>1. TInv /\ TInv' /\ StaleOnlyByOverlap
  BY TypeStep DEF StaleInv
<1> SUFFICES ASSUME NEW h \in Handler PROVE Covered(h)'
  BY <1>1 DEF StaleInv, StaleOnlyByOverlap, Covered
<1>2. lookup \in [Handler -> Lookup \cup {None}] /\ conv' \in [Conversation -> Row]
  BY <1>1 DEF TInv, TypeOK, StoreTypeOK
<1>3. ASSUME NEW c \in Conversation, NEW row, conv' = [conv EXCEPT ![c] = row],
             lookup'[h] \in {None, Noted(c, row)[h]}
      PROVE  Covered(h)'
  <2>1. row \in Row
    <3>1. conv \in [Conversation -> Row]
      BY <1>1 DEF TInv, TypeOK, StoreTypeOK
    <3>2. conv'[c] = row
      BY <1>3, <3>1
    <3> QED
      BY <1>2, <3>2
  <2>2. lookup[h] = None => lookup'[h] = None
    BY <1>3 DEF Noted
  <2> QED
    BY <1>1, <1>3, <2>1, <2>2, NotedCovers DEF Covered
<1>4. ASSUME conv' = conv, lookup'[h] = lookup[h]
      PROVE  Covered(h)'
  BY <1>1, <1>4 DEF StaleOnlyByOverlap, Covered, Found
<1>5. ASSUME NEW r \in Request, NEW dto \in CreateDto, CreateFind(r, dto)
      PROVE  Covered(h)'
  <2>1. /\ conv' = conv /\ Found(CreateWhere(dto)) = {}
        /\ lookup' = [lookup EXCEPT ![r] = [where |-> CreateWhere(dto), late |-> {}]]
    BY <1>5 DEF CreateFind, BeginLookup, Accept
  <2>2. CASE h = r
    BY <1>2, <2>1, <2>2 DEF Found, Covered, Selects
  <2>3. CASE h # r
    BY <1>2, <1>4, <2>1, <2>3
  <2> QED
    BY <2>2, <2>3
<1>6. ASSUME NEW r \in Request, Fail(r)
      PROVE  Covered(h)'
  BY <1>2, <1>4, <1>6 DEF Fail, Covered
<1>7. CASE Crash \/ UNCHANGED vars
  BY <1>4, <1>7 DEF Crash, vars, Covered
<1>8. ASSUME NEW r \in Request, NEW c \in Conversation, CommitInsert(r, c)
      PROVE  Covered(h)'
  <2> DEFINE dto == req[r].dto
             new == NewRow(dto.contact, dto.channel, dto.number, dto.queue)
  <2>1. conv' = [conv EXCEPT ![c] = new] /\ lookup' = [Noted(c, new) EXCEPT ![r] = None]
    BY <1>8 DEF CommitInsert, Insert
  <2>2. DOMAIN Noted(c, new) = Handler
    BY DEF Noted
  <2> HIDE DEF new
  <2>3. lookup'[h] \in {None, Noted(c, new)[h]}
    BY <2>1, <2>2
  <2> QED
    BY <1>3, <2>1, <2>3
<1>9. ASSUME NEW r \in Request, CommitWrite(r)
      PROVE  Covered(h)'
  <2>1. req[r].conv \in Conversation
    BY <1>1, <1>9 DEF CommitWrite, TInv, ReqShape
  <2> QED
    BY <1>3, <1>9, <2>1 DEF CommitWrite, Save
<1>10. ASSUME NEW r \in Request, NEW c \in Conversation,
              \/ \E dto \in UpdateDto : Update(r, c, dto)
              \/ \E a \in Agent : Assign(r, c, a)
              \/ \E dto \in TransferDto : TransferRead(r, c, dto)
              \/ Resolve(r, c) \/ Close(r, c) \/ Reopen(r, c)
       PROVE  Covered(h)'
  BY <1>4, <1>10 DEF Update, Assign, TransferRead, Resolve, Close, Reopen,
     ReadThenWrite, Accept
<1>11. ASSUME NEW r \in Request,
              \/ \E c \in Conversation : CreateInsert(r, c)
              \/ TransferRecord(r) \/ Write(r) \/ LostAnswer(r)
       PROVE  Covered(h)'
  <2>1. \/ \E c \in Conversation : CommitInsert(r, c)
        \/ CommitRecord(r) \/ CommitWrite(r)
    BY <1>11 DEF CreateInsert, TransferRecord, Write, LostAnswer
  <2>2. CASE CommitRecord(r)
    BY <1>4, <2>2 DEF CommitRecord
  <2> QED
    BY <1>8, <1>9, <2>1, <2>2
<1> QED
  BY <1>5, <1>6, <1>7, <1>10, <1>11 DEF Next, ApiStep

\* What a find missed was created, reopened or re-addressed after it.
THEOREM FindsMissOnlyWhatCameLater == Spec => []StaleOnlyByOverlap
<1>1. Init => StaleInv
  BY TypeInit DEF Init, StoreInit, StaleInv, StaleOnlyByOverlap
<1>2. StaleInv => StaleOnlyByOverlap
  BY DEF StaleInv
<1> QED
  BY <1>1, StaleStep, <1>2, PTL DEF Spec

-----------------------------------------------------------------------------
(***************************************************************************)
(* The service desk: what requests keep, webhooks and automations keep.    *)
(***************************************************************************)

\* What is known of the tables and the requests.
CoreInv ==
  /\ TInv
  /\ StampsMatch
  /\ RecordFirst /\ UnclockedWaitIsTransferred
  /\ StaleOnlyByOverlap

\* The row of the messages table that delivery x is about.
CopyIn(x) == [msg |-> Batch[x.hook][x.next], hook |-> x.hook, try |-> x.try, conv |-> x.conv]

\* A delivery under way is about a message of its body; from its lookup or insert on it
\* holds a conversation, which was open then; it announces what it has stored.
DeliveryFits(x, rows) ==
  /\ x.at # "idle" => /\ x.hook \in Webhook
                      /\ x.try \in 1..MaxTries
                      /\ x.next \in DOMAIN Batch[x.hook]
  /\ x.at \in {"store", "touch"} => x.conv \in Conversation
  /\ x.at = "touch" => CopyIn(x) \in rows
  /\ x.status # "CLOSED"

InboxInv == Inbox!InboxTypeOK /\ \A d \in Delivery : DeliveryFits(dlv[d], stored)

\* A run has something to do.  One whose event showed a closed conversation was caused
\* by its closing, and has loaded and will load no other automations.
RunFits(r) ==
  /\ r.at # "idle" => r.conv \in Conversation
  /\ r.at = "load" => r.phases # <<>>
  /\ r.at \in {"act", "count"} => r.todo # <<>>
  /\ r.at = "act" => r.act \in DOMAIN Actions[Head(r.todo)]
  /\ r.at # "idle" /\ r.status = "CLOSED" =>
       /\ \A i \in DOMAIN r.phases : r.phases[i] = "CONVERSATION_CLOSED"
       /\ \A i \in DOMAIN r.todo : Trigger[r.todo[i]] = "CONVERSATION_CLOSED"

AutoInv == AutoTypeOK /\ \A u \in Run : RunFits(run[u])

DeskInv == CoreInv /\ InboxInv /\ AutoInv

\* The table as WhatsappInbox sees it is the table.
LEMMA InboxSeesTheStore ==
  /\ Inbox!Status = Status /\ Inbox!OpenStatus = OpenStatus
  /\ \A w : Inbox!Found(w) = Found(w)
  /\ \A c, row : Inbox!Noted(c, row) = Noted(c, row)
  /\ \A k, l, n, q : Inbox!NewRow(k, l, n, q) = NewRow(k, l, n, q)
  /\ \A c : Inbox!Exists(c) <=> Exists(c)
BY DEF Inbox!Status, Inbox!OpenStatus, Inbox!Found, Inbox!Selects, Inbox!Noted, Inbox!NewRow,
       Inbox!Absent, Inbox!Exists, Status, OpenStatus, Found, Selects, Noted, NewRow, Absent,
       Exists

\* A step that writes no row, and begins no lookup but one that finds nothing.
LEMMA QuietKeeps ==
  ASSUME CoreInv, UNCHANGED <<conv, req, transfers>>, emitted' \in Event \cup {None},
         lookup' \in [Handler -> Lookup \cup {None}],
         \A h \in Handler : lookup'[h] \in {None, lookup[h]} \/ Found(lookup'[h].where) = {}
  PROVE  CoreInv'
<1>1. TInv'
  BY DEF CoreInv, TInv, TypeOK, StoreTypeOK, ApiTypeOK, ReqShape, Exists
<1>2. StampsMatch' /\ RecordFirst' /\ UnclockedWaitIsTransferred'
  BY DEF CoreInv, StampsMatch, RecordFirst, Recorded, UnclockedWaitIsTransferred
<1>3. StaleOnlyByOverlap'
  BY DEF CoreInv, StaleOnlyByOverlap, Found
<1> QED
  BY <1>1, <1>2, <1>3 DEF CoreInv

\* A webhook or an automation writes a row.
LEMMA OtherWriteKeeps ==
  ASSUME CoreInv, UNCHANGED <<req, transfers>>, emitted' \in Event \cup {None},
         NEW c \in Conversation, NEW row \in Row, conv' = [conv EXCEPT ![c] = row],
         Stamped(row), row.status = "ABSENT" => row = conv[c],
         row.status = "WAITING" /\ ~ row.waiting => row = conv[c],
         lookup' \in [Handler -> Lookup \cup {None}],
         \A h \in Handler : lookup'[h] \in {None, Noted(c, row)[h]}
  PROVE  CoreInv'
<1>1. /\ conv \in [Conversation -> Row] /\ conv'[c] = row
      /\ \A d \in Conversation : d # c => conv'[d] = conv[d]
  BY DEF CoreInv, TInv, TypeOK, StoreTypeOK
<1>2. \A d \in Conversation : Exists(d) => Exists(d)'
  BY <1>1 DEF Exists
<1>3. TInv'
  <2>1. TypeOK'
    BY <1>1 DEF CoreInv, TInv, TypeOK, StoreTypeOK, ApiTypeOK
  <2>2. ReqShape'
    BY <1>2 DEF CoreInv, TInv, ReqShape
  <2> QED
    BY <2>1, <2>2 DEF TInv
<1>4. StampsMatch'
  BY <1>1 DEF CoreInv, StampsMatch, Stamped
<1>5. RecordFirst' /\ UnclockedWaitIsTransferred'
  BY <1>1 DEF CoreInv, RecordFirst, Recorded, UnclockedWaitIsTransferred
<1>6. StaleOnlyByOverlap'
  <2> SUFFICES ASSUME NEW h \in Handler PROVE Covered(h)'
    BY DEF StaleOnlyByOverlap, Covered
  <2>1. CASE lookup'[h] = None
    BY <2>1 DEF Covered
  <2>2. CASE lookup'[h] # None
    <3>1. lookup'[h] = Noted(c, row)[h]
      BY <2>2
    <3>2. lookup[h] # None
      BY <2>2, <3>1 DEF Noted
    <3> QED
      BY <3>1, <3>2, NotedCovers DEF CoreInv
  <2> QED
    BY <2>1, <2>2
<1> QED
  BY <1>3, <1>4, <1>5, <1>6 DEF CoreInv

-----------------------------------------------------------------------------
(* Automations.                                                            *)

\* What an action makes of a row: typed, stamped, and if it waits or is attended, then
\* with its clock or its agent.
LEMMA ActedIsRow ==
  ASSUME NEW a \in Action, NEW row \in Row
  PROVE  /\ Acted(a, row) \in Row
         /\ Stamped(row) => Stamped(Acted(a, row))
         /\ Acted(a, row).status = "ABSENT" => Acted(a, row) = row
         /\ Acted(a, row).status = "WAITING" /\ ~ Acted(a, row).waiting => Acted(a, row) = row
         /\ Acted(a, row).status = "IN_PROGRESS" /\ Acted(a, row).agent = None
              => Acted(a, row) = row
<1> USE DEF Row, Status, OpenStatus
<1>1. /\ a.type \in {"ASSIGN_QUEUE", "ASSIGN_AGENT", "CLOSE_CONVERSATION", "SIDE_EFFECT"}
      /\ a.type = "ASSIGN_QUEUE" => a.to \in Queue
      /\ a.type = "ASSIGN_AGENT" => a.to \in Agent
  BY DEF Action
<1>2. CASE a.type = "ASSIGN_QUEUE"
  <2>1. /\ QueueGiven(a.to, row) \in Row /\ QueueGiven(a.to, row).status = "WAITING"
        /\ QueueGiven(a.to, row).waiting
    BY <1>1, <1>2 DEF QueueGiven
  <2>2. Acted(a, row) = QueueGiven(a.to, row)
    BY <1>2 DEF Acted
  <2> HIDE DEF Row
  <2> QED
    BY <2>1, <2>2 DEF Stamped
<1>3. CASE a.type = "ASSIGN_AGENT"
  <2>1. /\ AgentGiven(a.to, row) \in Row /\ AgentGiven(a.to, row).status = "IN_PROGRESS"
        /\ AgentGiven(a.to, row).agent # None
    BY <1>1, <1>3, NoneAssumption DEF AgentGiven
  <2>2. Acted(a, row) = AgentGiven(a.to, row)
    BY <1>3 DEF Acted
  <2> HIDE DEF Row
  <2> QED
    BY <2>1, <2>2 DEF Stamped
<1>4. CASE a.type = "CLOSE_CONVERSATION"
  <2>1. /\ AutoClosed(row) \in Row /\ AutoClosed(row).status = "CLOSED"
        /\ AutoClosed(row).closedAt
    BY DEF AutoClosed
  <2>2. Acted(a, row) = AutoClosed(row)
    BY <1>4 DEF Acted
  <2> HIDE DEF Row
  <2> QED
    BY <2>1, <2>2 DEF Stamped
<1>5. CASE a.type = "SIDE_EFFECT"
  BY <1>5 DEF Acted
<1> HIDE DEF Row
<1> QED
  BY <1>1, <1>2, <1>3, <1>4, <1>5

LEMMA RestFits == Rest \in RunRec /\ RunFits(Rest) /\ Rest.at = "idle"
<1>1. Rest \in RunRec
  BY DEF Rest, RunRec, Status, OpenStatus
<1> QED
  BY <1>1 DEF Rest, RunFits

\* A run that goes over to a list of automations, or to the rest of its own.
LEMMA NextAutomationFits ==
  ASSUME NEW r \in RunRec, NEW todo \in Seq(Automation), r.conv \in Conversation,
         r.status = "CLOSED" =>
           /\ \A i \in DOMAIN r.phases : r.phases[i] = "CONVERSATION_CLOSED"
           /\ \A i \in DOMAIN todo : Trigger[todo[i]] = "CONVERSATION_CLOSED"
  PROVE  AtAutomation(r, todo) \in RunRec /\ RunFits(AtAutomation(r, todo))
<1> DEFINE acts == Actions[Head(todo)]
           goes == [r EXCEPT !.todo = todo, !.act = 1,
                             !.at = IF acts = <<>> THEN "count" ELSE "act"]
           loads == [r EXCEPT !.at = "load", !.todo = <<>>, !.act = 0]
<1>1. CASE todo # <<>>
  <2>1. Head(todo) \in Automation /\ acts \in Seq(Action)
    BY <1>1, AutomationsAssumption
  <2>2. goes \in RunRec
    BY DEF RunRec
  <2>3. /\ goes.at = (IF acts = <<>> THEN "count" ELSE "act") /\ goes.todo = todo
        /\ goes.act = 1 /\ goes.conv = r.conv /\ goes.status = r.status
        /\ goes.phases = r.phases
    BY DEF RunRec
  <2>4. acts # <<>> => 1 \in DOMAIN acts
    BY <2>1
  <2> HIDE DEF goes
  <2>5. RunFits(goes)
    <3> HIDE DEF acts
    <3>1. goes.at \in {"count", "act"} /\ (goes.at = "act" => acts # <<>>)
      BY <2>3
    <3> QED
      BY <1>1, <2>3, <2>4, <3>1 DEF RunFits, acts
  <2>6. AtAutomation(r, todo) = goes
    BY <1>1 DEF AtAutomation, goes
  <2> QED
    BY <2>2, <2>5, <2>6
<1>2. CASE todo = <<>> /\ Len(r.phases) > 0
  <2>1. loads \in RunRec
    <3>1. <<>> \in Seq(Automation)
      OBVIOUS
    <3> QED
      BY <3>1 DEF RunRec
  <2>2. /\ loads.at = "load" /\ loads.todo = <<>> /\ loads.conv = r.conv
        /\ loads.status = r.status /\ loads.phases = r.phases
    BY DEF RunRec
  <2>3. r.phases # <<>>
    BY <1>2
  <2> HIDE DEF loads
  <2>4. RunFits(loads)
    BY <2>2, <2>3 DEF RunFits
  <2>5. AtAutomation(r, todo) = loads
    BY <1>2 DEF AtAutomation, loads
  <2> QED
    BY <2>1, <2>4, <2>5
<1>3. CASE todo = <<>> /\ ~ Len(r.phases) > 0
  <2>1. AtAutomation(r, todo) = Rest
    BY <1>3 DEF AtAutomation
  <2> QED
    BY <2>1, RestFits
<1> QED
  BY <1>1, <1>2, <1>3

LEMMA LoadedIsTyped ==
  ASSUME NEW t, NEW st, active \subseteq Automation, NEW todo \in Loaded(t, st)
  PROVE  /\ todo \in Seq(Automation)
         /\ \A i \in DOMAIN todo : Trigger[todo[i]] = t
<1> DEFINE S == {x \in active : Trigger[x] = t /\ Condition[x] \in {None, st}}
<1>1. todo \in Selections(S)
  BY DEF Loaded, Sorted
<1>2. PICK n \in 0..Len(Created) : todo \in [1..n -> S]
  BY <1>1 DEF Selections
<1>3. n \in Nat
  BY AutomationsAssumption
<1>4. todo \in [1..n -> Automation] /\ DOMAIN todo = 1..n
  BY <1>2
<1>5. todo \in Seq(Automation)
  BY <1>3, <1>4, SeqDef
<1> QED
  BY <1>2, <1>4, <1>5

\* A run goes on or ends.
LEMMA RunGoesOn ==
  ASSUME AutoInv, NEW u \in Run, NEW r \in RunRec, RunFits(r),
         run' = [run EXCEPT ![u] = r], UNCHANGED active
  PROVE  AutoInv'
<1>1. run \in [Run -> RunRec] /\ \A v \in Run : RunFits(run[v])
  BY DEF AutoInv, AutoTypeOK
<1>2. run' \in [Run -> RunRec] /\ \A v \in Run : run'[v] = r \/ run'[v] = run[v]
  BY <1>1
<1> QED
  BY <1>1, <1>2 DEF AutoInv, AutoTypeOK

\* A closing starts the automations of closing, and only a closing does.
LEMMA PhasesFit ==
  ASSUME NEW type, Phases(type) # <<>>
  PROVE  /\ Phases(type) \in Seq(TriggerType)
         /\ type \notin {"message.received", "conversation.created"} =>
              \A i \in DOMAIN Phases(type) : Phases(type)[i] = "CONVERSATION_CLOSED"
<1>1. {"MESSAGE_RECEIVED", "KEYWORD_MATCH", "CONVERSATION_OPENED", "CONVERSATION_CLOSED"}
        \subseteq TriggerType
  BY DEF TriggerType
<1>2. CASE type = "message.received"
  <2>1. <<"MESSAGE_RECEIVED", "KEYWORD_MATCH">> \in Seq(TriggerType)
    BY <1>1
  <2>2. Phases(type) = <<"MESSAGE_RECEIVED", "KEYWORD_MATCH">>
    BY <1>2 DEF Phases
  <2> QED
    BY <1>2, <2>1, <2>2
<1>3. CASE type = "conversation.created"
  <2>1. <<"CONVERSATION_OPENED">> \in Seq(TriggerType)
    BY <1>1
  <2>2. Phases(type) = <<"CONVERSATION_OPENED">>
    BY <1>3 DEF Phases
  <2> QED
    BY <1>3, <2>1, <2>2
<1>4. CASE type = "conversation.closed"
  <2>1. <<"CONVERSATION_CLOSED">> \in Seq(TriggerType)
    BY <1>1
  <2>2. Phases(type) = <<"CONVERSATION_CLOSED">>
    BY <1>4 DEF Phases
  <2>3. \A i \in DOMAIN <<"CONVERSATION_CLOSED">> : <<"CONVERSATION_CLOSED">>[i] = "CONVERSATION_CLOSED"
    OBVIOUS
  <2> QED
    BY <2>1, <2>2, <2>3
<1> QED
  BY <1>2, <1>3, <1>4 DEF Phases

\* The listener of an event begins a run that fits it.
LEMMA ListenKeeps ==
  ASSUME AutoInv, UNCHANGED active, NEW e \in Event \cup {None}, Listen(e),
         e # None /\ e.status = "CLOSED" =>
           e.type \notin {"message.received", "conversation.created"}
  PROVE  AutoInv'
<1>1. CASE ~ Listened(e)
  BY <1>1 DEF Listen, AutoInv, AutoTypeOK
<1>2. CASE Listened(e)
  <2> DEFINE p == Phases(e.type)
             r == [Rest EXCEPT !.at = "load", !.conv = e.conv, !.status = e.status,
                               !.phases = p]
  <2>1. PICK u \in Run : run' = [run EXCEPT ![u] = r]
    BY <1>2 DEF Listen
  <2>2. /\ e # None /\ e.conv \in Conversation /\ e.status \in Status /\ p # <<>>
    BY <1>2 DEF Listened, Event
  <2>3. /\ p \in Seq(TriggerType)
        /\ e.type \notin {"message.received", "conversation.created"} =>
             \A i \in DOMAIN p : p[i] = "CONVERSATION_CLOSED"
    BY <2>2, PhasesFit
  <2> HIDE DEF p
  <2>4. r \in RunRec
    BY <2>2, <2>3, RestFits DEF RunRec
  <2>5. /\ r.at = "load" /\ r.conv = e.conv /\ r.status = e.status /\ r.phases = p
        /\ r.todo = <<>>
    BY DEF Rest
  <2> HIDE DEF r
  <2>6. \A i \in DOMAIN r.todo : FALSE
    BY <2>5
  <2>7. RunFits(r)
    BY <2>2, <2>3, <2>5, <2>6 DEF RunFits
  <2> QED
    BY <2>1, <2>4, <2>7, RunGoesOn
<1> QED
  BY <1>1, <1>2

\* What a run does to the table, and the row of which conversation it writes.
LEMMA AutomatingKeeps ==
  ASSUME CoreInv, AutoInv, AutoStep, UNCHANGED apiVars
  PROVE  /\ CoreInv' /\ AutoInv'
         /\ \A c \in Conversation : conv'[c] # conv[c] =>
              \E u \in Run : /\ run[u].at = "act" /\ run[u].conv = c
                            /\ \E a \in Action : conv'[c] = Acted(a, conv[c])
<1> DEFINE Writes == \A c \in Conversation : conv'[c] # conv[c] =>
              \E u \in Run : /\ run[u].at = "act" /\ run[u].conv = c
                            /\ \E a \in Action : conv'[c] = Acted(a, conv[c])
<1>1. /\ conv \in [Conversation -> Row] /\ lookup \in [Handler -> Lookup \cup {None}]
      /\ run \in [Run -> RunRec] /\ active \subseteq Automation
      /\ \A u \in Run : RunFits(run[u])
      /\ UNCHANGED <<req, transfers>>
  BY DEF CoreInv, TInv, TypeOK, StoreTypeOK, AutoInv, AutoTypeOK, apiVars
<1>2. ASSUME UNCHANGED <<conv, lookup>>, Silent PROVE CoreInv' /\ Writes
  <2>1. CoreInv'
    BY <1>1, <1>2, QuietKeeps DEF Silent
  <2> QED
    BY <1>2, <2>1
<1>3. ASSUME NEW u \in Run, Load(u) PROVE CoreInv' /\ AutoInv' /\ Writes
  <2> DEFINE r == run[u]
             t == Head(r.phases)
             rest == [r EXCEPT !.phases = Tail(@)]
  <2>1. PICK todo \in Loaded(t, r.status) : run' = [run EXCEPT ![u] = AtAutomation(rest, todo)]
    BY <1>3 DEF Load
  <2>2. /\ r \in RunRec /\ r.at = "load" /\ r.phases # <<>> /\ r.conv \in Conversation
        /\ r.phases \in Seq(TriggerType)
        /\ r.status = "CLOSED" =>
             \A i \in DOMAIN r.phases : r.phases[i] = "CONVERSATION_CLOSED"
    BY <1>1, <1>3 DEF Load, RunFits, RunRec
  <2>3. /\ Tail(r.phases) \in Seq(TriggerType)
        /\ \A i \in DOMAIN Tail(r.phases) :
             i + 1 \in DOMAIN r.phases /\ Tail(r.phases)[i] = r.phases[i + 1]
        /\ 1 \in DOMAIN r.phases /\ t = r.phases[1]
    BY <2>2
  <2>4. /\ rest \in RunRec /\ rest.conv = r.conv /\ rest.status = r.status
        /\ rest.phases = Tail(r.phases)
    BY <2>2, <2>3 DEF RunRec
  <2>5. /\ todo \in Seq(Automation)
        /\ \A i \in DOMAIN todo : Trigger[todo[i]] = t
    BY <1>1, LoadedIsTyped
  <2> HIDE DEF r, t, rest
  <2>6. r.status = "CLOSED" =>
          /\ \A i \in DOMAIN rest.phases : rest.phases[i] = "CONVERSATION_CLOSED"
          /\ \A i \in DOMAIN todo : Trigger[todo[i]] = "CONVERSATION_CLOSED"
    BY <2>2, <2>3, <2>4, <2>5
  <2>7. AtAutomation(rest, todo) \in RunRec /\ RunFits(AtAutomation(rest, todo))
    BY <2>2, <2>4, <2>5, <2>6, NextAutomationFits
  <2>8. AutoInv'
    BY <1>3, <2>1, <2>7, RunGoesOn DEF Load
  <2> QED
    BY <1>2, <1>3, <2>8 DEF Load
<1>4. ASSUME NEW u \in Run, Count(u) PROVE CoreInv' /\ AutoInv' /\ Writes
  <2> DEFINE r == run[u]
  <2>1. /\ r \in RunRec /\ r.todo # <<>> /\ r.conv \in Conversation
        /\ r.todo \in Seq(Automation) /\ run' = [run EXCEPT ![u] = AtAutomation(r, Tail(r.todo))]
        /\ r.status = "CLOSED" =>
             /\ \A i \in DOMAIN r.phases : r.phases[i] = "CONVERSATION_CLOSED"
             /\ \A i \in DOMAIN r.todo : Trigger[r.todo[i]] = "CONVERSATION_CLOSED"
    BY <1>1, <1>4 DEF Count, RunFits, RunRec
  <2>2. /\ Tail(r.todo) \in Seq(Automation)
        /\ \A i \in DOMAIN Tail(r.todo) :
             i + 1 \in DOMAIN r.todo /\ Tail(r.todo)[i] = r.todo[i + 1]
    BY <2>1
  <2> HIDE DEF r
  <2>3. /\ AtAutomation(r, Tail(r.todo)) \in RunRec
        /\ RunFits(AtAutomation(r, Tail(r.todo)))
    BY <2>1, <2>2, NextAutomationFits
  <2>4. AutoInv'
    BY <1>4, <2>1, <2>3, RunGoesOn DEF Count
  <2> QED
    BY <1>2, <1>4, <2>4 DEF Count
<1>5. ASSUME NEW u \in Run, Abandon(u) PROVE CoreInv' /\ AutoInv' /\ Writes
  <2>1. AutoInv'
    BY <1>5, RestFits, RunGoesOn DEF Abandon
  <2> QED
    BY <1>2, <1>5, <2>1 DEF Abandon
<1>6. ASSUME NEW x \in Switched, NEW on \in BOOLEAN, SetActive(x, on)
      PROVE  CoreInv' /\ AutoInv' /\ Writes
  <2>1. AutoInv'
    BY <1>1, <1>6, AutomationsAssumption DEF SetActive, AutoInv, AutoTypeOK
  <2> QED
    BY <1>2, <1>6, <2>1 DEF SetActive
<1>7. ASSUME NEW u \in Run, Act(u) PROVE CoreInv' /\ AutoInv' /\ Writes
  <2> DEFINE r == run[u]
             acts == Actions[Head(r.todo)]
             a == acts[r.act]
             row == Acted(a, conv[r.conv])
             on == IF r.act < Len(acts) THEN "act" ELSE "count"
             n == r.act + 1
             next == [r EXCEPT !.act = n, !.at = on]
  <2>1. /\ r \in RunRec /\ r.at = "act" /\ r.conv \in Conversation
        /\ r.todo \in Seq(Automation) /\ r.todo # <<>> /\ r.act \in DOMAIN acts /\ r.act \in Nat
        /\ r.status = "CLOSED" =>
             /\ \A i \in DOMAIN r.phases : r.phases[i] = "CONVERSATION_CLOSED"
             /\ \A i \in DOMAIN r.todo : Trigger[r.todo[i]] = "CONVERSATION_CLOSED"
    BY <1>1, <1>7 DEF Act, RunFits, RunRec
  <2>2. Head(r.todo) \in Automation /\ acts \in Seq(Action) /\ a \in Action
    BY <2>1, AutomationsAssumption
  <2>3. /\ conv' = [conv EXCEPT ![r.conv] = row] /\ lookup' = Noted(r.conv, row)
        /\ emitted' = None /\ UNCHANGED active
    BY <1>7 DEF Act, Save, Silent
  <2>4. run' = [run EXCEPT ![u] = next]
    BY <1>7, <1>1 DEF Act
  <2>5. r.act < Len(acts) => r.act + 1 \in DOMAIN acts
    BY <2>1, <2>2
  <2> HIDE DEF acts
  <2>6. on \in {"act", "count"} /\ (on = "act" => r.act + 1 \in DOMAIN acts)
    BY <2>5
  <2>7. n \in Nat /\ n = r.act + 1
    BY <2>1
  <2> HIDE DEF on, n
  <2>8. /\ next \in RunRec /\ next.at = on /\ next.conv = r.conv /\ next.todo = r.todo
        /\ next.act = n /\ next.status = r.status /\ next.phases = r.phases
    BY <2>1, <2>6, <2>7 DEF RunRec
  <2> HIDE DEF next
  <2>9. RunFits(next)
    BY <2>1, <2>6, <2>7, <2>8 DEF RunFits, acts
  <2>10. AutoInv'
    BY <2>3, <2>4, <2>8, <2>9, RunGoesOn
  <2> HIDE DEF r, a
  <2>11. /\ conv[r.conv] \in Row /\ Stamped(conv[r.conv])
    BY <1>1, <2>1 DEF CoreInv, StampsMatch, Stamped
  <2>12. /\ row \in Row /\ Stamped(row)
         /\ row.status = "ABSENT" => row = conv[r.conv]
         /\ row.status = "WAITING" /\ ~ row.waiting => row = conv[r.conv]
    BY <2>2, <2>11, ActedIsRow
  <2> HIDE DEF row
  <2>13. CoreInv'
    BY <1>1, <2>1, <2>3, <2>12, NotedIsTyped, OtherWriteKeeps
  <2>14. Writes
    <3>1. \A c \in Conversation : conv'[c] # conv[c] => c = r.conv /\ conv'[c] = row
      BY <1>1, <2>3
    <3> QED
      BY <2>1, <2>2, <3>1 DEF r, row
  <2> QED
    BY <2>10, <2>13, <2>14
<1> HIDE DEF Writes
<1>8. CoreInv' /\ AutoInv' /\ Writes
  BY <1>3, <1>4, <1>5, <1>6, <1>7 DEF AutoStep, RunStep
<1> QED
  BY <1>8 DEF Writes

-----------------------------------------------------------------------------
(* Webhooks.                                                               *)

\* A delivery goes on, or is over: what the messages table holds, it keeps.
LEMMA DeliveryGoesOn ==
  ASSUME InboxInv, NEW d \in Delivery, NEW x \in Inbox!DlvRec, dlv' = [dlv EXCEPT ![d] = x],
         DeliveryFits(x, stored'), stored \subseteq stored', stored' \subseteq Inbox!Copy,
         heard' \subseteq stored', known' \subseteq Contact,
         tries' \in [Webhook -> 0..MaxTries], ended' \subseteq Inbox!End
  PROVE  InboxInv'
<1>1. dlv \in [Delivery -> Inbox!DlvRec] /\ \A y \in Delivery : DeliveryFits(dlv[y], stored)
  BY DEF InboxInv, Inbox!InboxTypeOK
<1>2. dlv' \in [Delivery -> Inbox!DlvRec] /\ \A y \in Delivery : dlv'[y] = x \/ dlv'[y] = dlv[y]
  BY <1>1
<1>3. \A y \in Delivery : DeliveryFits(dlv[y], stored')
  BY <1>1 DEF DeliveryFits
<1>4. \A y \in Delivery : DeliveryFits(dlv'[y], stored')
  BY <1>2, <1>3
<1>5. Inbox!InboxTypeOK'
  BY <1>2 DEF Inbox!InboxTypeOK
<1> QED
  BY <1>4, <1>5 DEF InboxInv

LEMMA FreeFits == Inbox!Free \in Inbox!DlvRec /\ \A rows : DeliveryFits(Inbox!Free, rows)
<1>1. Inbox!Free \in Inbox!DlvRec
  BY OmniDeskAssumption DEF Inbox!Free, Inbox!DlvRec, Inbox!Status, Inbox!OpenStatus
<1> QED
  BY <1>1 DEF Inbox!Free, DeliveryFits

\* What is known of a delivery under way.
LEMMA UnderWay ==
  ASSUME InboxInv, NEW d \in Delivery, dlv[d].at # "idle"
  PROVE  /\ dlv[d] \in Inbox!DlvRec /\ DeliveryFits(dlv[d], stored)
         /\ dlv[d].hook \in Webhook /\ dlv[d].try \in 1..MaxTries
         /\ dlv[d].next \in Nat /\ dlv[d].next \in 1..Len(Batch[dlv[d].hook])
         /\ Inbox!CurrentMsg(d) \in Message /\ Inbox!From(d) \in Contact
         /\ ToNumber[dlv[d].hook] \in Number
<1>1. /\ dlv[d] \in Inbox!DlvRec /\ DeliveryFits(dlv[d], stored)
      /\ dlv[d].hook \in Webhook /\ dlv[d].try \in 1..MaxTries
      /\ dlv[d].next \in DOMAIN Batch[dlv[d].hook]
  BY DEF InboxInv, Inbox!InboxTypeOK, DeliveryFits
<1>2. Batch[dlv[d].hook] \in Seq(Message) /\ ToNumber[dlv[d].hook] \in Number
  BY <1>1, OmniDeskAssumption
<1>3. Inbox!CurrentMsg(d) \in Message
  BY <1>1, <1>2 DEF Inbox!CurrentMsg
<1>4. Inbox!From(d) \in Contact
  BY <1>3, OmniDeskAssumption DEF Inbox!From
<1>5. dlv[d].next \in Nat /\ dlv[d].next \in 1..Len(Batch[dlv[d].hook])
  BY <1>1, <1>2
<1> QED
  BY <1>1, <1>2, <1>3, <1>4, <1>5

LEMMA EndIsTyped ==
  ASSUME InboxInv, NEW d \in Delivery, dlv[d].at # "idle",
         NEW how \in {"handled", "swallowed", "lost"}
  PROVE  [hook |-> dlv[d].hook, try |-> dlv[d].try, how |-> how] \in Inbox!End
BY UnderWay DEF Inbox!End, Inbox!Try

\* A delivery that ends keeps what it had done.
LEMMA FinishKeeps ==
  ASSUME InboxInv, NEW d \in Delivery, dlv[d].at # "idle", NEW how \in {"handled", "swallowed"},
         Inbox!Finish(d, how), UNCHANGED <<known, tries, stored>>, heard' \subseteq stored
  PROVE  InboxInv'
<1>1. /\ dlv' = [dlv EXCEPT ![d] = Inbox!Free]
      /\ ended' = ended \cup {[hook |-> dlv[d].hook, try |-> dlv[d].try, how |-> how]}
  BY DEF Inbox!Finish
<1>2. ended' \subseteq Inbox!End
  BY <1>1, EndIsTyped DEF InboxInv, Inbox!InboxTypeOK
<1> QED
  BY <1>1, <1>2, FreeFits, DeliveryGoesOn DEF InboxInv, Inbox!InboxTypeOK

\* A conversation that a webhook inserts, whether or not its handler gets to know it.
LEMMA CommitKeeps ==
  ASSUME CoreInv, InboxInv, NEW d \in Delivery, NEW c \in Conversation,
         Inbox!CommitConversation(d, c), UNCHANGED apiVars, emitted' \in Event \cup {None}
  PROVE  /\ CoreInv'
         /\ \A x \in Conversation : conv'[x] # conv[x] =>
              conv[x].status = "ABSENT" /\ conv'[x].status = "WAITING"
<1> DEFINE row == NewRow(Inbox!From(d), "WHATSAPP", ToNumber[dlv[d].hook], None)
<1>1. /\ Inbox!From(d) \in Contact /\ ToNumber[dlv[d].hook] \in Number
  BY UnderWay DEF Inbox!CommitConversation
<1>2. row \in Row /\ row.status = "WAITING" /\ row.waiting
  BY <1>1 DEF NewRow, Absent, Row, Channel, Status, OpenStatus
<1>3. /\ conv[c].status = "ABSENT" /\ conv' = [conv EXCEPT ![c] = row]
      /\ lookup' = [Noted(c, row) EXCEPT ![d] = None]
  BY InboxSeesTheStore DEF Inbox!CommitConversation, Inbox!Insert, Exists
<1> HIDE DEF row
<1>4. conv \in [Conversation -> Row] /\ lookup \in [Handler -> Lookup \cup {None}]
  BY DEF CoreInv, TInv, TypeOK, StoreTypeOK
<1>5. Noted(c, row) \in [Handler -> Lookup \cup {None}]
  BY <1>4, NotedIsTyped
<1>6. /\ lookup' \in [Handler -> Lookup \cup {None}]
      /\ \A h \in Handler : lookup'[h] \in {None, Noted(c, row)[h]}
  BY <1>3, <1>5
<1>7. Stamped(row)
  BY <1>2 DEF Stamped
<1>8. CoreInv'
  BY <1>2, <1>3, <1>6, <1>7, OtherWriteKeeps DEF apiVars
<1> QED
  BY <1>2, <1>3, <1>4, <1>8

\* A step of a delivery keeps what is known of the table, of the requests and of the
\* deliveries; what it announces was open, and it only creates conversations.
LEMMA DeliveryKeeps ==
  ASSUME CoreInv, InboxInv, Inbox!InboxStep, UNCHANGED apiVars
  PROVE  /\ CoreInv' /\ InboxInv'
         /\ emitted' # None => emitted'.status # "CLOSED"
         /\ \A c \in Conversation : conv'[c] # conv[c] =>
              conv[c].status = "ABSENT" /\ conv'[c].status = "WAITING"
<1> DEFINE Creates == \A c \in Conversation : conv'[c] # conv[c] =>
                        conv[c].status = "ABSENT" /\ conv'[c].status = "WAITING"
           OpenNews == emitted' # None => emitted'.status # "CLOSED"
           Kept == CoreInv' /\ InboxInv' /\ OpenNews /\ Creates
<1>1. /\ conv \in [Conversation -> Row] /\ lookup \in [Handler -> Lookup \cup {None}]
      /\ UNCHANGED <<req, transfers>>
  BY DEF CoreInv, TInv, TypeOK, StoreTypeOK, apiVars
<1>2. /\ dlv \in [Delivery -> Inbox!DlvRec] /\ known \subseteq Contact
      /\ tries \in [Webhook -> 0..MaxTries] /\ ended \subseteq Inbox!End
      /\ stored \subseteq Inbox!Copy /\ heard \subseteq stored
  BY DEF InboxInv, Inbox!InboxTypeOK
<1>3. /\ Inbox!Status = Status /\ "WAITING" \in Status /\ "WAITING" # "CLOSED"
      /\ \A c \in Conversation : conv[c].status \in OpenStatus =>
           conv[c].status \in Status /\ conv[c].status # "CLOSED"
  BY DEF Inbox!Status, Inbox!OpenStatus, Status, OpenStatus
<1>4. ASSUME UNCHANGED <<conv, lookup>>, emitted' \in Event \cup {None} PROVE CoreInv' /\ Creates
  BY <1>1, <1>4, QuietKeeps
<1>5. ASSUME Inbox!Silent PROVE emitted' = None /\ OpenNews
  BY <1>5 DEF Inbox!Silent
<1>6. ASSUME NEW d \in Delivery, NEW w \in Webhook, Inbox!Deliver(d, w) PROVE Kept
  <2> DEFINE n == tries[w] + 1
             x == [Inbox!Free EXCEPT !.at = "contact", !.hook = w, !.try = n, !.next = 1]
             e == [hook |-> w, try |-> n, how |-> "unknown_number"]
  <2>1. tries[w] \in 0..MaxTries /\ tries[w] < MaxTries /\ MaxTries \in Nat
    BY <1>2, <1>6, OmniDeskAssumption DEF Inbox!Deliver
  <2>2. n \in 1..MaxTries /\ n \in 0..MaxTries
    BY <2>1
  <2>3. tries' = [tries EXCEPT ![w] = n] /\ UNCHANGED <<known, stored, heard>>
    BY <1>6 DEF Inbox!Deliver
  <2>4. 1 \in DOMAIN Batch[w]
    BY OmniDeskAssumption
  <2>5. CoreInv' /\ Creates /\ OpenNews
    BY <1>4, <1>5, <1>6 DEF Inbox!Deliver
  <2>6. \/ dlv' = [dlv EXCEPT ![d] = x] /\ ended' = ended
        \/ dlv' = dlv /\ ended' = ended \cup {e}
    BY <1>6 DEF Inbox!Deliver
  <2> HIDE DEF n, Creates, OpenNews
  <2>7. /\ x \in Inbox!DlvRec /\ x.at = "contact" /\ x.hook = w /\ x.try = n /\ x.next = 1
        /\ x.status = "WAITING"
    BY <2>2, FreeFits DEF Inbox!DlvRec, Inbox!Free
  <2>8. e \in Inbox!End
    BY <2>2 DEF Inbox!End, Inbox!Try
  <2> HIDE DEF x, e
  <2>9. DeliveryFits(x, stored)
    BY <2>2, <2>4, <2>7 DEF DeliveryFits
  <2>10. tries' \in [Webhook -> 0..MaxTries]
    BY <1>2, <2>2, <2>3
  <2>11. ASSUME dlv' = dlv PROVE InboxInv'
    BY <1>2, <2>3, <2>6, <2>8, <2>10, <2>11 DEF InboxInv, Inbox!InboxTypeOK
  <2>12. ASSUME dlv' = [dlv EXCEPT ![d] = x], ended' = ended PROVE InboxInv'
    BY <1>2, <2>3, <2>7, <2>9, <2>10, <2>12, DeliveryGoesOn
  <2> QED
    BY <2>5, <2>6, <2>11, <2>12
<1>7. ASSUME NEW d \in Delivery, Inbox!UpsertContact(d) PROVE Kept
  <2> DEFINE x == [dlv[d] EXCEPT !.at = "find"]
  <2>1. /\ dlv[d].at # "idle" /\ dlv' = [dlv EXCEPT ![d] = x]
        /\ known' = known \cup {Inbox!From(d)} /\ UNCHANGED <<tries, ended, stored, heard>>
    BY <1>2, <1>7 DEF Inbox!UpsertContact
  <2>2. CoreInv' /\ Creates /\ OpenNews
    BY <1>4, <1>5, <1>7 DEF Inbox!UpsertContact
  <2> HIDE DEF Creates, OpenNews
  <2>3. /\ dlv[d] \in Inbox!DlvRec /\ DeliveryFits(dlv[d], stored) /\ Inbox!From(d) \in Contact
    BY <2>1, UnderWay
  <2>4. /\ x \in Inbox!DlvRec /\ x.at = "find" /\ x.hook = dlv[d].hook /\ x.try = dlv[d].try
        /\ x.next = dlv[d].next /\ x.status = dlv[d].status
    BY <2>3 DEF Inbox!DlvRec
  <2> HIDE DEF x
  <2>5. DeliveryFits(x, stored)
    BY <2>1, <2>3, <2>4 DEF DeliveryFits
  <2>6. known' \subseteq Contact
    BY <1>2, <2>1, <2>3
  <2>7. InboxInv'
    BY <1>2, <2>1, <2>4, <2>5, <2>6, DeliveryGoesOn
  <2> QED
    BY <2>2, <2>7
<1>8. ASSUME NEW d \in Delivery, Inbox!FindConversation(d) PROVE Kept
  <2>1. /\ dlv[d].at # "idle" /\ UNCHANGED <<known, tries, ended, stored, heard>>
        /\ conv' = conv /\ Inbox!Silent /\ emitted' = None
    BY <1>8 DEF Inbox!FindConversation, Inbox!Silent
  <2>2. /\ dlv[d] \in Inbox!DlvRec /\ DeliveryFits(dlv[d], stored) /\ Inbox!From(d) \in Contact
        /\ ToNumber[dlv[d].hook] \in Number
    BY <2>1, UnderWay
  <2>3. Creates /\ OpenNews
    BY <1>5, <2>1
  <2> HIDE DEF Creates, OpenNews
  <2>4. ASSUME NEW c \in Conversation, conv[c].status \in OpenStatus, lookup' = lookup,
               dlv' = [dlv EXCEPT ![d].at = "store", ![d].conv = c, ![d].status = conv[c].status]
        PROVE  CoreInv' /\ InboxInv'
    <3> DEFINE st == conv[c].status
               x == [dlv[d] EXCEPT !.at = "store", !.conv = c, !.status = st]
    <3>1. dlv' = [dlv EXCEPT ![d] = x]
      BY <1>2, <2>4
    <3>2. st \in Inbox!Status /\ st # "CLOSED"
      BY <1>3, <2>4
    <3> HIDE DEF st
    <3>3. /\ x \in Inbox!DlvRec /\ x.at = "store" /\ x.hook = dlv[d].hook /\ x.try = dlv[d].try
          /\ x.next = dlv[d].next /\ x.status = st /\ x.conv = c
      BY <2>2, <2>4, <3>2 DEF Inbox!DlvRec
    <3> HIDE DEF x
    <3>4. DeliveryFits(x, stored)
      BY <2>1, <2>2, <2>4, <3>2, <3>3 DEF DeliveryFits
    <3>5. InboxInv'
      BY <1>2, <2>1, <3>1, <3>3, <3>4, DeliveryGoesOn
    <3>6. CoreInv'
      BY <1>4, <2>1, <2>4
    <3> QED
      BY <3>5, <3>6
  <2>5. ASSUME Inbox!Found(Inbox!InboxWhere(d)) = {}, dlv' = [dlv EXCEPT ![d].at = "insert"],
               Inbox!BeginLookup(d, Inbox!InboxWhere(d))
        PROVE  CoreInv' /\ InboxInv'
    <3> DEFINE x == [dlv[d] EXCEPT !.at = "insert"]
               l == [where |-> Inbox!InboxWhere(d), late |-> {}]
    <3>1. dlv' = [dlv EXCEPT ![d] = x] /\ lookup' = [lookup EXCEPT ![d] = l]
      BY <1>2, <2>5 DEF Inbox!BeginLookup
    <3>2. /\ x \in Inbox!DlvRec /\ x.at = "insert" /\ x.hook = dlv[d].hook /\ x.try = dlv[d].try
          /\ x.next = dlv[d].next /\ x.status = dlv[d].status
      BY <2>2 DEF Inbox!DlvRec
    <3> HIDE DEF x
    <3>3. DeliveryFits(x, stored)
      BY <2>1, <2>2, <3>2 DEF DeliveryFits
    <3>4. InboxInv'
      BY <1>2, <2>1, <3>1, <3>2, <3>3, DeliveryGoesOn
    <3>5. Inbox!InboxWhere(d) \in Where
      BY <2>2 DEF Inbox!InboxWhere, Where, Channel
    <3>6. l \in Lookup /\ Found(l.where) = {}
      BY <2>5, <3>5, InboxSeesTheStore DEF Lookup
    <3> HIDE DEF l
    <3>7. /\ lookup' \in [Handler -> Lookup \cup {None}]
          /\ \A h \in Handler : lookup'[h] \in {None, lookup[h]} \/ Found(lookup'[h].where) = {}
      BY <1>1, <3>1, <3>6
    <3>8. CoreInv'
      BY <1>1, <2>1, <3>7, QuietKeeps
    <3> QED
      BY <3>4, <3>8
  <2>6. \A c \in Inbox!Found(Inbox!InboxWhere(d)) : c \in Conversation /\ conv[c].status \in OpenStatus
    BY DEF Inbox!Found, Inbox!Selects, Inbox!OpenStatus, OpenStatus
  <2>7. CoreInv' /\ InboxInv'
    BY <1>8, <2>4, <2>5, <2>6 DEF Inbox!FindConversation
  <2> QED
    BY <2>3, <2>7
<1>9. ASSUME NEW d \in Delivery, NEW c \in Conversation, Inbox!InsertConversation(d, c) PROVE Kept
  <2> DEFINE x == [dlv[d] EXCEPT !.at = "store", !.conv = c, !.status = "WAITING"]
  <2>1. /\ dlv[d].at # "idle" /\ UNCHANGED <<known, tries, ended, stored, heard>>
        /\ Inbox!CommitConversation(d, c) /\ dlv' = [dlv EXCEPT ![d] = x]
        /\ emitted' = [type |-> "conversation.created", conv |-> c, status |-> "WAITING"]
    BY <1>2, <1>9 DEF Inbox!InsertConversation, Inbox!CommitConversation, Inbox!Emit
  <2>2. OpenNews /\ emitted' \in Event \cup {None}
    BY <1>3, <2>1 DEF Event, EventType
  <2>3. CoreInv' /\ Creates
    BY <2>1, <2>2, CommitKeeps
  <2> HIDE DEF Creates, OpenNews
  <2>4. dlv[d] \in Inbox!DlvRec /\ DeliveryFits(dlv[d], stored)
    BY <2>1, UnderWay
  <2>5. /\ x \in Inbox!DlvRec /\ x.at = "store" /\ x.hook = dlv[d].hook /\ x.try = dlv[d].try
        /\ x.next = dlv[d].next /\ x.status = "WAITING" /\ x.conv = c
    BY <1>3, <2>4 DEF Inbox!DlvRec
  <2> HIDE DEF x
  <2>6. DeliveryFits(x, stored)
    BY <2>1, <2>4, <2>5 DEF DeliveryFits
  <2>7. InboxInv'
    BY <1>2, <2>1, <2>5, <2>6, DeliveryGoesOn
  <2> QED
    BY <2>2, <2>3, <2>7
<1>10. ASSUME NEW d \in Delivery, Inbox!StoreMessage(d) PROVE Kept
  <2> DEFINE x == [dlv[d] EXCEPT !.at = "touch"]
  <2>1. /\ dlv[d].at = "store" /\ dlv' = [dlv EXCEPT ![d] = x]
        /\ stored' = stored \cup {Inbox!CopyOf(d)} /\ UNCHANGED <<known, tries, ended, heard>>
    BY <1>2, <1>10 DEF Inbox!StoreMessage
  <2>2. CoreInv' /\ Creates /\ OpenNews
    BY <1>4, <1>5, <1>10 DEF Inbox!StoreMessage
  <2> HIDE DEF Creates, OpenNews
  <2>3. /\ dlv[d] \in Inbox!DlvRec /\ DeliveryFits(dlv[d], stored)
        /\ Inbox!CurrentMsg(d) \in Message /\ dlv[d].hook \in Webhook /\ dlv[d].try \in 1..MaxTries
    BY <2>1, UnderWay
  <2>4. dlv[d].conv \in Conversation
    BY <2>1, <2>3 DEF DeliveryFits
  <2>5. Inbox!CopyOf(d) \in Inbox!Copy /\ Inbox!CopyOf(d) = CopyIn(dlv[d])
    BY <2>3, <2>4 DEF Inbox!CopyOf, Inbox!Copy, Inbox!Try, CopyIn, Inbox!CurrentMsg
  <2>6. /\ x \in Inbox!DlvRec /\ x.at = "touch" /\ x.hook = dlv[d].hook /\ x.try = dlv[d].try
        /\ x.next = dlv[d].next /\ x.status = dlv[d].status /\ x.conv = dlv[d].conv
    BY <2>3 DEF Inbox!DlvRec
  <2> HIDE DEF x
  <2>7. CopyIn(x) = Inbox!CopyOf(d)
    BY <2>5, <2>6 DEF CopyIn
  <2>8. DeliveryFits(x, stored')
    BY <2>1, <2>3, <2>6, <2>7 DEF DeliveryFits
  <2>9. /\ stored \subseteq stored' /\ stored' \subseteq Inbox!Copy /\ heard' \subseteq stored'
        /\ known' \subseteq Contact /\ tries' \in [Webhook -> 0..MaxTries] /\ ended' \subseteq Inbox!End
    BY <1>2, <2>1, <2>5
  <2>10. InboxInv'
    BY <2>1, <2>6, <2>8, <2>9, DeliveryGoesOn
  <2> QED
    BY <2>2, <2>10
<1>11. ASSUME NEW d \in Delivery, Inbox!TouchConversation(d) PROVE Kept
  <2>1. /\ dlv[d].at = "touch" /\ heard' = heard \cup {Inbox!CopyOf(d)}
        /\ emitted' = [type |-> "message.received", conv |-> dlv[d].conv, status |-> dlv[d].status]
        /\ Inbox!NextMessage(d) /\ UNCHANGED <<conv, lookup, known, tries, stored>>
    BY <1>11 DEF Inbox!TouchConversation, Inbox!Emit
  <2>2. /\ dlv[d] \in Inbox!DlvRec /\ DeliveryFits(dlv[d], stored)
        /\ dlv[d].next \in Nat /\ dlv[d].next \in 1..Len(Batch[dlv[d].hook])
        /\ dlv[d].hook \in Webhook
    BY <2>1, UnderWay
  <2>3. dlv[d].conv \in Conversation /\ dlv[d].status \in Status /\ dlv[d].status # "CLOSED"
    BY <1>3, <2>1, <2>2 DEF DeliveryFits, Inbox!DlvRec
  <2>4. OpenNews /\ emitted' \in Event \cup {None}
    BY <2>1, <2>3 DEF Event, EventType
  <2>5. CoreInv' /\ Creates
    BY <1>4, <2>1, <2>4
  <2> HIDE DEF Creates, OpenNews
  <2>6. heard' \subseteq stored
    <3>1. Inbox!CopyOf(d) = CopyIn(dlv[d])
      BY DEF Inbox!CopyOf, CopyIn, Inbox!CurrentMsg
    <3> QED
      BY <1>2, <2>1, <2>2, <3>1 DEF DeliveryFits
  <2>7. ASSUME dlv[d].next < Len(Batch[dlv[d].hook]) PROVE InboxInv'
    <3> DEFINE n == dlv[d].next + 1
               x == [dlv[d] EXCEPT !.at = "contact", !.next = n, !.conv = None, !.status = "WAITING"]
    <3>1. dlv' = [dlv EXCEPT ![d] = x] /\ ended' = ended
      BY <1>2, <2>1, <2>7 DEF Inbox!NextMessage
    <3>2. Batch[dlv[d].hook] \in Seq(Message)
      BY <2>2, OmniDeskAssumption
    <3>3. n \in Nat /\ n \in DOMAIN Batch[dlv[d].hook]
      BY <2>2, <2>7, <3>2
    <3> HIDE DEF n
    <3>4. /\ x \in Inbox!DlvRec /\ x.at = "contact" /\ x.hook = dlv[d].hook /\ x.try = dlv[d].try
          /\ x.next = n /\ x.status = "WAITING"
      BY <1>3, <2>2, <3>3 DEF Inbox!DlvRec
    <3> HIDE DEF x
    <3>5. DeliveryFits(x, stored)
      BY <2>1, <2>2, <3>3, <3>4 DEF DeliveryFits
    <3> QED
      BY <1>2, <2>1, <2>6, <3>1, <3>4, <3>5, DeliveryGoesOn
  <2>8. ASSUME ~ dlv[d].next < Len(Batch[dlv[d].hook]) PROVE InboxInv'
    <3>1. Inbox!Finish(d, "handled")
      BY <2>1, <2>8 DEF Inbox!NextMessage
    <3> QED
      BY <2>1, <2>6, <3>1, FinishKeeps
  <2>9. InboxInv'
    BY <2>7, <2>8
  <2> QED
    BY <2>4, <2>5, <2>9
<1>12. ASSUME NEW d \in Delivery, Inbox!Swallow(d) PROVE Kept
  <2>1. /\ dlv[d].at # "idle" /\ Inbox!Finish(d, "swallowed") /\ Inbox!Silent
        /\ UNCHANGED <<known, tries, stored, heard>>
    BY <1>12 DEF Inbox!Swallow
  <2>2. emitted' = None /\ OpenNews
    BY <1>5, <2>1
  <2>3. InboxInv'
    BY <1>2, <2>1, FinishKeeps
  <2>4. ASSUME lookup' = [lookup EXCEPT ![d] = None], conv' = conv PROVE CoreInv' /\ Creates
    <3>1. /\ lookup' \in [Handler -> Lookup \cup {None}]
          /\ \A h \in Handler : lookup'[h] \in {None, lookup[h]}
      BY <1>1, <2>4
    <3>2. CoreInv'
      BY <1>1, <2>2, <2>4, <3>1, QuietKeeps
    <3> QED
      BY <2>4, <3>2
  <2>5. ASSUME NEW c \in Conversation, Inbox!CommitConversation(d, c) PROVE CoreInv' /\ Creates
    BY <2>2, <2>5, CommitKeeps
  <2> HIDE DEF OpenNews, Creates
  <2>6. CoreInv' /\ Creates
    BY <1>12, <2>4, <2>5 DEF Inbox!Swallow, Creates
  <2> QED
    BY <2>2, <2>3, <2>6
<1> HIDE DEF Kept
<1>13. Kept
  BY <1>6, <1>7, <1>8, <1>9, <1>10, <1>11, <1>12 DEF Inbox!InboxStep, Inbox!Handle
<1> QED
  BY <1>13 DEF Kept, Creates, OpenNews

-----------------------------------------------------------------------------
(* All of it together.                                                     *)

\* A request announces the creation of a conversation only when it is open.
LEMMA RequestNews ==
  ASSUME TInv, ApiStep
  PROVE  emitted' # None /\ emitted'.status = "CLOSED" =>
           emitted'.type \notin {"message.received", "conversation.created"}
<1> DEFINE OpenNews == emitted' # None /\ emitted'.status = "CLOSED" =>
                         emitted'.type \notin {"message.received", "conversation.created"}
<1>1. ASSUME NEW r \in Request, NEW c \in Conversation, CreateInsert(r, c) PROVE OpenNews
  BY <1>1 DEF CreateInsert, Emit
<1>2. ASSUME NEW r \in Request, Write(r) PROVE OpenNews
  <2>1. req[r].op \in DOMAIN EventOf /\ emitted'.type = EventOf[req[r].op]
    BY <1>2 DEF Write, CommitWrite, Emit, TInv, ReqShape
  <2>2. \A op \in DOMAIN EventOf :
          EventOf[op] \notin {"message.received", "conversation.created"}
    BY DEF EventOf
  <2> QED
    BY <2>1, <2>2
<1>3. ASSUME Silent PROVE OpenNews
  BY <1>3 DEF Silent
<1> HIDE DEF OpenNews
<1>4. ASSUME NEW r \in Request, NEW c \in Conversation,
             \/ \E dto \in UpdateDto : Update(r, c, dto)
             \/ \E a \in Agent : Assign(r, c, a)
             \/ \E dto \in TransferDto : TransferRead(r, c, dto)
             \/ Resolve(r, c) \/ Close(r, c) \/ Reopen(r, c)
      PROVE  OpenNews
  BY <1>3, <1>4 DEF Update, Assign, TransferRead, Resolve, Close, Reopen, ReadThenWrite, Accept
<1>5. ASSUME NEW r \in Request,
             \/ \E dto \in CreateDto : CreateFind(r, dto)
             \/ TransferRecord(r) \/ LostAnswer(r) \/ Fail(r)
      PROVE  OpenNews
  BY <1>3, <1>5 DEF CreateFind, Accept, TransferRecord, LostAnswer, Fail
<1>6. OpenNews
  BY <1>1, <1>2, <1>4, <1>5 DEF ApiStep
<1> QED
  BY <1>6 DEF OpenNews

\* Requests, restarts and idle steps keep what Conversations alone keeps.
LEMMA CoreStep == CoreInv /\ [Next]_vars => CoreInv'
<1> SUFFICES ASSUME CoreInv, [Next]_vars PROVE CoreInv'
  OBVIOUS
<1>1. TInv' /\ StampsMatch'
  BY TypeStep, StampsStep DEF CoreInv
<1>2. RecordFirst' /\ UnclockedWaitIsTransferred'
  BY ClockStep DEF CoreInv, ClockInv
<1>3. StaleOnlyByOverlap'
  BY StaleStep DEF CoreInv, StaleInv
<1> QED
  BY <1>1, <1>2, <1>3 DEF CoreInv

LEMMA InboxQuiet == InboxInv /\ UNCHANGED inboxVars => InboxInv'
BY DEF InboxInv, inboxVars, Inbox!InboxTypeOK, DeliveryFits, CopyIn

LEMMA AutoQuiet == AutoInv /\ UNCHANGED autoVars => AutoInv'
BY DEF AutoInv, autoVars, AutoTypeOK

\* A restart loses what was under way and nothing else.
LEMMA RestartKeeps == DeskInv /\ Restart => DeskInv'
<1> SUFFICES ASSUME DeskInv, Restart PROVE DeskInv'
  OBVIOUS
<1>1. CoreInv'
  <2>1. Crash
    BY DEF Restart, Crash
  <2> QED
    BY <2>1, CoreStep DEF DeskInv, Next
<1>2. InboxInv'
  <2>1. /\ dlv' = [d \in Delivery |-> Inbox!Free]
        /\ ended' = ended \cup {[hook |-> dlv[d].hook, try |-> dlv[d].try, how |-> "lost"] :
                                  d \in {x \in Delivery : dlv[x].at # "idle"}}
        /\ UNCHANGED <<known, tries, stored, heard>>
    BY DEF Restart, Inbox!InboxLost
  <2>2. InboxInv
    BY DEF DeskInv
  <2>3. \A d \in Delivery : dlv[d].at # "idle" =>
          [hook |-> dlv[d].hook, try |-> dlv[d].try, how |-> "lost"] \in Inbox!End
    BY <2>2, EndIsTyped
  <2>4. ended' \subseteq Inbox!End
    BY <2>1, <2>2, <2>3 DEF InboxInv, Inbox!InboxTypeOK
  <2>5. Inbox!InboxTypeOK'
    BY <2>1, <2>2, <2>4, FreeFits DEF InboxInv, Inbox!InboxTypeOK
  <2>6. \A d \in Delivery : DeliveryFits(dlv'[d], stored')
    BY <2>1, FreeFits
  <2> QED
    BY <2>5, <2>6 DEF InboxInv
<1>3. AutoInv'
  <2>1. run' = [u \in Run |-> Rest] /\ active' = active
    BY DEF Restart
  <2>2. run' \in [Run -> RunRec] /\ \A u \in Run : RunFits(run'[u])
    BY <2>1, RestFits
  <2> QED
    BY <2>1, <2>2 DEF DeskInv, AutoInv, AutoTypeOK
<1> QED
  BY <1>1, <1>2, <1>3 DEF DeskInv

\* Every step of the service desk keeps what is known of its three parts.
LEMMA DeskStep == DeskInv /\ [DeskNext]_deskVars => DeskInv'
<1> SUFFICES ASSUME DeskInv, [DeskNext]_deskVars PROVE DeskInv'
  OBVIOUS
<1>1. CoreInv /\ InboxInv /\ AutoInv
  BY DEF DeskInv
<1>2. CASE Requests
  <2>1. ApiStep /\ Listen(emitted') /\ UNCHANGED inboxVars /\ active' = active
    BY <1>2 DEF Requests
  <2>2. CoreInv'
    BY <1>1, <2>1, CoreStep DEF Next
  <2>3. emitted' \in Event \cup {None}
    BY <2>2 DEF CoreInv, TInv, TypeOK, StoreTypeOK
  <2>4. AutoInv'
    BY <1>1, <2>1, <2>3, RequestNews, ListenKeeps DEF CoreInv
  <2> QED
    BY <1>1, <2>1, <2>2, <2>4, InboxQuiet DEF DeskInv
<1>3. CASE Deliveries
  <2>1. Inbox!InboxStep /\ Listen(emitted') /\ UNCHANGED apiVars /\ active' = active
    BY <1>3 DEF Deliveries
  <2>2. CoreInv' /\ InboxInv' /\ (emitted' # None => emitted'.status # "CLOSED")
    BY <1>1, <2>1, DeliveryKeeps
  <2>3. emitted' \in Event \cup {None}
    BY <2>2 DEF CoreInv, TInv, TypeOK, StoreTypeOK
  <2>4. AutoInv'
    BY <1>1, <2>1, <2>2, <2>3, ListenKeeps
  <2> QED
    BY <2>2, <2>4 DEF DeskInv
<1>4. CASE Automating
  BY <1>1, <1>4, AutomatingKeeps, InboxQuiet DEF Automating, DeskInv
<1>5. CASE Restart
  BY <1>5, RestartKeeps
<1>6. CASE UNCHANGED deskVars
  <2>1. UNCHANGED vars /\ UNCHANGED inboxVars /\ UNCHANGED autoVars
    BY <1>6 DEF deskVars, vars
  <2> QED
    BY <1>1, <2>1, CoreStep, InboxQuiet, AutoQuiet DEF DeskInv
<1> QED
  BY <1>2, <1>3, <1>4, <1>5, <1>6 DEF DeskNext

LEMMA DeskStart == DeskInit => DeskInv
<1> SUFFICES ASSUME DeskInit PROVE DeskInv
  OBVIOUS
<1>1. CoreInv
  <2>1. TInv
    BY TypeInit DEF DeskInit, Init
  <2>2. Absent.status = "ABSENT"
    BY DEF Absent
  <2>3. StampsMatch /\ UnclockedWaitIsTransferred /\ StaleOnlyByOverlap
    BY <2>2 DEF DeskInit, StoreInit, StampsMatch, UnclockedWaitIsTransferred, StaleOnlyByOverlap
  <2>4. RecordFirst
    BY DEF DeskInit, ApiInit, RecordFirst, Idle
  <2> QED
    BY <2>1, <2>3, <2>4 DEF CoreInv
<1>2. InboxInv
  <2>1. Inbox!InboxTypeOK
    BY FreeFits, OmniDeskAssumption DEF DeskInit, Inbox!InboxInit, Inbox!InboxTypeOK
  <2>2. \A d \in Delivery : DeliveryFits(dlv[d], stored)
    BY FreeFits DEF DeskInit, Inbox!InboxInit
  <2> QED
    BY <2>1, <2>2 DEF InboxInv
<1>3. AutoInv
  BY RestFits DEF DeskInit, AutoInit, AutoInv, AutoTypeOK
<1> QED
  BY <1>1, <1>2, <1>3 DEF DeskInv

\* What the requests guarantee among themselves survives webhooks and automations, for
\* any number of handlers, bodies and automations: stamps, clocks and lookups.
THEOREM DeskKeepsTheRules == DeskSpec => []DeskKeepsRules
<1>1. DeskInv => DeskKeepsRules
  BY DEF DeskInv, CoreInv, InboxInv, AutoInv, TInv, TypeOK, DeskKeepsRules, DeskTypeOK
<1> QED
  BY DeskStart, DeskStep, <1>1, PTL DEF DeskSpec

\* A row changes by an insert, by the last query of a request about it, or by an action
\* of a run about it.
LEMMA DeskRowChanges ==
  ASSUME DeskInv, [DeskNext]_deskVars, NEW c \in Conversation, conv'[c] # conv[c]
  PROVE  \/ conv[c].status = "ABSENT" /\ conv'[c].status = "WAITING"
         \/ \E r \in Request : /\ req[r].at = "write" /\ req[r].conv = c /\ req'[r] = Idle
                               /\ conv'[c] = Written(req[r], conv[c])
         \/ \E u \in Run : /\ run[u].at = "act" /\ run[u].conv = c
                           /\ \E a \in Action : conv'[c] = Acted(a, conv[c])
<1>1. CoreInv /\ InboxInv /\ AutoInv /\ TInv /\ req \in [Request -> ReqRec]
  BY DEF DeskInv, CoreInv, TInv, TypeOK, ApiTypeOK
<1>2. CASE Requests
  <2>1. [Next]_vars
    BY <1>2 DEF Requests, Next
  <2>2. \/ conv[c].status = "ABSENT" /\ conv'[c].status = "WAITING"
        \/ \E r \in Request : /\ req[r].at = "write" /\ req[r].conv = c
                              /\ req' = [req EXCEPT ![r] = Idle]
                              /\ conv'[c] = Written(req[r], conv[c])
    BY <1>1, <2>1, RowChanges
  <2> QED
    BY <1>1, <2>2
<1>3. CASE Deliveries
  BY <1>1, <1>3, DeliveryKeeps DEF Deliveries
<1>4. CASE Automating
  BY <1>1, <1>4, AutomatingKeeps DEF Automating
<1> QED
  BY <1>2, <1>3, <1>4 DEF DeskNext, Restart, deskVars

\* With automations and webhooks too, only reopen() leaves a conversation unattended.
THEOREM DeskOnlyReopenUnattends == DeskSpec => DeskOnlyReopenLeavesUnattended
<1> DEFINE ByReopen(c) == \E r \in Request : /\ req[r].op = "reopen" /\ req[r].conv = c
                                             /\ req'[r] = Idle
<1>1. ASSUME DeskInv, [DeskNext]_deskVars, NEW c \in Conversation, ~ Unattended(c), Unattended(c)'
      PROVE  ByReopen(c)
  <2>1. conv'[c].status = "IN_PROGRESS" /\ conv'[c].agent = None /\ conv'[c] # conv[c]
    BY <1>1 DEF Unattended
  <2>2. TInv /\ conv[c] \in Row
    BY <1>1 DEF DeskInv, CoreInv, TInv, TypeOK, StoreTypeOK
  <2>3. ASSUME NEW r \in Request, req[r].at = "write", req[r].conv = c, req'[r] = Idle,
               conv'[c] = Written(req[r], conv[c])
        PROVE  ByReopen(c)
    <3>1. /\ req[r] \in ReqRec /\ req[r].op \in DOMAIN EventOf
          /\ req[r].op = "assign" => req[r].dto.agent \in Agent
      BY <2>2, <2>3 DEF TInv, TypeOK, ApiTypeOK, ReqShape
    <3>2. req[r].op = "reopen"
      BY <1>1, <2>1, <2>2, <2>3, <3>1, WrittenAttended DEF Unattended
    <3> QED
      BY <2>3, <3>2
  <2>4. ASSUME NEW a \in Action, conv'[c] = Acted(a, conv[c]) PROVE FALSE
    BY <2>1, <2>2, <2>4, ActedIsRow
  <2> QED
    BY <1>1, <2>1, <2>3, <2>4, DeskRowChanges
<1>2. DeskInv /\ [DeskNext]_deskVars =>
        [\A c \in Conversation :
           ~ Unattended(c) /\ Unattended(c)'
             => \E r \in Request : /\ req[r].op = "reopen" /\ req[r].conv = c
                                   /\ req'[r] = Idle]_deskVars
  BY <1>1
<1> QED
  BY DeskStart, DeskStep, <1>2, PTL DEF DeskSpec, DeskOnlyReopenLeavesUnattended

\* A closed conversation comes back by a request about it, or by a run whose event was
\* about it while it was open or about its closing.
THEOREM OnlyRunsAndAgentsRevive == DeskSpec => RevivedByRunOrAgent
<1> DEFINE ByAgent(c) == \E r \in Request : req[r].conv = c /\ req[r].at = "write" /\ req'[r] = Idle
           ByRun(c) == \E u \in Run :
                         /\ run[u].conv = c /\ run[u].at = "act"
                         /\ \/ run[u].status # "CLOSED"
                            \/ Trigger[Head(run[u].todo)] = "CONVERSATION_CLOSED"
<1>1. ASSUME DeskInv, [DeskNext]_deskVars, NEW c \in Conversation, conv[c].status = "CLOSED",
             conv'[c].status # "CLOSED"
      PROVE  ByAgent(c) \/ ByRun(c)
  <2>1. ASSUME NEW u \in Run, run[u].at = "act", run[u].conv = c PROVE ByRun(c)
    <3>1. run[u] \in RunRec /\ RunFits(run[u])
      BY <1>1 DEF DeskInv, AutoInv, AutoTypeOK
    <3>2. run[u].todo \in Seq(Automation) /\ run[u].todo # <<>>
      BY <2>1, <3>1 DEF RunRec, RunFits
    <3>3. 1 \in DOMAIN run[u].todo /\ Head(run[u].todo) = run[u].todo[1]
      BY <3>2
    <3>4. run[u].status = "CLOSED" => Trigger[Head(run[u].todo)] = "CONVERSATION_CLOSED"
      BY <2>1, <3>1, <3>3 DEF RunFits
    <3> QED
      BY <2>1, <3>4
  <2> HIDE DEF ByRun
  <2> QED
    BY <1>1, <2>1, DeskRowChanges
<1>2. DeskInv /\ [DeskNext]_deskVars =>
        [\A c \in Conversation :
           conv[c].status = "CLOSED" /\ conv'[c].status # "CLOSED" =>
             \/ \E r \in Request : req[r].conv = c /\ req[r].at = "write" /\ req'[r] = Idle
             \/ \E u \in Run :
                  /\ run[u].conv = c /\ run[u].at = "act"
                  /\ \/ run[u].status # "CLOSED"
                     \/ Trigger[Head(run[u].todo)] = "CONVERSATION_CLOSED"]_deskVars
  BY <1>1
<1> QED
  BY DeskStart, DeskStep, <1>2, PTL DEF DeskSpec, RevivedByRunOrAgent
=============================================================================
