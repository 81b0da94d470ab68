# OmniSuite: a TLA+ model of the service desk and its telephony

OmniSuite is a customer-service desk: a NestJS backend (`src/backend`), a Next.js frontend
(`src/frontend`), a PostgreSQL database behind Prisma, WhatsApp and Telegram as message channels,
ERP and ticket systems as integration partners, and an Asterisk PBX (`src/asterisk`). The backend
is one Node process. It has no locks, and database transactions only around the children of a
menu or ring group (and in nested inserts); its handlers are `async` functions that await one
query after another, so everything that matters happens *between* two `await`s: another request,
webhook, automation or AMI event runs there, a query is rejected, or the process dies and is
restarted by Docker (`restart: unless-stopped`). There is no test in the repository, and tests
would hardly reach these orders. This directory models them, checks the models with TLC and
proves the main safety properties with TLAPS.

Contents

1. [The system](#1-the-system): components, state, operations, hard behaviours
2. [Modelling conventions](#2-modelling-conventions)
3. [The modules and the code they model](#3-the-modules-and-the-code-they-model)
4. [The runs](#4-the-runs): what each checks and shows, bounds, fairness
5. [Where the code and its promises part](#5-where-the-code-and-its-promises-part)
6. [The proofs](#6-the-proofs)
7. [What is not modelled](#7-what-is-not-modelled)
8. [Plan](#8-plan)

## 1. The system

Paths are below `src/backend/src/` unless they begin with `src/`.

| Component | State it keeps | Operations | Talks to |
|---|---|---|---|
| Conversations `modules/conversations` | rows of `conversations` and `conversation_transfers` | create (find-or-create), update, assign, transfer, resolve, close, reopen, notes | emits `conversation.*` on the event bus |
| Inbound WhatsApp `modules/whatsapp`, `modules/webhooks` | contacts, conversations, messages | webhook body -> per message: contact, conversation, message, touch; status receipts; sending | emits `conversation.created`, `message.received`; called by Meta |
| Automations `modules/automations` | `automations` (active, run counters) | listeners for four triggers; actions assign queue/agent, close, send, tag, call a webhook | listens to the bus, writes `conversations` directly and emits nothing |
| Telephony `modules/telephony` | the AMI socket, two flags, a reconnect timer, a receive buffer, callbacks with timers; rows of `calls` | connect, login, reconnect, sendAction; handlers of Newchannel, AgentCalled, AgentConnect, Hangup | Asterisk; emits `call.*`, `queue.*` |
| Realtime gateway `gateway/omni.gateway.ts`, `src/frontend/src/store/socket-store.ts` | map of online users, conversation rooms; the tab's socket and its buffered emits | connect, disconnect, join, leave; broadcasts | listens to the bus; browser tabs |
| Messages `modules/messages` | messages, attachments | store an outbound message, list, mark as read | emits `message.sent` (nobody sends it to WhatsApp) |
| Integrations `modules/integrations` | integrations, their log; Telegram contacts, conversations and messages | Telegram webhook by two URLs (find-or-create), CRUD with masked secrets, HTTP executions and tests | emits on the bus; partners over HTTP |
| PBX configuration `modules/pbx` | `pbx_*` tables, generated Asterisk files, softphone sessions | CRUD with validation of targets, apply (read six tables, write three files, reload three modules), softphone register, heartbeat, unregister | Asterisk through telephony |
| Digital numbers `modules/digital-numbers` | numbers with port ranges and a log in JSON | create, update, registerTest | - |
| Queues, sectors, tags, templates, canned responses, drive | catalogue rows, queue members | CRUD, pause | - |
| Flows `modules/flows` | flows and executions | CRUD, start, update an execution | - |
| Contacts `modules/contacts` | contacts | CRUD, import | shares rows with the inboxes |
| Sessions `modules/auth`, `src/frontend/src/store/auth-store.ts`, `src/frontend/src/lib/api.ts` | password, refresh tokens; the browser's user and two tokens | login, refresh, logout, change of password; a response interceptor that refreshes and retries | every call of every page |
| Users `modules/users` | users, status log | CRUD, status | - |
| Notifications, audit, dashboard, reports | rows; reads | CRUD, aggregation | - |
| Frontend pages `resource-page.tsx`, `admin/pabx/page.tsx`, `atendimento/page.tsx` | query caches, forms, selection, the input of the chat | forms and polled lists over the API; a save, a send, an apply and what their answers do to the page | backend |

How they interact. Requests and webhooks write tables and `emit` on an in-process event bus
(`@nestjs/event-emitter`). The bus calls each listener synchronously; the listener runs to
its first `await` inside the emitter's step and then on its own, awaited by nobody. The
gateway forwards events to sockets; the automations react to four of them and write the same
tables again. Telephony does the same for AMI events.

What is hard, and what correctness means there:

- **find-or-create without a key** (three places): two of them interleave and open two
  conversations for one contact. Correct: what a handler misses must have come into being
  after it looked.
- **check, then write by id** in `resolve()`, `transfer()`: the row changes in between.
  Correct: statuses and time stamps agree whatever comes in between, and no operation but the
  one meant for it produces an odd state (waiting without a clock, in progress with nobody).
- **at-least-once webhooks**: bodies are delivered again while the first attempt is still
  running, errors are swallowed and answered with 200. Correct: each delivery stores a prefix
  of its messages in the right conversation and announces what it stored; every body is
  answered.
- **stale payloads**: automations test the event, not the row, action by action. Correct:
  they keep the guarantees of the conversation service and do not feed themselves.
- **socket, timers, callbacks** of the AMI connection: errors followed by closes, a
  reconnect timer, a login nobody awaits, a ten-second timer per action, a receive buffer that
  outlives its connection. Correct: flags tell the truth, a lost connection comes back, each
  request settles once, in the end.
- **unawaited event handlers** of call tracking: queries of one call overtake each other, and
  events are lost with the connection. Correct: the table goes wrong in no other way.
- **overlapping sockets** of one user: presence and rooms are kept per user and per socket.
  Correct: who is listed is connected; a tab is in no room it does not show.
- **an apply of the PBX configuration** reads six tables at once, writes three files at once and
  sends three reloads: each may fail, overlap another apply, or meet edits. Correct: an apply
  that has the files to itself and ends well leaves a dialplan without loose ends.
- **validate, then write**: the targets of routes and menu options, the agents of a queue, the
  ports of a number, the status of an agent; of a row with halves that belong together, such as
  the type and the value of a route's destination, each request writes the fields it names. Correct: what is wrong in the end became wrong
  by something that happened in between, and the property names it.
- **read, change, write back**: the log of a digital number, the status log of an agent.
  Correct: nothing is lost and no chain breaks without an overlap.
- **partners over HTTP**: a request that timed out may have been carried out, and the log of it
  may fail. Correct: answer and log agree with each other and, if nothing failed, with the
  partner.
- **pages that poll and save**: an answer comes to a page that shows another form, another
  conversation, another tab; a request that begins offline reads the page when it goes on. Correct: no field, text or list shows or stores what nobody meant.
- **refresh and retry** in the browser: an interceptor that also sees its own refresh calls,
  sign-outs and logins that overlap refreshes, tokens that expire under way. Correct: a changed
  password ends old sessions, the parts of the store agree, every call ends.

`PROJECT.json` lists all of this as `hazards`, each at its line.

## 2. Modelling conventions

- *One action per step between two awaits.* A handler that awaits n queries is about n
  actions: each commits one query and runs on to the next `await`. The arrival of a request
  is one action with the answer to its first read, because nothing can have changed since.
- *A handler in flight is a record* in a slot (`req`, `dlv`, `run`, `handler`, `receiver`, `job`,
  `editor`, `change`): its program
  point and what it holds of earlier reads. The number of slots bounds concurrency in TLC's
  instances only; the proofs are for any number.
- *Failure is everywhere.* A query may be rejected (`Fail`, `Swallow`, `Abandon`), may commit
  with its answer lost (`LostAnswer`; the second disjunct of `Swallow`), and the process may
  die between any two steps (`Crash`, `Restart`, `ReceiversDie`, `PbxCrash`).
- *Time stamps are "is set"*; nothing in the modelled code compares them. Names, texts,
  priorities and metadata are left out: no guard reads them.
- *Events* are `emitted`, the event the last step put on the bus; in `OmniDesk` the step that
  emits also starts the listener. When all `Run` slots are in use the emitting step waits for
  one: that bounds the instance and is not in the code.
- *Ghost variables* only record what happened, and no guard of the code's steps reads them:
  `lookup.late` (what came to match an outstanding lookup), `missed` and `raced` (calls),
  `shadowed` (sockets), `issuedUnder` and `outlived` (refresh tokens), `raced` (browsers),
  `retired`, `mismatched` and `mixed` (PBX), `crossed`, `retyped` and `acked` (Telegram), `upset`
  (executions), `meant` and `misposted` (forms), `excused` and `told` (lists), `entered`,
  `typedThen`, `astray` and `wiped` (texts), `kept`, `overwritten`, `assumed` and `crossedPorts`
  (numbers), `unlogged`, `since` and `lastCall` (agents), `redrawn`, `unstamped` and `revived` (flows),
  `outcome` of requests, `dispatched`, `ended` and `tries`. Guards of `Deliver`, `Request` and
  `Post` use `tries`, `outcome` and `acked` to bound what the environment asks for; `Type` uses
  `entered` and `typedThen` so that each text is typed once, and a new row of a form is one that
  nobody has meant anything for (`Unborn`).
- *Faulty variants.* A definition commented "Faulty variant" is the definition below it with a
  plausible mistake (a dropped guard, a forgotten column or timer, a wrong key). No
  specification uses one. Each property has one that violates it, listed under `mutants`
  in `PROJECT.json`: replace the definition by its variant and the run fails. They keep the
  properties honest.

## 3. The modules and the code they model

`PROJECT.json` maps every definition to its lines; this is the overview.

**ConversationStore** - the `conversations` table and what all its users share: `Row` and
`NewRow` (schema and insert), `Selects`/`Found` (the where clause of the find-or-creates),
`Insert` and `Save` (one INSERT, one UPDATE), `Emit`. It states the properties that hold
whoever writes: `StampsMatch`, `StaleOnlyByOverlap`, and the promise `OneOpenPerContact`.

**Conversations** - `conversations.service.ts`. `CreateFind`/`CreateInsert`,
`TransferRead`/`TransferRecord`/`Write`, and a read followed by `Write` for update, assign,
resolve, close, reopen. `Updated`, `Assigned`, `Transferred`, `Resolved`, `Closed`, `Reopened`
are the `data` objects of the UPDATEs. `transfer()` without a queue writes back the queue it
read two queries earlier (`readQueue`). `resolve()` alone has a guard on the status, tested
on the row it read. `autoAssign()` has no caller and is left out; notes change nothing here.

**InboxContract** - the abstract promise of an inbound channel: a delivery stores its messages
one at a time, announces each before storing the next, is handled only when all are, and
breaks anywhere.

**WhatsappInbox** - the webhook controller and `processIncomingWebhook`. `Deliver` (the
provider posts a body, `findNumber`), then per message `UpsertContact`, `FindConversation`,
`InsertConversation`, `StoreMessage`, `TouchConversation`; `Swallow` is the `catch` of the
controller, which ends the whole body and answers 200. Redelivery is the provider's:
`MaxTries` attempts, also overlapping. `PhoneTaken` are senders whose phone number an imported
contact already has, so that the upsert by `whatsappId` breaks the unique key on the phone. The
service looks up the number of a body again for each of its messages; the model does it once, for
nothing writes numbers here. Of a body it handles the first change of the first entry and
acknowledges the rest: `Batch` is the messages of that change.

**Automations** - `automations.service.ts`. `Listen` starts a run in the step that emits;
`Load` is `findMany` for the next trigger (message events load two triggers, one after the
other), filtered by the conditions on the payload; `Act` is one action and writes only its
columns; `Count` updates the run counter; `Abandon` is a rejection anywhere. `SetActive`
switches automations while runs keep what they loaded.

**OmniDesk** - composes the three on one table: every step is a step of one of them, with the
listeners started in it; `Restart` ends all of them at once.

**AmiConnection** - the connection part of `telephony.service.ts`. `Dial` is `connectAMI()`
past its guard, `SocketConnects`, `SocketError`, `SocketClose` the socket's handlers,
`ReconnectTimerFires` the five-second timer, `Send` is `sendAction()`, `HandleFrame` is
`handleMessage()`, `FrameBegins`/`FrameEnds` is what `processMessages()` does with a chunk that
ends inside a frame, `ActionTimerFires`/`LoginTimerFires` the ten-second timers.
`messageBuffer` outlives the connection (`stale`). Asterisk and the network are external: while
`calm` they behave, and `Weather` changes that at any time; `goodSecret` is whether Asterisk
accepts the configured secret, fixed but unknown.

**CallTracking** - the call part of the same service. Asterisk's channels send events in
order; each starts a handler (`Sends`) that is not awaited; `ResolveOwner`, `Upsert`, `Answer`
and `End` are the handlers' queries. `Connection` and `CallsCrash` lose events and handlers.
`Meaning` is not taken from the service that writes the table but from those that read it: the
dashboard counts COMPLETED calls as answered and MISSED ones as missed, the telephony page counts
RINGING and IN_PROGRESS apart.

**Telephony** - the two halves of `TelephonyService`. Call tracking takes the connection for a
switch that may turn at any time, and the connection takes no notice of calls, so a behaviour of
the service is one of each side by side; `half` says which of them runs while the other stays
where it starts (the connection at `Standing`, logged in with nothing due).

**Presence** - `omni.gateway.ts` with `socket-store.ts` and the selection effect of the service
desk page. `Connect` and `Disconnect` are the gateway's handlers, `Arrive` its join and leave
handlers, `Break` and `Select` happen in the tab. The server notices a broken connection only
later, so that sockets of one tab overlap. After a reconnection the page does not join its
room again, because socket.io goes on with the same socket object and the effect depends on that
and the selection: the model does the same. A renewed access token makes the layout take a new
socket, and then the effect leaves and joins on it (`Renew`).

**Sessions** - `auth.service.ts` behind its controller and guard, and `auth-store.ts` with
`api.ts` in the browser. A request has a handler (`sv`) and a promise in the browser (`cl`),
since axios gives up after thirty seconds on handlers that go on. `CheckLogin`, `SaveToken`,
`SetOnline`, `Admit`, `Revoke`, `SetOffline`, `CheckRefresh` are the handlers' queries,
`ComparePassword`, `WritePassword`, `RevokeAll` those of `changePassword()`. `Refresh`, `Retry`,
`GiveUp`, `Reject` are the interceptor's ways out. A refused refresh call is an answer with 401
like any other and starts a refresh one level deeper; from the second level on the levels behave
alike (`deeper`), and a refresh that succeeds there sends the refused one above again
(`resending`), which fails and signs out. `Reload` is the redirect to the login page and any
other loading of the page.

**BackOffice** - the nine modules below, the parts of the system that administrators and
partners work with and the pages they and the agents use. No state of one is read by another:
where the code shares a table (the members of a queue, which an apply reads, or the
conversations of a Telegram contact) each module has rows and edits of its own. So `part` says
which of them runs, and the others rest where they start.

**PbxConfig** - `pbx.service.ts` with the extensions and trunks of `telephony.service.ts` and the
queues. `things` are the tables, a row being what it points at, the type of a route's destination,
and whether it is active. `BeginEdit`, `Validate`, `WriteRow` are an edit with its validating
queries and its write; an order `names` the fields of its body. `Validated` says what each
operation looks up: of a route the destination that `Merged` makes of the body and the row as it
was *read*; `Written` merges the body with the row as it is *by then*. `BeginApply` sends the six queries of
`applyAsteriskConfig()`, which may see the tables at different times (`since`), `BeginFiles` has
their answers and renders the files (`RenderSip`, `RenderDialplan`, `RenderQueues`, with
`Resolved` for `destinationApp()`), `OpenFile`/`FillFile`/`WriteFails` are the three `writeFile`s,
`Reload` the three commands in their order, `ApplyFails` a rejection. A file is the set of its
sections and of the destinations it jumps to. Asterisk is external: `live` is what it has loaded.

**TelegramInbox** - `processTelegramWebhook()` behind its two URLs. `Post` is a delivery,
`Dispatch` the row read by `webhooks/integration/:id`, `ReadBot` the row with its secret,
`FindPerson`/`SavePerson` and `FindTalk`/`OpenTalk` the find-or-creates of contact and
conversation, `StoreMessage`, `TouchTalk`, `RecordWebhook` the rest; `ReceiveFails` is a rejection,
which here is answered with an error, so that Telegram posts the update again. `EditBot` and
`TurnTalk` are administrators and agents.

**Integrations** - the outgoing half of `integrations.service.ts`. The row of a partner is edited
(`UpdateIntegration`, with bodies made of masked answers; `UpsertIntegration`; `DeleteIntegration`)
while executions go through `ReadPartner`, `BuildVariables`, `Request`, `LogSuccess`, `LogFailure`.
The partner is external; a request that fails may have been carried out.

**DigitalNumbers** - `digital-numbers.service.ts` on one row. `ReadNumber` is the query every
operation begins with, `UpdateNumber`, `DeleteNumber`, `RegisterTest` write; `WithRow` is what
`update()` validates: the stored RTP range and the *default* signalling ports. Bodies may bring a
status and a log of any length (`PostedLogs`), which `create()` and `update()` store as it is.

**Agents** - `users.service.ts` (status and its log, deletion), the members of a queue, and the
softphone sessions of `pbx.service.ts`: `ReadStatus`/`WriteStatus`/`LogStatus`, `SignInOrOut` (the
status that `Sessions` leaves out), `Deactivate` (deletion: a PATCH that names `isActive` is refused
by the validation pipe of `main.ts:77-82`, so nothing makes an account active again), `CheckMember`/`AddMember`, `LookUpExtension`/`RegisterSession`,
`Heartbeat`, `UnregisterSession`.

**Flows** - `flows.service.ts`: flows drawn by hand or made from blueprints, whose node ids are
primary keys, and executions that a client moves. `UpdateNode` passes its body on, so that a node
may be moved to another flow or id. `Stamped` is the handling of `finishedAt`.

**CrudForm** - `resource-page.tsx`: `Fetch` (the list), `OpenCreate`/`OpenEdit`/`UpdateField`
(the form and its controls), `Save`/`Serve`/`SaveAnswered` (the mutation, the server, the answer,
which closes whatever form is open), `SaveOffline`/`Continue` (a mutation that begins offline is
paused by React Query and reads the form when it goes on), `EditElsewhere`. `ServePost` is the
upsert of `/integrations`: a POST writes over the row that has its `Key`; on the other pages `Key`
is empty and a POST adds a row. `InitialValues` and `Payload` are the
conversions: a null json field shows its default, an empty control is not sent, a text that does
not parse stops the save.

**PabxPage** - `admin/pabx/page.tsx` over React Query (external): `Poll`, `ReadRows`, `RowsArrive`
are the life of a fetch, `PressSave`/`PressDelete`/`PressApply`, `CarryOut`, `Answer` that of a
write, after which `Invalidated` restarts the fetches of the mounted lists. A list is its age.

**DeskPage** - `atendimento/page.tsx`: `ConversationsArrive`, `Select`, `Type`,
`HandleSend`/`SendServed`/`SendAnswered`, `Turn`/`Turned` (resolve and close). A send that begins
offline waits and takes the conversation that is selected when it goes on (`SendGoesOn`), or, when
another send has begun meanwhile, the one selected then, after which its closure is renewed no more.

The `MC*` modules give batches, owners, automations, rows and bodies their values where a `.cfg`
cannot; `Telephony` needs none. `*_proofs` hold the theorems.

## 4. The runs

A run named like its `.cfg`. Times are for two workers on an ordinary machine.

| Run | Instance | States | Shows |
|---|---|---|---|
| `Conversations` | 1 conversation, 2 requests, all 7 operations | 1.4 M, 1 min | `TypeOK`, `StampsMatch`, `UnclockedWaitIsTransferred`, `StaleOnlyByOverlap`, `OnlyReopenLeavesUnattended` |
| `ConversationsDuplicate` | 2 conversations, 2 requests, create and close | counterexample | `OneOpenPerContact` fails |
| `ConversationsClosed` | 1 conversation, 2 requests, create, resolve, close | counterexample | `ClosedIsNotResolved` fails |
| `WhatsappInbox` | 3 bodies with 4 messages of 3 senders, 2 deliveries at a time, 2 tries each | 71 k, 1 min | `TypeOK`, `StoredWhereItBelongs`; implements `InboxContract` (`KeepsContract`); `EventuallyAnswered` |
| `OmniDesk` | 1 conversation, 1 request, 1 delivery, 4 automations, 2 runs | 260 k, 2 min | `DeskKeepsRules`, `DeskOnlyReopenLeavesUnattended`, `RevivedByRunOrAgent`; `AutomationsSettle` |
| `Telephony` | 2 requests, 2 logins with a running timer, both secrets; 1 call, 3 handlers at a time | 16 k, 1 min | `TelephonyTypeOK`, `ConnectionIsKnown`, `NothingWaitsUntimed`, `SettledOnce`, `TornOnlyAtLogin`, `TrueUnlessUnanswered`, `RevivedOnlyByRace`; `EventuallyConnected`, `RequestsEnd`, `EndedCallsLeave` |
| `AmiConnectionCrash` | 1 request, 1 login | counterexample | `OnlyKilled` fails |
| `CallTrackingPhantom` | 1 call, 2 handlers | counterexample | `ActiveCallsAreActive` fails |
| `Presence` | 2 users, 3 tabs, 3 sockets, 2 conversations, 2 emits under way | 2.0 M, 2 min | `TypeOK`, `ListFollowsSockets`, `NoForeignRoom` |
| `Sessions` | 1 browser, 2 calls at a time, 2 logins, 2 passwords | 2.2 M, 1 min | `TypeOK`, `OldPasswordIsOut`, `StoreIsWhole` |
| `SessionsCalls` | 1 browser, 1 call, 1 login | counterexample | `CallsEnd` fails |
| `BackOffice` | the nine parts, each as below | 1.9 M, 3 min | `BackOfficeTypeOK`, `LiveJumpsLand`, `DanglingOnlyByRetirement`, `AcknowledgedIsHandled`, `AnswerMatchesLog`, `SavesAreMeant`, `OwnWritesShow`, `TypedIsSentOrKept`, `NumbersAreSound`, `AgentsAreAccountedFor`, `FlowsHoldTogether` |

What the properties say, and why they could have been false:

- `StampsMatch`: a CLOSED row has `closedAt`, a RESOLVED one `resolvedAt`. Assign and
  transfer leave old stamps behind and reopen clears both, so this depends on every write
  that sets a final status setting its stamp in the same UPDATE, automations included.
- `UnclockedWaitIsTransferred`: `transfer()` to a queue does not set `waitingSince`. A
  conversation that waits without it has a row in `conversation_transfers`, even when the
  request died halfway, because the record is inserted before the row is touched.
- `StaleOnlyByOverlap`: what a pending find-or-create does not know of was created, reopened or
  re-addressed after its lookup. A handler that runs alone opens no second conversation.
- `OnlyReopenLeavesUnattended` (`Desk...`): IN_PROGRESS with nobody assigned comes from
  `reopen()` only.
- `RevivedByRunOrAgent`: a closed conversation comes back by an agent's operation, or by a run
  whose event was about it while it was open, or about its closing.
- `DeskKeepsRules`: the first three of these hold with webhooks and automations on the same table,
  which write it by queries of their own.
- `KeepsContract`, `StoredWhereItBelongs`: what a single delivery does, under overlap with
  others: it stores a prefix of its body, each message in a conversation of its sender. Storing a
  message twice for two deliveries is *not* excluded: the code does it (`externalId` is not
  unique) and promises nothing else.
- `TornOnlyAtLogin`: a frame cut off by a lost connection is glued to the first frame of the
  next one. That is always the login's reply, so no later event can be garbled.
- `ConnectionIsKnown`: exactly the dead sockets have a reconnect pending, or the timer would
  destroy a good connection or a lost one would stay lost; and the flags never claim a login
  that did not happen.
- `NothingWaitsUntimed`: a request that waits, or a connection that stands without a login, has a
  running timer behind it (or Asterisk about to hang up). It is what `RequestsEnd` and
  `EventuallyConnected` live on.
- `TrueUnlessUnanswered`, `RevivedOnlyByRace`: a row of the calls table means what its readers take
  it for unless handlers overtook each other, an event was lost, or nobody answered the call: the
  service stores the ringing of an agent as IN_PROGRESS and an abandoned call as COMPLETED (see 5).
  An answered call is right all along.
- `ListFollowsSockets`: who is listed is connected; and `handleDisconnect` deletes the user from
  the map whichever socket it was. A connected user missing from the list lost another socket.
- `OldPasswordIsOut`: a refresh token got with a password that has been changed since is dead,
  unless its login was under way when the password was written or the change failed before
  it revoked. It depends on the order of the two writes of `changePassword()`: revoking first
  would let in logins between them.
- `StoreIsWhole`: user, access token and refresh token of the store belong together. Logging
  out, refreshing and logging in again interleave in it; what is left of that is a token
  without a user, after a sign-out during a refresh and never otherwise.
- `LiveJumpsLand`: whatever half-written files, refused reloads and restarts came before, an apply
  that has the files to itself and ends well leaves Asterisk with a dialplan all of whose
  destinations exist, although its six tables are read at different times. It holds because
  sections and jumps are both taken from the one snapshot, and because the reloads wait for all
  the files.
- `DanglingOnlyByRetirement`: a row points at something inactive only if that was deactivated
  after it had been active, and a route's value is in the table of its type. Targets are validated
  and written in separate queries. Excepted are routes one half of whose destination was written
  over another row than the one it had been validated with (`mismatched`): two PATCHes that overlap
  do that, and any one that names both halves ends it. Their trunks are not excepted.
- `AcknowledgedIsHandled`: an update that Telegram got a 200 for is stored and announced in a
  conversation of the one who wrote it (unless nothing can be made of it, or the row was
  not a bot's for a while), whatever fails or dies; a sender gets a second contact only if two
  of his updates were handled at a time.
- `AnswerMatchesLog`: "ok" means that the partner carried the request out and the log says so;
  a request carried out is logged as failed only when an awaited step went wrong. Since the log of a
  success is written inside the `try`, that step may be the log itself.
- `NumbersAreSound`: ports are consistent unless updates overlapped or one set the RTP range alone,
  against the default signalling ports; the entry of a test is in the log until `LogSize`
  newer ones are, unless an overlapping test wrote back a log without it or a body brought another
  log. That the log is no longer than `LogSize` is not claimed: a body may bring a longer one.
- `AgentsAreAccountedFor`: the status log is a chain that ends in the status. Changes that overlap,
  one that fails before its entry, and a sign-in or sign-out break it, be it a late one of the
  session before; the next change that runs alone begins it anew (`since`), so that nothing
  excuses an agent for good. Somebody deleted before is no member of a queue; a softphone is listed
  exactly if its last registration came after its last end, late heartbeats or not.
- `FlowsHoldTogether`: executions stand at nodes that exist and have an end exactly when they are
  over (unless revived or stamped by hand); a flow from a blueprint keeps its start among its own
  nodes until it is redrawn, although all flows of a blueprint ask for the same ids, and no
  connection leads to a removed or renamed node.
- `SavesAreMeant`: saving a form puts nothing into a field that nobody meant this field of this row
  to hold. All fields of the form are sent, not only the typed ones; the answer to one save may
  close the form of another row, and a save that waited offline sends the form it finds. What is
  left: a masked secret becomes the mask, an empty json field the default of its control, and a POST
  writes its values over the row that has its key, or sends those of a form that was closed
  meanwhile (`misposted`).
- `OwnWritesShow`: once the page has reported a write, no list it shows goes back to before it,
  although polls were under way; a list that was loading for the first time, or hidden, may.
- `TypedIsSentOrKept`: a text leaves the input only when it is stored in a conversation; what was
  typed *during* a send may be wiped by its answer. It is stored in the conversation that was
  displayed when it was entered, unless the send waited offline (`astray`).

Bounds, and why they suffice. The properties about rows speak of one conversation at a time
and the hazards need two parties: one that holds something it read and one that
changes it. Hence two requests, two deliveries, two runs or a run and a request. The
`Conversations` run has one conversation with one agent and one queue, enough to be taken
away, reopened and re-addressed during a lookup; the duplicate takes two. In
`WhatsappInbox` two conversations for two senders mean that two of one sender exhaust the keys;
inserts then wait or fail, and nothing a property speaks of is lost by it. Two logins in
`AmiConnection` cover a login whose timer is still running when the next connection stands;
a third needs another ten seconds on top of reconnects of five and behaves like the second
(the theorems hold for any number). `MaxTries` bounds the provider's patience, `MaxUnsent` the
buffer of a tab, `Slot` and `Run` the handlers in flight.
`Telephony` has one call with three handlers: what goes wrong with a call goes wrong between the
handlers of its own four events.
`Sessions` has two calls, so that one signs out or logs in while the other refreshes, and two
logins, so that a call meets the token of a session before; `MaxPassword` bounds how often the
password changes.

`BackOffice` gives each part the smallest instance in which its hazards occur (`MCBackOffice`):
two edits (`MaxEdits`) of two administrators, the first of a route's whole destination and the second
of its value alone, a retirement or a menu (`Asked`), with up to two applies around them (`MaxWork`
counts the edits so far and the applies under way), of a dialplan with a route, a menu, a queue and
an extension; two updates of two chats in at most three deliveries (`MaxPosts`) around one edit or one
turned conversation (`MaxOthers`); two executions, one that insists on a type; one row with a
masked field and a key and one that is not there yet, two forms or foreign edits (`MaxForms`) and one control set per form (`MaxTyped`), since the hazards
are in the controls that nobody set; a tab with a
form and one without, two writes (`MaxWrites`); two conversations and two sends (`MaxSends`);
four ports, two editors, three tests (`MaxTests`) on a log of two entries (`LogSize`) where the code
has a hundred, and bodies that empty the log or bring three; one agent with two status changes at a
time, no change begun once two entries are logged (`MaxLog`), and one sign-in or sign-out
(`MaxTurns`), beside one who was deleted before; two flows from one blueprint, one execution, one connection by hand
(`MaxLinks`). `SYMMETRY` exchanges the two names that all slots of handlers, and the two flows,
go by: no constant tells them apart and the run has no liveness property. `VIEW Running` leaves
out the parts at rest, which are in their initial states.

`CHECK_DEADLOCK` is on in every run.

Fairness, and what justifies it.

- `WhatsappInbox`: weak fairness of each delivery's own steps (a query is answered or
  rejects) and of the provider's redelivery of an unanswered body. Crashes are not fair and may
  hit every attempt; `EventuallyAnswered` says so.
- `OmniDesk`: weak fairness of each run: its queries end, and its HTTP calls have a timeout.
- `Telephony`, the connection: weak fairness of boot (the container is restarted), of timers, of
  the close that follows an error and of the connection attempt; strong fairness of replies and
  of the ten-second timers, since events and weather may interrupt them again and again.
  `EventuallyConnected` assumes that Asterisk and the network behave from some time on
  (`<>[]calm`), and nothing before.
- `Telephony`, the calls: weak fairness of each handler's queries. In the half that rests none of
  these actions is enabled.
- `SessionsCalls`: weak fairness of each handler and of each promise: axios settles it with its
  answer or after thirty seconds.
- `BackOffice` states none: its parts promise nothing that must happen.

## 5. Where the code and its promises part

Five runs end in a counterexample, each against a sentence of the repository:

1. **Two open conversations** (`ConversationsDuplicate`). `create()` comments "Check if there's
   already an open conversation with this contact" (`conversations.service.ts:118`), but finds and
   inserts in two queries. Two requests both find nothing and both insert.
2. **Resolving a closed conversation** (`ConversationsClosed`). `resolve()` answers "Conversa já
   encerrada" when the conversation is closed (`:222`), and then updates by id: a close between
   the two is overwritten with RESOLVED.
3. **The end of the process** (`AmiConnectionCrash`). A lost connection announces "AMI connection
   closed, reconnecting..." (`telephony.service.ts:74`). If it was lost before the login was
   answered, the login's ten-second timer rejects a promise that nobody handles, which ends a
   Node process - with every request in flight. `EventuallyConnected` shows that the restart does
   recover.
4. **Phantom calls** (`CallTrackingPhantom`). "Chamadas ativas no momento"
   (`telephony.controller.ts:64`) lists a call that is over for ever, when its hangup was handled
   while the owner of its Newchannel was being looked up: the upsert comes last and sets RINGING.
5. **Refreshing for ever** (`SessionsCalls`). When a refresh is refused the interceptor says
   `logout()` and `window.location.href = '/login'` (`api.ts:34-36`). The refusal is a 401 that
   passes through the same interceptor, on a request that is not marked `_retry`, with a refresh
   token still in the store: it is answered by the next refresh call, and so on. Only another kind
   of failure, such as the rate limit that nginx puts on `/api/auth/`, ends it.

Three more disagreements are no violation runs, because the text that contradicts the code is code
itself; the properties name them as exceptions:

- **Unanswered calls** (`TrueUnlessUnanswered`). An AgentCalled event is handled like AgentConnect
  (`telephony.service.ts:161-163`), so a call that rings at an agent is IN_PROGRESS, which
  `telefonia/page.tsx:220-221` counts as a conversation; and every hangup writes COMPLETED, while
  `dashboard.service.ts:185-186` counts COMPLETED as answered and MISSED, which nothing writes, as
  missed.
- **New integrations** (`SavesAreMeant`). The page offers a new integration with its defaults filled
  in; `POST /integrations` is an upsert by type (`integrations.service.ts:79-97`), which replaces
  name, configuration and activity of the integration of that type.
- **Offline pages** (`SavesAreMeant`, `TypedIsSentOrKept`). `mutationFn` reads `editing` and `formValues`
  (`resource-page.tsx:173-177`) and `selectedConvId` (`atendimento/page.tsx:83-84`) when it runs, which
  React Query puts off while the browser is offline. A message entered for one customer goes to the
  conversation that is selected when the connection is back.

## 6. The proofs

Every invariant and every action property of the passing runs is a theorem, and so is the
refinement of the abstract contract: TLC checks them on small instances, TLAPS for every value of
the constants under the named assumptions of the modules. Those say that identifiers of
different kinds are distinct (`NoneAssumption`, `AmiAssumption`, `CallsAssumption`,
`DeskPageAssumption`, `PabxPageAssumption`), that bodies, batches and instance parameters are well
typed and bounds are natural numbers (`ConversationsAssumption`, `InboxAssumption` and its copy
`OmniDeskAssumption`, `PresenceAssumption`, `SessionsAssumption`, `TelegramAssumption`,
`IntegrationsAssumption`, `AgentsAssumption`), and a few facts more: a batch names each
message once (WhatsApp gives each an id of its own) and is not empty (a body without messages runs
`processIncomingWebhook` through no message and stores nothing); `Created` lists every automation once (`AutomationsAssumption`);
the rows at the start are valid and the six tables disjoint (`PbxAssumption`); the default ports are
in order (`NumbersAssumption`); a blueprint's start and connections are among its own nodes
(`FlowsAssumption`); the key of a row is never the word that the form uses for a new one or none
(`CrudAssumption`).

| Module | Theorems about | States the properties |
|---|---|---|
| `OmniDesk_proofs` | Conversations, OmniDesk | `TypeOK`, `StampsMatch`, `UnclockedWaitIsTransferred`, `StaleOnlyByOverlap`, `OnlyReopenLeavesUnattended`; `DeskKeepsRules`, `DeskOnlyReopenLeavesUnattended`, `RevivedByRunOrAgent` |
| `WhatsappInbox_proofs` | WhatsappInbox, InboxContract | `TypeOK`, `StoredWhereItBelongs`, `KeepsContract` |
| `Telephony_proofs` | AmiConnection, CallTracking, Telephony | `TelephonyTypeOK`, `ConnectionIsKnown`, `NothingWaitsUntimed`, `SettledOnce`, `TornOnlyAtLogin`, `TrueUnlessUnanswered`, `RevivedOnlyByRace` |
| `Presence_proofs` | Presence | `TypeOK`, `ListFollowsSockets`, `NoForeignRoom` |
| `Sessions_proofs` | Sessions | `TypeOK`, `OldPasswordIsOut`, `StoreIsWhole` |
| `PbxConfig_proofs` | PbxConfig | `DanglingOnlyByRetirement`, `LiveJumpsLand` |
| `TelegramInbox_proofs` | TelegramInbox | `AcknowledgedIsHandled` |
| `BackOffice_proofs` | the other parts of BackOffice, and all of it | `BackOfficeTypeOK`, `AnswerMatchesLog`, `NumbersAreSound`, `AgentsAreAccountedFor`, `FlowsHoldTogether`, `TypedIsSentOrKept`, `OwnWritesShow`, `SavesAreMeant` |

An invariant of the runs is seldom inductive as it stands; this is what strengthens each.

**OmniDesk_proofs, the requests alone.** `TypeCorrect` rests on `TInv`: the types and `ReqShape`,
which says that a request past its read names an existing conversation, and that an agent is named
when it is an assignment. `FinalStatusIsStamped` goes through the lemma `RowChanges`: in every step
a row stays, is inserted new, or becomes `Written` for some request; no such write puts a
final status without its stamp. `UnclockedWaitsAreTransferred` needs `ClockInv`: besides the
property, `RecordFirst`, that a transfer which has passed to its final write already has its
record. `OnlyReopenUnattends` is the action property from `ReqShape`: assign names an agent,
transfer sets agent and status together. `FindsMissOnlyWhatCameLater` needs `StaleInv`: every
outstanding lookup is `Covered`, that is, what it would now find is among what came late, a fact
that `Noted` maintains across every write of any handler.

**OmniDesk_proofs, the desk.** `DeskInv` puts three invariants side by side. `CoreInv` is what the
requests know of the tables. A step of a webhook or of an automation keeps it by one of two lemmas,
which say what another writer has to respect: `QuietKeeps` (it writes no row, and begins no lookup
but one that finds nothing) and `OtherWriteKeeps` (the row it writes exists, has its stamps, and
does not come to wait without a clock). `InboxInv` says what a delivery holds
(`DeliveryFits`); in particular that the status it will announce was an open one, because what it
found was open and what it inserted waits. So the events of requests and webhooks that start a run
on opening or on a message never show a closed conversation (`RequestNews`, `DeliveryKeeps`), and
`AutoInv` follows: a run whose payload is CLOSED has loaded, and will load, automations of closing
only (`RunFits`). That is `RevivedByRunOrAgent`; and since no action makes an unattended row of an
attended one (`ActedIsRow`), `DeskOnlyReopenLeavesUnattended` needs no more than `DeskRowChanges`,
which extends `RowChanges` to all three writers.

**WhatsappInbox_proofs.** `TInv` carries with the types what a delivery knows of its conversation
(`Attached`: it exists and is its sender's, on the number the body was sent to) and the same
of every stored row (`Placed`); rows are created but never re-addressed by webhooks. `ProgressInv` counts: no two
deliveries are the same attempt (`OneDeliveryEach`), every attempt is being handled or has ended
(`AllAccounted`), and what an attempt has stored are the first messages of its body, one row each,
all but possibly the last announced, in step with the `next` of its delivery (`InStep`).
`PrefixStoredWhereItBelongs` follows. `InboxKeepsContract` is the refinement: `attempts` is the
contract's view of the tables, the initial states correspond, and each step of the
handler is shown to be the contract's `Begin`, `Store`, `Announce` or `Break` of one attempt
(`IsBegin`, `IsStore`, ...), `InboxLost` its breaking of all open ones at once, and every
other step a stutter.

**Telephony_proofs.** For the connection one invariant `ConnInv` carries all: a dead process holds
nothing; answers are owed only on a standing connection, and at most one login is; a frame begun on
this connection ends on it; and what a lost connection left in the buffer meets the login's reply
first (`StaleBeforeLogin`). Together with the stated invariants it is inductive; `ConnectionKnown`
and `NoUntimedWait` are parts of it, `RequestsSettleOnce` and `TearsOnlyAtLogin` follow from it step
by step. For the calls, the invariant of `TableTrueUnlessUnanswered` relates a call that is
neither raced nor missed to its at most one handler in flight: the row is what the events so far
make of it, or the handler's remaining queries will make it so; `RevivalNeedsRace` adds that an ended, unraced
call has no handler left that could touch it. Both invariants hold wherever a half of the service
begins, also at `Standing`, and a step of one half leaves the other's variables alone: hence
`TelephonyKeepsItsWord` and `TelephonyStepsKeepTheirs` for the service.

**Presence_proofs.** `ListsFollowSockets` rests on `OnlineInv` (listed sockets live and are of
the user; unlisted living sockets are shadowed; every client's socket is alive),
`NoTabInForeignRoom` on `RoomInv`: replaying the emits under way on the rooms of the tab's socket
leaves no room but the selected one, which is what makes `NoForeignRoom` inductive.

**Sessions_proofs.** `OldPasswordsAreOut` is inductive with the types alone. `StoresAreWhole` needs
two facts more: `HandlersFit`, that a handler serves the kind of call it was started for and a
login that answers ok has a refresh token at hand, and `RefreshersAreIn`, that whoever refreshes
without a user signed out meanwhile.

**PbxConfig_proofs.** `DanglingIsRetired` needs `EditsInv`: besides the rows, whatever an edit in
flight has validated is `Known`, active or retired since, and rows point only at what their kind
may; that a route which is not `mismatched` afterwards has the destination that was validated is
read off `Written` and `Mismatches`. `LiveJumpsStayLanded` adds `ApplyInv`: every snapshot an apply may get is `WellAimed`, so what
it renders `Lands` (`RenderLands`, which is where it matters that sections and jumps come from one
snapshot); an apply that is alone finds in the files it has finished, and in Asterisk what it has
reloaded, its own text (`Fits`); at most one that handles files is alone; and when nothing is mixed
and nobody is at work, Asterisk has loaded what is in the files, and it lands (`Settled`). The
theorem is for any number of rows, edits and applies.

**TelegramInbox_proofs.** `AcknowledgedAreHandled` rests on `TelegramInv`: what a handler holds is
true of the tables and remains so (`Sound`), because contacts only grow and conversations never
change their contact (`Grows`, `KeepsPeople`); two handlers of one chat have crossed it
(`Crossings`), so that a handler which found no contact is either crossed or still right about it.
`Moves` says once what a step has to respect, and each action is shown to respect it.

**BackOffice_proofs.**

- `AnswersMatchLogs` from `Consistent`, which says of every stage of an execution what its log
  and the partner may have by then.
- `NumbersStaySound` from `PortsInv` (an update in flight has passed the check with the row it
  read) and `LogInv` (the log, and every log a test has read, holds each kept entry at a depth no
  greater than its age, up to the entries written since).
- `AgentsStayAccountedFor` from `Whole` (the chain since `since`, with what a single change in flight
  knows) and `RecordsInv` (whoever is being added or is a member was employed; softphone sessions).
- `FlowsStayTogether` is almost inductive: `FlowsInv` adds that an execution about to be created
  has not ended.
- `TypedStaysOrIsSent` needs of every send under way (`SendHolds`) that it carries what was
  entered, or went on after it had waited, and that since it began the input has held its text, nothing, or something typed
  meanwhile: otherwise the answer, which empties the input, could take what nobody sent.
- `ReportedWritesShow` says of every list that is not excused (`UpToDate`): what it shows at rest is
  as new as the last reported write, unless it is hidden and marked stale; and a fetch whose rows are
  read has read them after it. The answer to a write restarts the fetches of what is shown
  and marks the rest, so both survive it. The types need a count: writes carried out and writes
  under way are together no more than were made (`Uncarried`).
- `SavedIsMeant` follows a value on its way: rows, the list, the untyped part of the form and the
  payload of a save hold only what was meant for that row and field, a mask or a default (`RowsAreMeant`,
  `ListIsMeant`, `FormIsMeant`, `SaveIsMeant`). Typing is what makes a value meant;
  that an answer may close another row's form costs nothing, since a closed form is not sent.
- `BackOfficeTypeCorrect` and `BackOfficeKeepsItsWord` collect what is proved of the parts. They cite
  the lemma `BackOfficeRunsItsParts`: a step of the whole is one of the part that runs and leaves the
  others' variables alone.

Only model-checked: the liveness properties (`EventuallyAnswered`, `AutomationsSettle`,
`EventuallyConnected`, `RequestsEnd`, `EndedCallsLeave`), since liveness and ENABLED are outside the
prover's reach. `InboxKeepsContract` concerns the contract's safety part, which is all it has.

Two definitions are written for the provers and mean the same in another form: `Loaded` (with
`Selections`, `Sorted`) in place of a recursive filter, and the start of `meant` in `CrudForm` as a
union over rows.

## 7. What is not modelled

- Inbound WhatsApp: sending, and status receipts, which find messages by `externalId` while no
  outbound message ever gets one; the numbers' own CRUD. The model takes the
  set of registered numbers as fixed.
- Conversations: subject, priority, sector, metadata, notes; listing.
- Automations: the effects of sending, tagging and calling webhooks (one action that
  can reject stands for them); `runCount` (written, never read). Conditions are the status they
  test; keyword matching is a nondeterministic order of those that match.
- Gateway and desk: signing out and leaving the page while emits wait.
- AMI: a deployment with `ASTERISK_AMI_ENABLED=false`, which does none of this; two error
  events for one socket; frames are atomic but for one break.
- Calls: everything in a row but status and the two stamps; the re-emitted queue and agent
  events, which have no listener that keeps state.
- Gateway: broadcasts, which keep no state; the token check's failure, which leaves nothing.
- Sessions: the status that login and logout write (the steps are there, the column is in `Agents`);
  `getProfile`; access tokens are good or expired, and a deactivated account is refused by the
  guard but still gets access tokens from a refresh, as in the code. `changePassword` has no page
  and is called by whoever has a good access token.
- PBX: the readiness report, the list of recordings and the reading lists; the configuration texts
  beyond sections and destinations; the numbers that groups and queues ring.
- Telegram and integrations: contacts that are deleted under a webhook, `markSynced` (a time stamp
  nothing reads), the bodies of requests beyond the credentials they carry.
- Digital numbers: names, codecs, notes; the four signalling ports are one.
- Agents: names, avatars and sectors; the rows and statistics of the queues.
- Flows: what only the list of flows shows (`isActive`, `status`), texts and positions of nodes, and
  nested writes that the untyped body of a flow, node or execution could carry to Prisma.
- Pages: layout, filters, pagination; of lists only their age, of forms only one row at a time; what
  becomes of a save or send under way when its page is left or loaded again.
  The telephony page reads and dials; the dashboard reads.
- Messages: `create` stores an outbound message and hands it to nobody; one row, no interaction.
- Contacts: single rows; of the import the effect on phone numbers is in `PhoneTaken`, the loop itself
  is not modelled, nor is the row without a phone whose lookup matches anyone (a hazard without a
  property).
- Notifications, audit (its `create` has no caller), dashboard, reports and catalogues read or
  write single rows; the HTTP pipeline is stateless.

## 8. Plan

Done: ConversationStore, Conversations, InboxContract, WhatsappInbox, Automations, OmniDesk,
AmiConnection, CallTracking, Telephony, Presence, Sessions, PbxConfig, TelegramInbox, Integrations,
DigitalNumbers, Agents, Flows, CrudForm, PabxPage, DeskPage, and BackOffice over the last nine;
the proofs of all of them but for liveness.

Left, most important first:

1. The contract under the whole desk: deliveries keep `InboxContract` also while agents and
   automations write the conversations they store into. `ProgressInv` does not depend on whose the
   conversations are, so it should carry over to `DeskSpec`.
2. TelegramInbox as a second implementation of `InboxContract`.
3. **ContactsImport** - the import that `PhoneTaken` stands for, and its row without a phone.
4. TelegramInbox in OmniDesk: its messages start automations like those of WhatsApp.
