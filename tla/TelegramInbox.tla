---------------------------- MODULE TelegramInbox ----------------------------
(***************************************************************************)
(* Inbound Telegram updates: two webhook URLs, whose handlers answer with  *)
(* an error when anything fails, and IntegrationsService                   *)
(* .processTelegramWebhook with its awaited queries.  Telegram (external)  *)
(* posts an update again until it gets a 200, also when it lost patience   *)
(* with a delivery that is still being handled.  An administrator edits    *)
(* the row of the bot meanwhile, agents close and reopen conversations.    *)
(***************************************************************************)
EXTENDS Naturals, Sequences

CONSTANTS
  Update,         \* updates Telegram has for the bot
  Understood,     \* those that carry a message and a chat
  Chat,
  ChatOf,         \* [Update -> Chat]
  Receiver,       \* slots of webhook requests being handled
  MaxPosts,       \* deliveries in all
  MaxOthers,      \* steps of administrators and agents
  NoUpdate

ASSUME TelegramAssumption ==
  /\ Understood \subseteq Update
  /\ ChatOf \in [Update -> Chat]
  /\ MaxPosts \in Nat /\ MaxOthers \in Nat
  /\ NoUpdate \notin Update

VARIABLES
  bot,            \* the row of the integration
  people,         \* contacts with a Telegram externalId, which is not unique
  talks,          \* conversations of those contacts
  messages,       \* inbound messages: update and conversation
  announced,      \* those that message.received was emitted for
  receiver,       \* the requests being handled
  posts,          \* deliveries so far
  acked,          \* updates Telegram got a 200 for
  retyped,        \* the bot's row was of another type at some time
  others,         \* steps of administrators and agents so far
  crossed         \* chats of which two updates were handled at a time

telegramVars == <<bot, people, talks, messages, announced, receiver, posts,
                  acked, retyped, others, crossed>>

\* "accepted": the row has no webhookSecret, or the one that Telegram sends.
Bot == [active : BOOLEAN, telegram : BOOLEAN, accepted : BOOLEAN]

Resting == [at |-> "rest", update |-> NoUpdate, person |-> 0, talk |-> 0]

UpdateOf(r) == receiver[r].update
ChatHere(r) == ChatOf[UpdateOf(r)]

Moved(r, work) == receiver' = [receiver EXCEPT ![r] = work]

\* The handler goes on to the query "at".
GoesOn(r, at) == Moved(r, [receiver[r] EXCEPT !.at = at])

\* The answer is an error.
Refused(r) == Moved(r, Resting)

-----------------------------------------------------------------------------
\* To webhooks/integration/:id, which reads the row once more, or
\* webhooks/telegram/:id.
Post(r, u) ==
  /\ u \notin acked
  /\ posts < MaxPosts
  /\ receiver[r] = Resting
  /\ posts' = posts + 1
  /\ \E at \in {"route", "bot"} : Moved(r, [Resting EXCEPT !.at = at, !.update = u])
  /\ crossed' = IF \E o \in Receiver : receiver[o] # Resting /\ ChatHere(o) = ChatOf[u]
                  THEN crossed \cup {ChatOf[u]} ELSE crossed
  /\ UNCHANGED <<bot, people, talks, messages, announced, acked, retyped, others>>

\* An integration that is no bot only logs the body.
Dispatch(r) ==
  /\ receiver[r].at = "route"
  /\ CASE ~ bot.active  -> Refused(r)
       [] bot.telegram  -> GoesOn(r, "bot")
       [] OTHER         -> GoesOn(r, "ignore")
  /\ UNCHANGED <<bot, people, talks, messages, announced, posts, acked, retyped, others, crossed>>

ReadBot(r) ==
  /\ receiver[r].at = "bot"
  /\ CASE ~ bot.active -> Refused(r)
       [] bot.active /\ ~ bot.telegram -> GoesOn(r, "ignore")
       [] bot.active /\ bot.telegram /\ ~ bot.accepted -> Refused(r)
       [] OTHER -> GoesOn(r, IF UpdateOf(r) \in Understood THEN "find" ELSE "ignore")
  /\ UNCHANGED <<bot, people, talks, messages, announced, posts, acked, retyped, others, crossed>>

\* findFirst has no order: any contact of the chat.
FindPerson(r) ==
  /\ receiver[r].at = "find"
  /\ LET found == {p \in DOMAIN people : people[p] = ChatHere(r)} IN
       \E p \in IF found = {} THEN {0} ELSE found :
         Moved(r, [receiver[r] EXCEPT !.at = "person", !.person = p])
  /\ UNCHANGED <<bot, people, talks, messages, announced, posts, acked, retyped, others, crossed>>

SavePerson(r) ==
  /\ receiver[r].at = "person"
  /\ people' = IF receiver[r].person = 0 THEN Append(people, ChatHere(r)) ELSE people
  /\ Moved(r, [receiver[r] EXCEPT !.at = "talk",
                 !.person = IF @ = 0 THEN Len(people') ELSE @])
  /\ UNCHANGED <<bot, talks, messages, announced, posts, acked, retyped, others, crossed>>

\* Faulty variant: the conversation is looked up without its contact.
FindAnyTalk(r) ==
  /\ receiver[r].at = "talk"
  /\ LET found == {t \in DOMAIN talks : talks[t].open} IN
       IF found = {} THEN GoesOn(r, "open")
       ELSE \E t \in found : Moved(r, [receiver[r] EXCEPT !.at = "store", !.talk = t])
  /\ UNCHANGED <<bot, people, talks, messages, announced, posts, acked, retyped, others, crossed>>

FindTalk(r) ==
  /\ receiver[r].at = "talk"
  /\ LET found == {t \in DOMAIN talks : talks[t].open /\ talks[t].person = receiver[r].person} IN
       IF found = {} THEN GoesOn(r, "open")
       ELSE \E t \in found : Moved(r, [receiver[r] EXCEPT !.at = "store", !.talk = t])
  /\ UNCHANGED <<bot, people, talks, messages, announced, posts, acked, retyped, others, crossed>>

OpenTalk(r) ==
  /\ receiver[r].at = "open"
  /\ talks' = Append(talks, [person |-> receiver[r].person, open |-> TRUE])
  /\ Moved(r, [receiver[r] EXCEPT !.at = "store", !.talk = Len(talks')])
  /\ UNCHANGED <<bot, people, messages, announced, posts, acked, retyped, others, crossed>>

Arrived(r) == [update |-> UpdateOf(r), talk |-> receiver[r].talk]

StoreMessage(r) ==
  /\ receiver[r].at = "store"
  /\ messages' = messages \cup {Arrived(r)}
  /\ GoesOn(r, "touch")
  /\ UNCHANGED <<bot, people, talks, announced, posts, acked, retyped, others, crossed>>

TouchTalk(r) ==
  /\ receiver[r].at = "touch"
  /\ GoesOn(r, "log")
  /\ UNCHANGED <<bot, people, talks, messages, announced, posts, acked, retyped, others, crossed>>

\* recordWebhook(); the event and the 200 follow in the same step.
RecordWebhook(r) ==
  /\ receiver[r].at \in {"log", "ignore"}
  /\ announced' = IF receiver[r].at = "log" THEN announced \cup {Arrived(r)} ELSE announced
  /\ \/ acked' = acked \cup {UpdateOf(r)}
     \/ UNCHANGED acked        \* the answer is lost
  /\ Refused(r)
  /\ UNCHANGED <<bot, people, talks, messages, posts, retyped, others, crossed>>

\* Faulty variant: the error is logged and 200 answered, as for WhatsApp.
ReceiveSwallows(r) ==
  /\ receiver[r] # Resting
  /\ Refused(r)
  /\ acked' = acked \cup {UpdateOf(r)}
  /\ UNCHANGED <<bot, people, talks, messages, announced, posts, retyped, others, crossed>>

\* A query rejects.
ReceiveFails(r) ==
  /\ receiver[r] # Resting
  /\ Refused(r)
  /\ UNCHANGED <<bot, people, talks, messages, announced, posts, acked, retyped, others, crossed>>

ReceiversDie ==
  /\ receiver' = [r \in Receiver |-> Resting]
  /\ UNCHANGED <<bot, people, talks, messages, announced, posts, acked, retyped, others, crossed>>

\* update(), upsert() or delete() of the integration.
EditBot ==
  /\ others < MaxOthers
  /\ others' = others + 1
  /\ bot' \in Bot
  /\ retyped' = (retyped \/ ~ bot'.telegram)
  /\ UNCHANGED <<people, talks, messages, announced, receiver, posts, acked, crossed>>

\* An agent resolves, closes or reopens a conversation.
TurnTalk(t) ==
  /\ others < MaxOthers
  /\ others' = others + 1
  /\ talks' = [talks EXCEPT ![t].open = ~ @]
  /\ UNCHANGED <<bot, people, messages, announced, receiver, posts, acked, retyped, crossed>>

TelegramInit ==
  /\ bot = [active |-> TRUE, telegram |-> TRUE, accepted |-> TRUE]
  /\ people = <<>> /\ talks = <<>>
  /\ messages = {} /\ announced = {}
  /\ receiver = [r \in Receiver |-> Resting]
  /\ posts = 0 /\ others = 0
  /\ acked = {} /\ retyped = FALSE /\ crossed = {}

Receiving(r) ==
  \/ \E u \in Update : Post(r, u)
  \/ Dispatch(r) \/ ReadBot(r)
  \/ FindPerson(r) \/ SavePerson(r)
  \/ FindTalk(r) \/ OpenTalk(r)
  \/ StoreMessage(r) \/ TouchTalk(r) \/ RecordWebhook(r)
  \/ ReceiveFails(r)

TelegramNext ==
  \/ \E r \in Receiver : Receiving(r)
  \/ ReceiversDie
  \/ EditBot
  \/ \E t \in DOMAIN talks : TurnTalk(t)

TelegramSpec == TelegramInit /\ [][TelegramNext]_telegramVars

TelegramTypeOK ==
  /\ bot \in Bot
  /\ people \in Seq(Chat)
  /\ talks \in Seq([person : DOMAIN people, open : BOOLEAN])
  /\ messages \subseteq [update : Understood, talk : DOMAIN talks]
  /\ announced \subseteq messages
  /\ receiver \in [Receiver ->
       [at : {"rest", "route", "bot", "ignore", "find", "person", "talk", "open",
              "store", "touch", "log"},
        update : Update \cup {NoUpdate}, person : Nat, talk : Nat]]
  /\ posts \in 0..MaxPosts
  /\ acked \subseteq Update
  /\ retyped \in BOOLEAN
  /\ others \in 0..MaxOthers
  /\ crossed \subseteq Chat
-----------------------------------------------------------------------------
Handled(u) ==
  \E m \in announced : m.update = u /\ people[talks[m.talk].person] = ChatOf[u]

(***************************************************************************)
(* An update that Telegram will not send again has been stored and         *)
(* announced in a conversation of the one who wrote it, unless nothing can *)
(* be made of it or the row was not a bot's for a while: errors, a death   *)
(* of the process and overlapping deliveries lose none.  A sender gets a   *)
(* second contact only if two of his updates were handled at a time.       *)
(***************************************************************************)
AcknowledgedIsHandled ==
  /\ \A u \in acked \cap Understood : Handled(u) \/ retyped
  /\ \A p, q \in DOMAIN people :
       people[p] = people[q] => p = q \/ people[p] \in crossed
=============================================================================
