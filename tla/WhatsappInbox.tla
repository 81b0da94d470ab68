---------------------------- MODULE WhatsappInbox ----------------------------
(***************************************************************************)
(* Inbound WhatsApp messages: the webhook controller, which answers 200    *)
(* whatever happens, and WhatsappService.processIncomingWebhook, which     *)
(* handles the messages of a body one after the other, each by awaited     *)
(* queries.  The provider (Meta) is external: it may deliver a     *)
(* body again, also while an earlier attempt is still being handled, until *)
(* its patience (MaxTries) is over.                                        *)
(*                                                                         *)
(* The provider sends receipts in bodies of their own; a body here carries *)
(* messages.  Only the first change of the first entry of a body is looked *)
(* at, so Batch holds the messages of that one; a body with more of them   *)
(* is acknowledged for those all the same.  A contact is identified with   *)
(* the whatsappId of its sender.                                           *)
(***************************************************************************)
EXTENDS ConversationStore, Naturals, Sequences, FiniteSets

CONSTANTS
  Delivery,       \* slots of webhook requests being handled
  Webhook,        \* bodies the provider has to deliver
  Message,        \* the messages in them
  Batch,          \* [Webhook -> the sequence of its messages]
  ToNumber,       \* [Webhook -> the number it was sent to]
  Sender,         \* [Message -> the contact that wrote it]
  Registered,     \* the numbers that have a whatsapp_numbers row
  PhoneTaken,     \* senders whose phone belongs to an imported contact
  MaxTries        \* deliveries of one body

ASSUME InboxAssumption ==
  /\ Delivery \subseteq Handler
  /\ Batch \in [Webhook -> Seq(Message)]
  /\ \A w \in Webhook :
       /\ Batch[w] # <<>>
       /\ \A i, j \in DOMAIN Batch[w] : Batch[w][i] = Batch[w][j] => i = j
  /\ ToNumber \in [Webhook -> Number]
  /\ Sender \in [Message -> Contact]
  /\ Registered \subseteq Number /\ PhoneTaken \subseteq Contact
  /\ MaxTries \in Nat \ {0}

VARIABLES
  dlv,            \* the deliveries being handled
  known,          \* contacts that have a row with their whatsappId
  tries,          \* deliveries of each body so far
  ended,          \* how each delivery ended
  stored,         \* inbound rows of the messages table
  heard           \* those that message.received was emitted for

inboxVars == <<dlv, known, tries, ended, stored, heard>>

Try == 1..MaxTries

DlvRec == [at     : {"idle", "contact", "find", "insert", "store", "touch"},
           hook   : Webhook \cup {None},
           try    : 0..MaxTries,
           next   : Nat,
           conv   : Conversation \cup {None},
           status : Status]

Free == [at |-> "idle", hook |-> None, try |-> 0, next |-> 0, conv |-> None,
         status |-> "WAITING"]

\* A row of the messages table: its message, and the delivery that stored it.
Copy == [msg : Message, hook : Webhook, try : Try, conv : Conversation]

\* "swallowed": an exception was logged and 200 answered all the same;
\* "lost": the process died, so the provider got no answer.
End == [hook : Webhook, try : Try,
        how : {"handled", "unknown_number", "swallowed", "lost"}]

InboxInit ==
  /\ dlv = [d \in Delivery |-> Free]
  /\ known = {}
  /\ tries = [w \in Webhook |-> 0]
  /\ ended = {}
  /\ stored = {}
  /\ heard = {}

InboxTypeOK ==
  /\ dlv \in [Delivery -> DlvRec]
  /\ known \subseteq Contact
  /\ tries \in [Webhook -> 0..MaxTries]
  /\ ended \subseteq End
  /\ stored \subseteq Copy
  /\ heard \subseteq stored

Answered(w) == \E e \in ended : e.hook = w /\ e.how # "lost"

CurrentMsg(d) == Batch[dlv[d].hook][dlv[d].next]
From(d)       == Sender[CurrentMsg(d)]

-----------------------------------------------------------------------------
\* The provider posts the body; the controller looks its number up.
Deliver(d, w) ==
  /\ tries[w] < MaxTries
  /\ dlv[d] = Free
  /\ tries' = [tries EXCEPT ![w] = @ + 1]
  /\ IF ToNumber[w] \in Registered
       THEN /\ dlv' = [dlv EXCEPT ![d] = [Free EXCEPT !.at = "contact", !.hook = w,
                                            !.try = tries[w] + 1, !.next = 1]]
            /\ UNCHANGED ended
       ELSE /\ ended' = ended \cup {[hook |-> w, try |-> tries[w] + 1,
                                     how |-> "unknown_number"]}
            /\ UNCHANGED dlv
  /\ Silent
  /\ UNCHANGED <<conv, lookup, known, stored, heard>>

\* Faulty variant: a failed delivery counts as handled.
FinishHandled(d, how) ==
  /\ dlv' = [dlv EXCEPT ![d] = Free]
  /\ ended' = ended \cup {[hook |-> dlv[d].hook, try |-> dlv[d].try,
                           how |-> "handled"]}

Finish(d, how) ==
  /\ dlv' = [dlv EXCEPT ![d] = Free]
  /\ ended' = ended \cup {[hook |-> dlv[d].hook, try |-> dlv[d].try, how |-> how]}

\* The number of the body is looked up once more for every message, which is
\* part of this step: rows of numbers stay, so it is found, and a query that
\* rejects does so before anything is written, as Swallow has it here.
\* contact.upsert: the INSERT breaks the unique (organization, phone) when an
\* imported contact has the sender's phone, and the query rejects.
UpsertContact(d) ==
  /\ dlv[d].at = "contact"
  /\ From(d) \in known \/ From(d) \notin PhoneTaken
  /\ known' = known \cup {From(d)}
  /\ dlv' = [dlv EXCEPT ![d].at = "find"]
  /\ Silent
  /\ UNCHANGED <<conv, lookup, tries, ended, stored, heard>>

InboxWhere(d) ==
  [contact |-> From(d), channel |-> "WHATSAPP", number |-> ToNumber[dlv[d].hook]]

\* Faulty variant: a conversation is created whatever the lookup finds.
AlwaysNew(d) ==
  /\ dlv[d].at = "find"
  /\ dlv' = [dlv EXCEPT ![d].at = "insert"]
  /\ BeginLookup(d, InboxWhere(d))
  /\ Silent
  /\ UNCHANGED <<conv, known, tries, ended, stored, heard>>

FindConversation(d) ==
  /\ dlv[d].at = "find"
  /\ \/ \E c \in Found(InboxWhere(d)) :
          /\ dlv' = [dlv EXCEPT ![d].at = "store", ![d].conv = c,
                                ![d].status = conv[c].status]
          /\ UNCHANGED lookup
     \/ /\ Found(InboxWhere(d)) = {}
        /\ dlv' = [dlv EXCEPT ![d].at = "insert"]
        /\ BeginLookup(d, InboxWhere(d))
  /\ Silent
  /\ UNCHANGED <<conv, known, tries, ended, stored, heard>>

CommitConversation(d, c) ==
  /\ dlv[d].at = "insert"
  /\ Insert(d, c, NewRow(From(d), "WHATSAPP", ToNumber[dlv[d].hook], None))

InsertConversation(d, c) ==
  /\ CommitConversation(d, c)
  /\ dlv' = [dlv EXCEPT ![d].at = "store", ![d].conv = c, ![d].status = "WAITING"]
  /\ Emit("conversation.created", c, "WAITING")
  /\ UNCHANGED <<known, tries, ended, stored, heard>>

CopyOf(d) == [msg |-> CurrentMsg(d), hook |-> dlv[d].hook, try |-> dlv[d].try,
              conv |-> dlv[d].conv]

\* Faulty variant: the message is announced without having been stored.
StoreNothing(d) ==
  /\ dlv[d].at = "store"
  /\ dlv' = [dlv EXCEPT ![d].at = "touch"]
  /\ Silent
  /\ UNCHANGED <<conv, lookup, known, tries, ended, stored, heard>>

StoreMessage(d) ==
  /\ dlv[d].at = "store"
  /\ stored' = stored \cup {CopyOf(d)}
  /\ dlv' = [dlv EXCEPT ![d].at = "touch"]
  /\ Silent
  /\ UNCHANGED <<conv, lookup, known, tries, ended, heard>>

\* On to the next message of the body, if there is one.
NextMessage(d) ==
  IF dlv[d].next < Len(Batch[dlv[d].hook])
    THEN /\ dlv' = [dlv EXCEPT ![d].at = "contact", ![d].next = @ + 1,
                               ![d].conv = None, ![d].status = "WAITING"]
         /\ UNCHANGED ended
    ELSE Finish(d, "handled")

\* lastMessageAt is written; then the event, and on to the next message.
TouchConversation(d) ==
  /\ dlv[d].at = "touch"
  /\ heard' = heard \cup {CopyOf(d)}
  /\ Emit("message.received", dlv[d].conv, dlv[d].status)
  /\ NextMessage(d)
  /\ UNCHANGED <<conv, lookup, known, tries, stored>>

\* Faulty variant: an error costs one message and not the rest of the body.
SkipMessage(d) ==
  /\ dlv[d].at # "idle"
  /\ NextMessage(d)
  /\ lookup' = [lookup EXCEPT ![d] = None]
  /\ Silent
  /\ UNCHANGED <<conv, known, tries, stored, heard>>

\* Faulty variant: the upsert of the contact is outside the try block.
SwallowLater(d) ==
  /\ dlv[d].at \notin {"idle", "contact"}
  /\ Finish(d, "swallowed")
  /\ lookup' = [lookup EXCEPT ![d] = None]
  /\ Silent
  /\ UNCHANGED <<conv, known, tries, stored, heard>>

\* A query of the handler rejects, perhaps after it was committed: the
\* controller logs it and answers ok.
Swallow(d) ==
  /\ dlv[d].at # "idle"
  /\ Finish(d, "swallowed")
  /\ \/ /\ lookup' = [lookup EXCEPT ![d] = None]
        /\ UNCHANGED conv
     \/ \E c \in Conversation : CommitConversation(d, c)
  /\ Silent
  /\ UNCHANGED <<known, tries, stored, heard>>

Handle(d) ==
  \/ UpsertContact(d)
  \/ FindConversation(d)
  \/ \E c \in Conversation : InsertConversation(d, c)
  \/ StoreMessage(d)
  \/ TouchConversation(d)

InboxStep ==
  \E d \in Delivery :
    \/ \E w \in Webhook : Deliver(d, w)
    \/ Handle(d)
    \/ Swallow(d)

\* The process dies: its deliveries are never answered.
InboxLost ==
  /\ dlv' = [d \in Delivery |-> Free]
  /\ ended' = ended \cup {[hook |-> dlv[d].hook, try |-> dlv[d].try, how |-> "lost"] :
                            d \in {x \in Delivery : dlv[x].at # "idle"}}
  /\ UNCHANGED <<known, tries, stored, heard>>

Crash ==
  /\ InboxLost
  /\ lookup' = [h \in Handler |-> None]
  /\ Silent
  /\ UNCHANGED conv

Init == StoreInit /\ InboxInit
Next == InboxStep \/ Crash
vars == <<storeVars, inboxVars>>
Spec == Init /\ [][Next]_vars

(***************************************************************************)
(* Fairness: a query that was sent is answered (or rejects), and the       *)
(* provider redelivers a body it got no answer for.  Crashes are not fair. *)
(***************************************************************************)
Unanswered(d, w) == ~ Answered(w) /\ (\A x \in Delivery : dlv[x].hook # w) /\ Deliver(d, w)

FairSpec ==
  /\ Spec
  /\ \A d \in Delivery : WF_vars(Handle(d) \/ Swallow(d))
  /\ \A w \in Webhook : WF_vars(\E d \in Delivery : Unanswered(d, w))

TypeOK == StoreTypeOK /\ InboxTypeOK
-----------------------------------------------------------------------------
StoredBy(w, n) == {c \in stored : c.hook = w /\ c.try = n}
MsgsOf(copies) == {c.msg : c \in copies}

\* The messages are handled in order, the first failure stops the loop, and
\* each makes one row.
StoresAPrefix ==
  \A w \in Webhook, n \in Try :
    \E k \in 0..Len(Batch[w]) :
      /\ MsgsOf(StoredBy(w, n)) = {Batch[w][i] : i \in 1..k}
      /\ Cardinality(StoredBy(w, n)) = k

InSendersConversation ==
  \A c \in stored :
    /\ conv[c.conv].contact = Sender[c.msg]
    /\ conv[c.conv].number = ToNumber[c.hook]

(***************************************************************************)
(* However a delivery ends, what it leaves behind is a prefix of its       *)
(* batch, each message once, in a conversation of the contact that wrote   *)
(* it on the number it was sent to: deliveries that are handled at the     *)
(* same time do not mix their senders, and an error skips nothing.         *)
(***************************************************************************)
StoredWhereItBelongs == StoresAPrefix /\ InSendersConversation

(***************************************************************************)
(* Each delivery keeps the promise of InboxContract: one message stored    *)
(* and announced at a time, nothing skipped, "handled" only when all of    *)
(* the batch has been, and at most the last stored message unannounced     *)
(* when a delivery breaks.                                                 *)
(***************************************************************************)
Stage(w, n) ==
  IF \E d \in Delivery : dlv[d].hook = w /\ dlv[d].try = n THEN "open"
  ELSE IF [hook |-> w, try |-> n, how |-> "handled"] \in ended THEN "handled"
  ELSE IF [hook |-> w, try |-> n, how |-> "unknown_number"] \in ended THEN "ignored"
  ELSE IF \E e \in ended : e.hook = w /\ e.try = n THEN "broken"
  ELSE "new"

Contract == INSTANCE InboxContract WITH
  Size    <- [w \in Webhook |-> Len(Batch[w])],
  attempt <- [w \in Webhook |-> [n \in Try |->
                [stage  |-> Stage(w, n),
                 stored |-> Cardinality(StoredBy(w, n)),
                 heard  |-> Cardinality(StoredBy(w, n) \cap heard)]]]

KeepsContract == Contract!Spec

(***************************************************************************)
(* Every body is answered in the end, unless the process died under every  *)
(* one of its deliveries.                                                  *)
(***************************************************************************)
EventuallyAnswered ==
  \A w \in Webhook :
    <>(\/ Answered(w)
       \/ tries[w] = MaxTries /\ \A d \in Delivery : dlv[d].hook # w)
=============================================================================
