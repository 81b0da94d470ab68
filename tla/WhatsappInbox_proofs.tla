------------------------ MODULE WhatsappInbox_proofs ------------------------
(***************************************************************************)
(* Proofs about WhatsappInbox for any bodies, senders and numbers, any     *)
(* number of deliveries of each body and of slots to handle them in.       *)
(***************************************************************************)
EXTENDS WhatsappInbox, FiniteSetTheorems, SequenceTheorems, TLAPS

-----------------------------------------------------------------------------
(* Types, and where the deliveries stand                                   *)

Handling(d) == dlv[d].at # "idle"

\* Delivery d is attempt n of body w.
Carries(d, w, n) == Handling(d) /\ dlv[d].hook = w /\ dlv[d].try = n

\* The message is about to be stored in, or has just gone into, a conversation
\* of its sender on the number it was sent to.
Attached(d) ==
  /\ dlv[d].conv \in Conversation
  /\ Exists(dlv[d].conv)
  /\ conv[dlv[d].conv].contact = From(d)
  /\ conv[dlv[d].conv].number = ToNumber[dlv[d].hook]

DeliveryShape ==
  \A d \in Delivery :
    /\ ~ Handling(d) => dlv[d] = Free
    /\ Handling(d) =>
         /\ dlv[d].hook \in Webhook
         /\ dlv[d].try \in 1..tries[dlv[d].hook]
         /\ dlv[d].next \in 1..Len(Batch[dlv[d].hook])
    /\ dlv[d].at \in {"store", "touch"} => Attached(d)
    /\ dlv[d].at = "touch" => CopyOf(d) \in stored

\* What stands in the table is where it belongs.
Placed ==
  \A c \in stored :
    /\ Exists(c.conv)
    /\ conv[c.conv].contact = Sender[c.msg]
    /\ conv[c.conv].number = ToNumber[c.hook]

TInv == TypeOK /\ DeliveryShape /\ Placed

-----------------------------------------------------------------------------
(* What the operators of the store return.                                 *)

\* Taking note of a write keeps the outstanding lookups typed.
LEMMA NotedIsTyped ==
  ASSUME lookup \in [Handler -> Lookup \cup {None}], NEW c \in Conversation, NEW row
  PROVE  Noted(c, row) \in [Handler -> Lookup \cup {None}]
<1> SUFFICES ASSUME NEW h \in Handler, lookup[h] # None
             PROVE  [lookup[h] EXCEPT !.late = @ \cup {c}] \in Lookup
  BY DEF Noted
<1>1. lookup[h] \in Lookup
  OBVIOUS
<1> QED
  BY <1>1 DEF Lookup

\* The message that an open delivery is at.
LEMMA CurrentIsTyped ==
  ASSUME TInv, NEW d \in Delivery, Handling(d)
  PROVE  /\ dlv[d].hook \in Webhook /\ dlv[d].try \in Try /\ dlv[d].next \in Nat
         /\ dlv[d].next \in DOMAIN Batch[dlv[d].hook]
         /\ Len(Batch[dlv[d].hook]) \in Nat
         /\ CurrentMsg(d) \in Message /\ From(d) \in Contact
         /\ ToNumber[dlv[d].hook] \in Number
<1>1. /\ dlv[d].hook \in Webhook /\ dlv[d].try \in 1..tries[dlv[d].hook]
      /\ dlv[d].next \in 1..Len(Batch[dlv[d].hook])
  BY DEF TInv, DeliveryShape
<1>2. tries[dlv[d].hook] \in 0..MaxTries /\ MaxTries \in Nat
  BY <1>1, InboxAssumption DEF TInv, TypeOK, InboxTypeOK
<1>3. Batch[dlv[d].hook] \in Seq(Message)
  BY <1>1, InboxAssumption
<1>4. /\ Len(Batch[dlv[d].hook]) \in Nat
      /\ DOMAIN Batch[dlv[d].hook] = 1..Len(Batch[dlv[d].hook])
      /\ CurrentMsg(d) \in Message
  BY <1>1, <1>3 DEF CurrentMsg
<1> QED
  BY <1>1, <1>2, <1>4, InboxAssumption DEF From, Try

\* An INSERT writes a row of the sender, and touches no other.
LEMMA CommitTyped ==
  ASSUME TInv, NEW d \in Delivery, NEW c \in Conversation, CommitConversation(d, c)
  PROVE  /\ conv' \in [Conversation -> Row]
         /\ lookup' \in [Handler -> Lookup \cup {None}]
         /\ \A x \in Conversation : Exists(x) => x # c /\ conv'[x] = conv[x]
         /\ Exists(c)'
         /\ conv'[c].contact = From(d) /\ conv'[c].number = ToNumber[dlv[d].hook]
<1> DEFINE new == NewRow(From(d), "WHATSAPP", ToNumber[dlv[d].hook], None)
<1>1. Handling(d)
  BY DEF CommitConversation, Handling
<1>2. From(d) \in Contact /\ ToNumber[dlv[d].hook] \in Number
  BY <1>1, CurrentIsTyped
<1>3. /\ new \in Row /\ new.status = "WAITING"
      /\ new.contact = From(d) /\ new.number = ToNumber[dlv[d].hook]
  BY <1>2 DEF NewRow, Absent, Row, Status, OpenStatus, Channel
<1>4. /\ conv[c].status = "ABSENT"
      /\ conv' = [conv EXCEPT ![c] = new]
      /\ lookup' = [Noted(c, new) EXCEPT ![d] = None]
  BY DEF CommitConversation, Insert, Exists
<1> HIDE DEF new
<1>5. Noted(c, new) \in [Handler -> Lookup \cup {None}]
  BY NotedIsTyped DEF TInv, TypeOK, StoreTypeOK
<1> QED
  BY <1>3, <1>4, <1>5 DEF TInv, TypeOK, StoreTypeOK, Exists

-----------------------------------------------------------------------------
(* Type correctness, action by action                                      *)

\* What any step of one delivery must see to.
LEMMA MoveKeeps ==
  ASSUME TInv, NEW d \in Delivery, NEW r \in DlvRec, dlv' = [dlv EXCEPT ![d] = r],
         conv' \in [Conversation -> Row],
         \A x \in Conversation : Exists(x) => conv'[x] = conv[x],
         lookup' \in [Handler -> Lookup \cup {None}], emitted' \in Event \cup {None},
         known' \subseteq Contact, ended' \subseteq End,
         tries' \in [Webhook -> 0..MaxTries], \A w \in Webhook : tries[w] <= tries'[w],
         stored \subseteq stored', stored' \subseteq Copy, heard' \subseteq stored',
         r.at = "idle" => r = Free,
         r.at # "idle" => /\ r.hook \in Webhook /\ r.try \in 1..tries'[r.hook]
                          /\ r.next \in 1..Len(Batch[r.hook]),
         r.at \in {"store", "touch"} =>
           /\ r.conv \in Conversation /\ conv'[r.conv].status # "ABSENT"
           /\ conv'[r.conv].contact = Sender[Batch[r.hook][r.next]]
           /\ conv'[r.conv].number = ToNumber[r.hook],
         r.at = "touch" => [msg |-> Batch[r.hook][r.next], hook |-> r.hook, try |-> r.try,
                            conv |-> r.conv] \in stored',
         \A c \in stored' \ stored :
           /\ conv'[c.conv].status # "ABSENT"
           /\ conv'[c.conv].contact = Sender[c.msg]
           /\ conv'[c.conv].number = ToNumber[c.hook]
  PROVE  TInv'
<1> USE DEF Exists
<1>1. TypeOK'
  BY DEF TInv, TypeOK, StoreTypeOK, InboxTypeOK
<1>2. dlv \in [Delivery -> DlvRec] /\ stored \subseteq Copy
  BY DEF TInv, TypeOK, InboxTypeOK
<1>3. Placed'
  <2> SUFFICES ASSUME NEW c \in stored'
               PROVE  /\ conv'[c.conv].status # "ABSENT"
                      /\ conv'[c.conv].contact = Sender[c.msg]
                      /\ conv'[c.conv].number = ToNumber[c.hook]
    BY DEF Placed
  <2>1. CASE c \in stored
    <3>1. c.conv \in Conversation
      BY <2>1, <1>2 DEF Copy
    <3> QED
      BY <2>1, <3>1 DEF TInv, Placed
  <2> QED
    BY <2>1
<1>4. DeliveryShape'
  <2> SUFFICES ASSUME NEW x \in Delivery PROVE
        /\ dlv'[x].at = "idle" => dlv'[x] = Free
        /\ dlv'[x].at # "idle" => /\ dlv'[x].hook \in Webhook
                                  /\ dlv'[x].try \in 1..tries'[dlv'[x].hook]
                                  /\ dlv'[x].next \in 1..Len(Batch[dlv'[x].hook])
        /\ dlv'[x].at \in {"store", "touch"} =>
             /\ dlv'[x].conv \in Conversation /\ conv'[dlv'[x].conv].status # "ABSENT"
             /\ conv'[dlv'[x].conv].contact = Sender[Batch[dlv'[x].hook][dlv'[x].next]]
             /\ conv'[dlv'[x].conv].number = ToNumber[dlv'[x].hook]
        /\ dlv'[x].at = "touch" =>
             [msg |-> Batch[dlv'[x].hook][dlv'[x].next], hook |-> dlv'[x].hook,
              try |-> dlv'[x].try, conv |-> dlv'[x].conv] \in stored'
    BY DEF DeliveryShape, Handling, Attached, From, CurrentMsg, CopyOf
  <2>1. CASE x = d
    <3>1. dlv'[x] = r
      BY <1>2, <2>1
    <3> QED
      BY <3>1
  <2>2. CASE x # d
    <3>1. dlv'[x] = dlv[x]
      BY <1>2, <2>2
    <3>2. dlv[x].at = "idle" => dlv[x] = Free
      BY DEF TInv, DeliveryShape, Handling
    <3>3. dlv[x].at # "idle" =>
            /\ dlv[x].hook \in Webhook /\ dlv[x].try \in 1..tries'[dlv[x].hook]
            /\ dlv[x].next \in 1..Len(Batch[dlv[x].hook])
      <4> SUFFICES ASSUME dlv[x].at # "idle"
                   PROVE  /\ dlv[x].hook \in Webhook
                          /\ dlv[x].try \in 1..tries'[dlv[x].hook]
                          /\ dlv[x].next \in 1..Len(Batch[dlv[x].hook])
        OBVIOUS
      <4>1. /\ dlv[x].hook \in Webhook /\ dlv[x].try \in 1..tries[dlv[x].hook]
            /\ dlv[x].next \in 1..Len(Batch[dlv[x].hook])
        BY DEF TInv, DeliveryShape, Handling
      <4>2. /\ tries[dlv[x].hook] \in Nat /\ tries'[dlv[x].hook] \in Nat
            /\ tries[dlv[x].hook] <= tries'[dlv[x].hook]
        BY <4>1, InboxAssumption DEF TInv, TypeOK, InboxTypeOK
      <4> QED
        BY <4>1, <4>2
    <3>4. dlv[x].at \in {"store", "touch"} =>
            /\ dlv[x].conv \in Conversation /\ conv'[dlv[x].conv].status # "ABSENT"
            /\ conv'[dlv[x].conv].contact = Sender[Batch[dlv[x].hook][dlv[x].next]]
            /\ conv'[dlv[x].conv].number = ToNumber[dlv[x].hook]
      BY DEF TInv, DeliveryShape, Attached, From, CurrentMsg
    <3>5. dlv[x].at = "touch" =>
            [msg |-> Batch[dlv[x].hook][dlv[x].next], hook |-> dlv[x].hook,
             try |-> dlv[x].try, conv |-> dlv[x].conv] \in stored'
      BY DEF TInv, DeliveryShape, CopyOf, CurrentMsg
    <3> QED
      BY <3>1, <3>2, <3>3, <3>4, <3>5
  <2> QED
    BY <2>1, <2>2
<1> QED
  BY <1>1, <1>3, <1>4 DEF TInv

\* The same for a step within one message.
LEMMA SameMessageKeeps ==
  ASSUME TInv, NEW d \in Delivery, Handling(d),
         NEW r \in DlvRec, dlv' = [dlv EXCEPT ![d] = r],
         r.at # "idle", r.hook = dlv[d].hook, r.try = dlv[d].try, r.next = dlv[d].next,
         conv' \in [Conversation -> Row],
         \A x \in Conversation : Exists(x) => conv'[x] = conv[x],
         lookup' \in [Handler -> Lookup \cup {None}], emitted' \in Event \cup {None},
         known' \subseteq Contact, UNCHANGED <<ended, tries, heard>>,
         r.at \in {"store", "touch"} =>
           /\ r.conv \in Conversation /\ conv'[r.conv].status # "ABSENT"
           /\ conv'[r.conv].contact = From(d)
           /\ conv'[r.conv].number = ToNumber[dlv[d].hook],
         \/ stored' = stored /\ r.at # "touch"
         \/ /\ stored' = stored \cup {CopyOf(d)} /\ CopyOf(d) \in Copy
            /\ r.at = "touch" /\ r.conv = dlv[d].conv
  PROVE  TInv'
<1>1. /\ dlv[d].hook \in Webhook /\ dlv[d].try \in 1..tries[dlv[d].hook]
      /\ dlv[d].next \in 1..Len(Batch[dlv[d].hook])
  BY DEF TInv, DeliveryShape
<1>2. /\ tries' \in [Webhook -> 0..MaxTries] /\ \A x \in Webhook : tries[x] <= tries'[x]
      /\ ended' \subseteq End /\ heard' \subseteq stored
  BY InboxAssumption DEF TInv, TypeOK, InboxTypeOK
<1>3. stored \subseteq stored' /\ stored' \subseteq Copy
  BY DEF TInv, TypeOK, InboxTypeOK
<1>4. r.at = "touch" => [msg |-> Batch[r.hook][r.next], hook |-> r.hook, try |-> r.try,
                         conv |-> r.conv] \in stored'
  BY DEF CopyOf, CurrentMsg
<1>5. \A c \in stored' \ stored : /\ c.msg = Batch[r.hook][r.next] /\ c.hook = r.hook
                                  /\ c.conv = r.conv /\ r.at = "touch"
  BY DEF CopyOf, CurrentMsg
<1>6. r.at \in {"store", "touch"} => conv'[r.conv].contact = Sender[Batch[r.hook][r.next]]
  BY DEF From, CurrentMsg
<1>7. /\ r.hook \in Webhook /\ r.try \in 1..tries'[r.hook]
      /\ r.next \in 1..Len(Batch[r.hook])
  BY <1>1
<1>8. \A c \in stored' \ stored :
        /\ conv'[c.conv].status # "ABSENT"
        /\ conv'[c.conv].contact = Sender[c.msg]
        /\ conv'[c.conv].number = ToNumber[c.hook]
  BY <1>5, <1>6
<1> QED
  BY <1>2, <1>3, <1>4, <1>6, <1>7, <1>8, MoveKeeps

\* A step that leaves the tables alone and moves a delivery on.
LEMMA FreeIsTyped == Free \in DlvRec /\ Free.at = "idle"
BY InboxAssumption DEF Free, DlvRec, Status, OpenStatus

LEMMA RunOn ==
  ASSUME TInv, NEW d \in Delivery, Handling(d)
  PROVE  /\ dlv[d] \in DlvRec /\ dlv \in [Delivery -> DlvRec]
         /\ dlv[d].hook \in Webhook /\ dlv[d].try \in 1..tries[dlv[d].hook]
         /\ dlv[d].next \in 1..Len(Batch[dlv[d].hook])
         /\ d \in Handler
BY InboxAssumption DEF TInv, TypeOK, InboxTypeOK, DeliveryShape

LEMMA FirstIsTyped ==
  ASSUME NEW w \in Webhook, NEW n \in 0..MaxTries
  PROVE  LET new == [Free EXCEPT !.at = "contact", !.hook = w, !.try = n, !.next = 1]
         IN  /\ new.at = "contact" /\ new.hook = w /\ new.try = n /\ new.next = 1
             /\ new \in DlvRec
BY FreeIsTyped DEF DlvRec

LEMMA DeliverKeeps ==
  ASSUME TInv, NEW d \in Delivery, NEW w \in Webhook, Deliver(d, w)
  PROVE  TInv'
<1> DEFINE new == [Free EXCEPT !.at = "contact", !.hook = w, !.try = tries[w] + 1, !.next = 1]
           r == IF ToNumber[w] \in Registered THEN new ELSE Free
<1>0. /\ tries[w] \in Nat /\ tries[w] < MaxTries /\ MaxTries \in Nat
      /\ tries' = [tries EXCEPT ![w] = @ + 1] /\ dlv[d] = Free
      /\ UNCHANGED <<conv, lookup, known, stored, heard>> /\ emitted' = None
  BY InboxAssumption DEF Deliver, Silent, TInv, TypeOK, InboxTypeOK
<1>1. Len(Batch[w]) \in Nat /\ 1 \in 1..Len(Batch[w])
  <2>1. Batch[w] \in Seq(Message) /\ Batch[w] # <<>>
    BY InboxAssumption
  <2> QED
    BY <2>1, EmptySeq
<1>2. /\ new.at = "contact" /\ new.hook = w /\ new.try = tries[w] + 1 /\ new.next = 1
      /\ new \in DlvRec
  <2>1. tries[w] + 1 \in 0..MaxTries
    BY <1>0
  <2> QED
    BY <2>1, FirstIsTyped, Zenon
<1>3. dlv' = [dlv EXCEPT ![d] = r]
  <2>1. dlv \in [Delivery -> DlvRec]
    BY DEF TInv, TypeOK, InboxTypeOK
  <2> QED
    BY <1>0, <2>1 DEF Deliver
<1>4. ended' \subseteq End
  <2> DEFINE e == [hook |-> w, try |-> tries[w] + 1, how |-> "unknown_number"]
  <2>1. e \in End
    BY <1>0 DEF End, Try
  <2>2. ended' = ended \/ ended' = ended \cup {e}
    BY DEF Deliver
  <2> QED
    BY <2>1, <2>2 DEF TInv, TypeOK, InboxTypeOK
<1>5. /\ tries' \in [Webhook -> 0..MaxTries] /\ \A x \in Webhook : tries[x] <= tries'[x]
      /\ tries'[w] = tries[w] + 1
  BY <1>0 DEF TInv, TypeOK, InboxTypeOK
<1> HIDE DEF new
<1>6. /\ r \in DlvRec /\ (r.at = "idle" => r = Free) /\ r.at \notin {"store", "touch"}
      /\ r.at # "idle" => /\ r.hook \in Webhook /\ r.try \in 1..tries'[r.hook]
                          /\ r.next \in 1..Len(Batch[r.hook])
  BY <1>0, <1>1, <1>2, <1>5, FreeIsTyped
<1> HIDE DEF r
<1> QED
  BY <1>0, <1>3, <1>4, <1>5, <1>6, MoveKeeps DEF TInv, TypeOK, StoreTypeOK, InboxTypeOK

\* The queries of the handler: what each does to its delivery.
LEMMA UpsertKeeps ==
  ASSUME TInv, NEW d \in Delivery, UpsertContact(d)
  PROVE  TInv'
<1> DEFINE r == [dlv[d] EXCEPT !.at = "find"]
<1>0. /\ dlv[d].at = "contact" /\ known' = known \cup {From(d)}
      /\ dlv' = [dlv EXCEPT ![d].at = "find"] /\ emitted' = None
      /\ UNCHANGED <<conv, lookup, tries, ended, stored, heard>>
  BY DEF UpsertContact, Silent
<1>1. Handling(d)
  BY <1>0 DEF Handling
<1>2. From(d) \in Contact
  BY <1>1, CurrentIsTyped
<1>3. dlv[d] \in DlvRec /\ dlv \in [Delivery -> DlvRec]
  BY <1>1, RunOn
<1>4. r \in DlvRec /\ r.at = "find" /\ r.hook = dlv[d].hook /\ r.try = dlv[d].try
      /\ r.next = dlv[d].next /\ dlv' = [dlv EXCEPT ![d] = r]
  BY <1>0, <1>3 DEF DlvRec
<1> HIDE DEF r
<1> QED
  BY <1>0, <1>1, <1>2, <1>4, SameMessageKeeps DEF TInv, TypeOK, StoreTypeOK, InboxTypeOK

LEMMA FindKeeps ==
  ASSUME TInv, NEW d \in Delivery, FindConversation(d)
  PROVE  TInv'
<1> DEFINE w == InboxWhere(d)
<1>0. /\ dlv[d].at = "find" /\ emitted' = None
      /\ UNCHANGED <<conv, known, tries, ended, stored, heard>>
  BY DEF FindConversation, Silent
<1>1. Handling(d)
  BY <1>0 DEF Handling
<1>2. dlv[d] \in DlvRec /\ dlv \in [Delivery -> DlvRec]
  BY <1>1, RunOn
<1>4. w \in Where /\ w.contact = From(d) /\ w.number = ToNumber[dlv[d].hook]
      /\ w.number # None
  BY <1>1, CurrentIsTyped, NoneAssumption DEF InboxWhere, Where, Channel
<1> HIDE DEF w
<1>5. ASSUME NEW c \in Found(w), UNCHANGED lookup,
             dlv' = [dlv EXCEPT ![d].at = "store", ![d].conv = c, ![d].status = conv[c].status]
      PROVE  TInv'
  <2> DEFINE r == [dlv[d] EXCEPT !.at = "store", !.conv = c, !.status = conv[c].status]
  <2>1. /\ c \in Conversation /\ conv[c].status \in OpenStatus
        /\ conv[c].contact = From(d) /\ conv[c].number = ToNumber[dlv[d].hook]
    BY <1>4 DEF Found, Selects
  <2>2. conv[c].status \in Status /\ conv[c].status # "ABSENT"
    BY <2>1 DEF Status, OpenStatus
  <2>3. /\ r \in DlvRec /\ r.at = "store" /\ r.hook = dlv[d].hook /\ r.try = dlv[d].try
        /\ r.next = dlv[d].next /\ r.conv = c /\ dlv' = [dlv EXCEPT ![d] = r]
    BY <1>2, <1>5, <2>1, <2>2 DEF DlvRec
  <2> HIDE DEF r
  <2> QED
    BY <1>0, <1>1, <1>5, <2>1, <2>2, <2>3, SameMessageKeeps
       DEF TInv, TypeOK, StoreTypeOK, InboxTypeOK
<1>6. ASSUME dlv' = [dlv EXCEPT ![d].at = "insert"], BeginLookup(d, w)
      PROVE  TInv'
  <2> DEFINE r == [dlv[d] EXCEPT !.at = "insert"]
  <2>1. /\ r \in DlvRec /\ r.at = "insert" /\ r.hook = dlv[d].hook /\ r.try = dlv[d].try
        /\ r.next = dlv[d].next /\ dlv' = [dlv EXCEPT ![d] = r]
    BY <1>2, <1>6 DEF DlvRec
  <2> HIDE DEF r
  <2>2. lookup' \in [Handler -> Lookup \cup {None}]
    <3>1. [where |-> w, late |-> {}] \in Lookup
      BY <1>4 DEF Lookup
    <3> QED
      BY <1>6, <3>1 DEF BeginLookup, TInv, TypeOK, StoreTypeOK
  <2> QED
    BY <1>0, <1>1, <2>1, <2>2, SameMessageKeeps
       DEF TInv, TypeOK, StoreTypeOK, InboxTypeOK
<1> QED
  BY <1>5, <1>6 DEF FindConversation, w

LEMMA InsertKeeps ==
  ASSUME TInv, NEW d \in Delivery, NEW c \in Conversation, InsertConversation(d, c)
  PROVE  TInv'
<1> DEFINE r == [dlv[d] EXCEPT !.at = "store", !.conv = c, !.status = "WAITING"]
<1>0. /\ dlv[d].at = "insert" /\ CommitConversation(d, c)
      /\ UNCHANGED <<known, tries, ended, stored, heard>>
      /\ dlv' = [dlv EXCEPT ![d].at = "store", ![d].conv = c, ![d].status = "WAITING"]
  BY DEF InsertConversation, CommitConversation
<1>1. Handling(d)
  BY <1>0 DEF Handling
<1>2. dlv[d] \in DlvRec /\ dlv \in [Delivery -> DlvRec]
  BY <1>1, RunOn
<1>4. emitted' \in Event
  BY DEF InsertConversation, Emit, Event, EventType, Status, OpenStatus
<1>5. /\ r \in DlvRec /\ r.at = "store" /\ r.hook = dlv[d].hook /\ r.try = dlv[d].try
      /\ r.next = dlv[d].next /\ r.conv = c /\ dlv' = [dlv EXCEPT ![d] = r]
  BY <1>0, <1>2 DEF DlvRec, Status, OpenStatus
<1> HIDE DEF r
<1>6. /\ conv' \in [Conversation -> Row]
      /\ lookup' \in [Handler -> Lookup \cup {None}]
      /\ \A x \in Conversation : Exists(x) => conv'[x] = conv[x]
      /\ conv'[c].status # "ABSENT"
      /\ conv'[c].contact = From(d) /\ conv'[c].number = ToNumber[dlv[d].hook]
  BY <1>0, CommitTyped DEF Exists
<1> QED
  BY <1>0, <1>1, <1>4, <1>5, <1>6, SameMessageKeeps DEF TInv, TypeOK, InboxTypeOK

LEMMA CopyIsTyped ==
  ASSUME TInv, NEW d \in Delivery, dlv[d].at \in {"store", "touch"}
  PROVE  /\ CopyOf(d) \in Copy
         /\ CopyOf(d).msg = CurrentMsg(d) /\ CopyOf(d).hook = dlv[d].hook
         /\ CopyOf(d).try = dlv[d].try /\ CopyOf(d).conv = dlv[d].conv
         /\ Attached(d)
<1>1. Handling(d) /\ Attached(d)
  BY DEF Handling, TInv, DeliveryShape
<1> QED
  BY <1>1, CurrentIsTyped DEF CopyOf, Copy, Attached

LEMMA StoreKeeps ==
  ASSUME TInv, NEW d \in Delivery, StoreMessage(d)
  PROVE  TInv'
<1> DEFINE r == [dlv[d] EXCEPT !.at = "touch"]
<1>0. /\ dlv[d].at = "store" /\ stored' = stored \cup {CopyOf(d)}
      /\ dlv' = [dlv EXCEPT ![d].at = "touch"] /\ emitted' = None
      /\ UNCHANGED <<conv, lookup, known, tries, ended, heard>>
  BY DEF StoreMessage, Silent
<1>1. Handling(d)
  BY <1>0 DEF Handling
<1>2. dlv[d] \in DlvRec /\ dlv \in [Delivery -> DlvRec]
  BY <1>1, RunOn
<1>4. /\ CopyOf(d) \in Copy
      /\ CopyOf(d).msg = CurrentMsg(d) /\ CopyOf(d).hook = dlv[d].hook
      /\ CopyOf(d).conv = dlv[d].conv /\ Attached(d)
  BY <1>0, CopyIsTyped
<1>5. /\ r \in DlvRec /\ r.at = "touch" /\ r.hook = dlv[d].hook /\ r.try = dlv[d].try
      /\ r.next = dlv[d].next /\ r.conv = dlv[d].conv /\ dlv' = [dlv EXCEPT ![d] = r]
  BY <1>0, <1>2 DEF DlvRec
<1> HIDE DEF r
<1> QED
  BY <1>0, <1>1, <1>4, <1>5, SameMessageKeeps
     DEF TInv, TypeOK, StoreTypeOK, InboxTypeOK, Attached, Exists

\* A delivery that ends is free again.
LEMMA FinishKeeps ==
  ASSUME TInv, NEW d \in Delivery, Handling(d), NEW how \in {"handled", "swallowed"},
         Finish(d, how),
         conv' \in [Conversation -> Row],
         \A x \in Conversation : Exists(x) => conv'[x] = conv[x],
         lookup' \in [Handler -> Lookup \cup {None}], emitted' \in Event \cup {None},
         UNCHANGED <<known, tries, stored>>, heard' \subseteq stored
  PROVE  TInv'
<1>1. [hook |-> dlv[d].hook, try |-> dlv[d].try, how |-> how] \in End
  BY CurrentIsTyped DEF End
<1>2. dlv' = [dlv EXCEPT ![d] = Free] /\ ended' \subseteq End
  BY <1>1 DEF Finish, TInv, TypeOK, InboxTypeOK
<1>3. tries' \in [Webhook -> 0..MaxTries] /\ \A x \in Webhook : tries[x] <= tries'[x]
  BY InboxAssumption DEF TInv, TypeOK, InboxTypeOK
<1>4. known' \subseteq Contact /\ stored' \subseteq Copy /\ stored' = stored
  BY DEF TInv, TypeOK, InboxTypeOK
<1> QED
  BY <1>2, <1>3, <1>4, FreeIsTyped, MoveKeeps

LEMMA TouchKeeps ==
  ASSUME TInv, NEW d \in Delivery, TouchConversation(d)
  PROVE  TInv'
<1>0. /\ dlv[d].at = "touch" /\ heard' = heard \cup {CopyOf(d)}
      /\ Emit("message.received", dlv[d].conv, dlv[d].status) /\ NextMessage(d)
      /\ UNCHANGED <<conv, lookup, known, tries, stored>>
  BY DEF TouchConversation
<1>1. Handling(d)
  BY <1>0 DEF Handling
<1>2. dlv[d] \in DlvRec /\ dlv \in [Delivery -> DlvRec] /\ Attached(d)
  BY <1>0, <1>1, RunOn, CopyIsTyped
<1>3. emitted' \in Event
  BY <1>0, <1>2 DEF Emit, Event, EventType, DlvRec, Attached
<1>4. heard' \subseteq stored
  BY <1>0 DEF TInv, TypeOK, InboxTypeOK, DeliveryShape
<1>5. CASE Finish(d, "handled")
  BY <1>0, <1>1, <1>3, <1>4, <1>5, FinishKeeps DEF TInv, TypeOK, StoreTypeOK
<1>6. CASE ~ Finish(d, "handled")
  <2> DEFINE r == [dlv[d] EXCEPT !.at = "contact", !.next = @ + 1, !.conv = None,
                                 !.status = "WAITING"]
  <2>1. /\ dlv[d].next < Len(Batch[dlv[d].hook]) /\ UNCHANGED ended
        /\ dlv' = [dlv EXCEPT ![d].at = "contact", ![d].next = @ + 1,
                              ![d].conv = None, ![d].status = "WAITING"]
    BY <1>0, <1>6 DEF NextMessage
  <2>2. /\ dlv[d].hook \in Webhook /\ dlv[d].try \in 1..tries[dlv[d].hook]
        /\ dlv[d].next \in Nat /\ dlv[d].next \in 1..Len(Batch[dlv[d].hook])
        /\ Len(Batch[dlv[d].hook]) \in Nat
    BY <1>1, CurrentIsTyped, RunOn
  <2>3. dlv[d].next + 1 \in 1..Len(Batch[dlv[d].hook])
    BY <2>1, <2>2
  <2>4. /\ r \in DlvRec /\ r.at = "contact" /\ r.hook = dlv[d].hook /\ r.try = dlv[d].try
        /\ r.next = dlv[d].next + 1 /\ dlv' = [dlv EXCEPT ![d] = r]
    BY <1>2, <2>1, <2>2 DEF DlvRec, Status, OpenStatus
  <2> HIDE DEF r
  <2>5. /\ r.hook \in Webhook /\ r.try \in 1..tries'[r.hook]
        /\ r.next \in 1..Len(Batch[r.hook])
    BY <1>0, <2>2, <2>3, <2>4
  <2>6. tries' \in [Webhook -> 0..MaxTries] /\ \A x \in Webhook : tries[x] <= tries'[x]
    BY <1>0, InboxAssumption DEF TInv, TypeOK, InboxTypeOK
  <2>7. /\ conv' \in [Conversation -> Row] /\ conv' = conv
        /\ lookup' \in [Handler -> Lookup \cup {None}]
        /\ known' \subseteq Contact /\ ended' \subseteq End /\ stored' \subseteq Copy
        /\ stored' = stored
    BY <1>0, <2>1 DEF TInv, TypeOK, StoreTypeOK, InboxTypeOK
  <2> QED
    BY <1>3, <1>4, <2>4, <2>5, <2>6, <2>7, MoveKeeps
<1> QED
  BY <1>5, <1>6

LEMMA SwallowKeeps ==
  ASSUME TInv, NEW d \in Delivery, Swallow(d)
  PROVE  TInv'
<1>1. /\ Handling(d) /\ Finish(d, "swallowed") /\ emitted' = None
      /\ UNCHANGED <<known, tries, stored, heard>>
  BY DEF Swallow, Handling, Silent
<1>2. heard' \subseteq stored
  BY <1>1 DEF TInv, TypeOK, InboxTypeOK
<1>3. CASE lookup' = [lookup EXCEPT ![d] = None] /\ UNCHANGED conv
  <2>1. /\ conv' \in [Conversation -> Row] /\ conv' = conv
        /\ lookup' \in [Handler -> Lookup \cup {None}]
    BY <1>3 DEF TInv, TypeOK, StoreTypeOK
  <2> QED
    BY <1>1, <1>2, <2>1, FinishKeeps
<1>4. ASSUME NEW c \in Conversation, CommitConversation(d, c) PROVE TInv'
  <2>1. /\ conv' \in [Conversation -> Row]
        /\ lookup' \in [Handler -> Lookup \cup {None}]
        /\ \A x \in Conversation : Exists(x) => conv'[x] = conv[x]
    BY <1>4, CommitTyped
  <2> QED
    BY <1>1, <1>2, <2>1, FinishKeeps
<1> QED
  BY <1>3, <1>4 DEF Swallow

LEMMA CrashKeeps ==
  ASSUME TInv, Crash
  PROVE  TInv'
<1>0. /\ dlv' = [d \in Delivery |-> Free] /\ lookup' = [h \in Handler |-> None]
      /\ emitted' = None /\ UNCHANGED <<conv, known, tries, stored, heard>>
  BY DEF Crash, InboxLost, Silent
<1>1. ended' \subseteq End
  <2>1. \A d \in Delivery : dlv[d].at # "idle" =>
          [hook |-> dlv[d].hook, try |-> dlv[d].try, how |-> "lost"] \in End
    BY CurrentIsTyped DEF End, Handling
  <2> QED
    BY <2>1 DEF Crash, InboxLost, TInv, TypeOK, InboxTypeOK
<1>2. TypeOK'
  BY <1>0, <1>1, FreeIsTyped DEF TInv, TypeOK, StoreTypeOK, InboxTypeOK
<1>3. DeliveryShape'
  BY <1>0, FreeIsTyped DEF DeliveryShape, Handling
<1>4. Placed'
  BY <1>0 DEF TInv, Placed, Exists
<1> QED
  BY <1>2, <1>3, <1>4 DEF TInv

LEMMA TypeStep == TInv /\ [Next]_vars => TInv'
<1> SUFFICES ASSUME TInv, [Next]_vars PROVE TInv'
  OBVIOUS
<1>1. CASE InboxStep
  <2>1. PICK d \in Delivery : \/ \E w \in Webhook : Deliver(d, w)
                              \/ Handle(d)
                              \/ Swallow(d)
    BY <1>1 DEF InboxStep
  <2> QED
    BY <2>1, DeliverKeeps, UpsertKeeps, FindKeeps, InsertKeeps, StoreKeeps, TouchKeeps,
       SwallowKeeps DEF Handle
<1>2. CASE UNCHANGED vars
  BY <1>2 DEF vars, storeVars, inboxVars, TInv, TypeOK, StoreTypeOK, InboxTypeOK,
              DeliveryShape, Placed, Handling, Attached, Exists, From, CurrentMsg, CopyOf
<1> QED
  BY <1>1, <1>2, CrashKeeps DEF Next

LEMMA TypeInit == Init => TInv
<1> SUFFICES ASSUME Init PROVE TInv
  OBVIOUS
<1>1. Absent \in Row
  BY DEF Absent, Row
<1>2. TypeOK
  BY <1>1, FreeIsTyped, InboxAssumption
     DEF Init, StoreInit, InboxInit, TypeOK, StoreTypeOK, InboxTypeOK
<1>3. DeliveryShape /\ Placed
  BY FreeIsTyped DEF Init, InboxInit, DeliveryShape, Placed, Handling
<1> QED
  BY <1>2, <1>3 DEF TInv

LEMMA TInvHolds == Spec => []TInv
BY TypeInit, TypeStep, PTL DEF Spec

\* However deliveries overlap and die, the tables and the deliveries keep their
\* types: no message is stored for a body, a try or a conversation there is not.
THEOREM TypeCorrect == Spec => []TypeOK
BY TInvHolds, PTL DEF TInv

\* Deliveries that are handled at the same time do not mix their senders.
THEOREM StoredForItsSender == Spec => []InSendersConversation
<1>1. TInv => InSendersConversation
  BY DEF TInv, Placed, InSendersConversation
<1> QED
  BY <1>1, TInvHolds, PTL

-----------------------------------------------------------------------------
(* What each attempt has stored and announced                              *)

\* No two deliveries are the same attempt, and none that has ended goes on.
OneDeliveryEach ==
  /\ \A d, e \in Delivery :
       Handling(d) /\ Carries(e, dlv[d].hook, dlv[d].try) => d = e
  /\ \A e \in ended :
       /\ e.try <= tries[e.hook]
       /\ \A d \in Delivery : ~ Carries(d, e.hook, e.try)

\* Every attempt made is being handled or has ended.
AllAccounted ==
  \A w \in Webhook : \A n \in 1..tries[w] :
    \/ \E d \in Delivery : Carries(d, w, n)
    \/ \E e \in ended : e.hook = w /\ e.try = n

\* How many messages attempt n of body w has stored, and how many of those it
\* has announced.
HeardBy(w, n) == StoredBy(w, n) \cap heard
Count(w, n)   == Cardinality(StoredBy(w, n))
Told(w, n)    == Cardinality(HeardBy(w, n))

\* The stored messages are the first ones of the body, each in one row.
APrefix(w, n) ==
  /\ IsFiniteSet(StoredBy(w, n))
  /\ Count(w, n) \in 0..Len(Batch[w])
  /\ MsgsOf(StoredBy(w, n)) = {Batch[w][i] : i \in 1..Count(w, n)}

\* All before the current message has been stored and announced, and the
\* current one stored when only the touch is left.
InStep(d, w, n) ==
  /\ Count(w, n) = IF dlv[d].at = "touch" THEN dlv[d].next ELSE dlv[d].next - 1
  /\ Told(w, n) = dlv[d].next - 1
  /\ dlv[d].at = "touch" => CopyOf(d) \notin heard

Progress ==
  \A w \in Webhook, n \in Try :
    /\ APrefix(w, n)
    /\ n > tries[w] => StoredBy(w, n) = {}
    /\ \A d \in Delivery : Carries(d, w, n) => InStep(d, w, n)

ProgressInv == OneDeliveryEach /\ AllAccounted /\ Progress

IInv == TInv /\ ProgressInv

\* An attempt whose rows and announcements a step leaves alone.
LEMMA SameRows ==
  ASSUME NEW w, NEW n, UNCHANGED <<StoredBy(w, n), HeardBy(w, n)>>
  PROVE  /\ APrefix(w, n)' <=> APrefix(w, n)
         /\ Count(w, n)' = Count(w, n) /\ Told(w, n)' = Told(w, n)
BY DEF APrefix, MsgsOf, Count, Told

\* A delivery at its next point: the other attempts, and their deliveries, are
\* left alone, and its own is in step again.
LEMMA OwnAttemptMoves ==
  ASSUME IInv, TInv', NEW d \in Delivery, NEW r,
         NEW w \in Webhook, NEW n \in Try, Carries(d, w, n),
         dlv' = [dlv EXCEPT ![d] = r], r.at # "idle",
         r.hook = w, r.try = n, UNCHANGED <<tries, ended>>,
         \A v \in Webhook, m \in Try :
           ~ (v = w /\ m = n) => UNCHANGED <<StoredBy(v, m), HeardBy(v, m)>>,
         \A c \in stored : c \in heard' => c \in heard \/ c = CopyOf(d),
         APrefix(w, n)', InStep(d, w, n)'
  PROVE  IInv'
<1>1. dlv \in [Delivery -> DlvRec] /\ ended \subseteq End
  BY DEF IInv, TInv, TypeOK, InboxTypeOK
<1>2. dlv'[d] = r /\ \A x \in Delivery \ {d} : dlv'[x] = dlv[x]
  BY <1>1
<1>3. \A x \in Delivery : \A v, m : Carries(x, v, m)' <=> Carries(x, v, m)
  BY <1>2 DEF Carries, Handling
<1>4. \A x \in Delivery : Handling(x)' => /\ Handling(x) /\ dlv'[x].hook = dlv[x].hook
                                         /\ dlv'[x].try = dlv[x].try
  BY <1>2 DEF Handling, Carries
<1>5. OneDeliveryEach'
  BY <1>3, <1>4 DEF IInv, ProgressInv, OneDeliveryEach
<1>6. AllAccounted'
  BY <1>3 DEF IInv, ProgressInv, AllAccounted
<1>7. ASSUME NEW v \in Webhook, NEW m \in Try
      PROVE  /\ APrefix(v, m)'
             /\ m > tries'[v] => StoredBy(v, m)' = {}
             /\ \A x \in Delivery : Carries(x, v, m)' => InStep(x, v, m)'
  <2>1. CASE ~ (v = w /\ m = n)
    <3>1. UNCHANGED <<StoredBy(v, m), HeardBy(v, m)>>
      BY <2>1
    <3>2. APrefix(v, m)' /\ (m > tries'[v] => StoredBy(v, m)' = {})
      BY <3>1, SameRows DEF IInv, ProgressInv, Progress
    <3>3. ASSUME NEW x \in Delivery, Carries(x, v, m)' PROVE InStep(x, v, m)'
      <4>1. x # d /\ Carries(x, v, m)
        BY <1>3, <2>1, <3>3 DEF Carries
      <4>2. dlv'[x] = dlv[x] /\ InStep(x, v, m)
        BY <1>2, <4>1 DEF IInv, ProgressInv, Progress
      <4>3. CopyOf(x)' = CopyOf(x)
        BY <4>2 DEF CopyOf, CurrentMsg
      <4>4. dlv[x].at = "touch" => CopyOf(x) \in stored /\ CopyOf(x) # CopyOf(d)
        BY <2>1, <4>1 DEF IInv, TInv, DeliveryShape, CopyOf, Carries
      <4> QED
        BY <3>1, <4>2, <4>3, <4>4, SameRows DEF InStep
    <3> QED
      BY <3>2, <3>3
  <2>2. CASE v = w /\ m = n
    <3>1. m <= tries[v] /\ m \in Nat /\ tries[v] \in Nat
      BY <2>2, InboxAssumption
         DEF IInv, TInv, TypeOK, InboxTypeOK, DeliveryShape, Carries
    <3>2. \A x \in Delivery : Carries(x, v, m) => x = d
      BY <2>2 DEF IInv, ProgressInv, OneDeliveryEach, Carries
    <3> QED
      BY <1>3, <2>2, <3>1, <3>2
  <2> QED
    BY <2>1, <2>2
<1>8. Progress'
  BY <1>7 DEF Progress
<1> QED
  BY <1>5, <1>6, <1>8 DEF IInv, ProgressInv

\* The attempt that a delivery is, and how far it has come.
LEMMA OwnAttempt ==
  ASSUME IInv, NEW d \in Delivery, Handling(d)
  PROVE  /\ dlv[d].hook \in Webhook /\ dlv[d].try \in Try
         /\ dlv[d].try <= tries[dlv[d].hook]
         /\ Carries(d, dlv[d].hook, dlv[d].try)
         /\ APrefix(dlv[d].hook, dlv[d].try) /\ InStep(d, dlv[d].hook, dlv[d].try)
<1>1. dlv[d].hook \in Webhook /\ dlv[d].try \in Try /\ dlv[d].try \in 1..tries[dlv[d].hook]
  BY CurrentIsTyped DEF IInv, TInv, DeliveryShape
<1>2. Carries(d, dlv[d].hook, dlv[d].try)
  BY DEF Carries
<1>3. \A w \in Webhook, n \in Try :
        APrefix(w, n) /\ (Carries(d, w, n) => InStep(d, w, n))
  BY DEF IInv, ProgressInv, Progress
<1> QED
  BY <1>1, <1>2, <1>3

\* A query before the message is stored.
LEMMA QueryMoves ==
  ASSUME IInv, TInv', NEW d \in Delivery, NEW r, Handling(d),
         dlv[d].at # "touch", dlv' = [dlv EXCEPT ![d] = r], r.at \notin {"idle", "touch"},
         r.hook = dlv[d].hook, r.try = dlv[d].try, r.next = dlv[d].next,
         UNCHANGED <<tries, ended, stored, heard>>
  PROVE  IInv'
<1>1. PICK w \in Webhook, n \in Try : /\ w = dlv[d].hook /\ n = dlv[d].try
                                      /\ Carries(d, w, n) /\ APrefix(w, n) /\ InStep(d, w, n)
  BY OwnAttempt
<1>2. \A v \in Webhook, m \in Try : UNCHANGED <<StoredBy(v, m), HeardBy(v, m)>>
  BY DEF StoredBy, HeardBy
<1>3. APrefix(w, n)'
  BY <1>1, <1>2, SameRows
<1>4. dlv'[d] = r
  BY DEF IInv, TInv, TypeOK, InboxTypeOK
<1>5. InStep(d, w, n)'
  <2>1. Count(w, n)' = Count(w, n) /\ Told(w, n)' = Told(w, n)
    BY <1>2, SameRows
  <2> QED
    BY <1>1, <1>4, <2>1 DEF InStep
<1> QED
  BY <1>1, <1>2, <1>3, <1>5, OwnAttemptMoves

\* The row of the current message is a new one, and the next of the prefix.
LEMMA StoreGrows ==
  ASSUME IInv, NEW d \in Delivery, dlv[d].at = "store",
         stored' = stored \cup {CopyOf(d)}, heard' = heard,
         NEW w \in Webhook, NEW n \in Try, w = dlv[d].hook, n = dlv[d].try
  PROVE  /\ CopyOf(d) \notin stored /\ CopyOf(d).hook = w /\ CopyOf(d).try = n
         /\ Count(w, n)' = Count(w, n) + 1 /\ Count(w, n)' = dlv[d].next
         /\ APrefix(w, n)'
         /\ \A v \in Webhook, m \in Try :
              /\ UNCHANGED HeardBy(v, m)
              /\ ~ (v = w /\ m = n) => UNCHANGED StoredBy(v, m)
<1>1. /\ Handling(d) /\ APrefix(w, n) /\ InStep(d, w, n)
  BY OwnAttempt DEF Handling
<1>2. /\ CopyOf(d) \in Copy /\ CopyOf(d).msg = Batch[w][dlv[d].next]
      /\ CopyOf(d).hook = w /\ CopyOf(d).try = n
  BY CopyIsTyped DEF IInv, CurrentMsg
<1>3. /\ dlv[d].next \in Nat /\ Len(Batch[w]) \in Nat
      /\ dlv[d].next \in 1..Len(Batch[w])
      /\ Batch[w] \in Seq(Message)
  BY <1>1, CurrentIsTyped, InboxAssumption DEF IInv, TInv, DeliveryShape
<1>4. Count(w, n) = dlv[d].next - 1
  BY <1>1 DEF InStep
<1>5. CopyOf(d) \notin stored
  <2> SUFFICES ASSUME CopyOf(d) \in stored PROVE FALSE
    OBVIOUS
  <2>1. CopyOf(d).msg \in MsgsOf(StoredBy(w, n))
    BY <1>2 DEF MsgsOf, StoredBy
  <2>2. PICK i \in 1..(dlv[d].next - 1) : Batch[w][dlv[d].next] = Batch[w][i]
    BY <1>1, <1>2, <1>4, <2>1 DEF APrefix
  <2>3. i \in DOMAIN Batch[w] /\ dlv[d].next \in DOMAIN Batch[w] /\ i # dlv[d].next
    BY <1>3
  <2> QED
    BY <2>2, <2>3, InboxAssumption
<1>6. /\ StoredBy(w, n)' = StoredBy(w, n) \cup {CopyOf(d)}
      /\ CopyOf(d) \notin StoredBy(w, n)
  BY <1>2, <1>5 DEF StoredBy
<1>7. /\ IsFiniteSet(StoredBy(w, n)') /\ Cardinality(StoredBy(w, n)') = Count(w, n) + 1
  BY <1>1, <1>6, FS_AddElement DEF APrefix, Count
<1>8. Count(w, n)' = dlv[d].next
  BY <1>3, <1>4, <1>7 DEF Count
<1>9. MsgsOf(StoredBy(w, n))' = {Batch[w][i] : i \in 1..dlv[d].next}
  <2>1. MsgsOf(StoredBy(w, n)) = {Batch[w][i] : i \in 1..(dlv[d].next - 1)}
    BY <1>1, <1>4 DEF APrefix
  <2>2. MsgsOf(StoredBy(w, n))' = MsgsOf(StoredBy(w, n)) \cup {Batch[w][dlv[d].next]}
    BY <1>2, <1>6 DEF MsgsOf
  <2>3. 1..dlv[d].next = 1..(dlv[d].next - 1) \cup {dlv[d].next}
    BY <1>3
  <2> QED
    BY <2>1, <2>2, <2>3
<1>10. APrefix(w, n)'
  BY <1>3, <1>7, <1>8, <1>9 DEF APrefix
<1>11. ASSUME NEW v \in Webhook, NEW m \in Try
       PROVE  /\ UNCHANGED HeardBy(v, m)
              /\ ~ (v = w /\ m = n) => UNCHANGED StoredBy(v, m)
  BY <1>2, <1>5 DEF HeardBy, StoredBy, IInv, TInv, TypeOK, InboxTypeOK
<1> QED
  BY <1>2, <1>4, <1>5, <1>7, <1>8, <1>10, <1>11 DEF Count

LEMMA StoreMoves ==
  ASSUME IInv, TInv', NEW d \in Delivery, StoreMessage(d)
  PROVE  IInv'
<1> DEFINE r == [dlv[d] EXCEPT !.at = "touch"]
<1>0. /\ dlv[d].at = "store" /\ stored' = stored \cup {CopyOf(d)}
      /\ dlv' = [dlv EXCEPT ![d].at = "touch"]
      /\ UNCHANGED <<tries, ended, heard>>
  BY DEF StoreMessage
<1>1. Handling(d)
  BY <1>0 DEF Handling
<1>2. dlv[d] \in DlvRec /\ dlv \in [Delivery -> DlvRec]
  BY <1>1, RunOn DEF IInv
<1>3. /\ r.at = "touch" /\ r.hook = dlv[d].hook /\ r.try = dlv[d].try
      /\ r.next = dlv[d].next /\ r.conv = dlv[d].conv /\ dlv' = [dlv EXCEPT ![d] = r]
      /\ dlv'[d] = r
  BY <1>0, <1>2 DEF DlvRec
<1> HIDE DEF r
<1>4. PICK w \in Webhook, n \in Try : /\ w = dlv[d].hook /\ n = dlv[d].try
                                      /\ Carries(d, w, n) /\ InStep(d, w, n)
  BY <1>1, OwnAttempt
<1>5. /\ CopyOf(d) \notin stored /\ APrefix(w, n)' /\ Count(w, n)' = dlv[d].next
      /\ \A v \in Webhook, m \in Try :
           /\ UNCHANGED HeardBy(v, m)
           /\ ~ (v = w /\ m = n) => UNCHANGED StoredBy(v, m)
  BY <1>0, <1>4, StoreGrows
<1>6. InStep(d, w, n)'
  <2>1. Told(w, n)' = dlv[d].next - 1
    BY <1>0, <1>4, <1>5 DEF Told, InStep
  <2>2. CopyOf(d)' = CopyOf(d)
    BY <1>3 DEF CopyOf, CurrentMsg
  <2>3. CopyOf(d) \notin heard'
    BY <1>0, <1>5 DEF IInv, TInv, TypeOK, InboxTypeOK
  <2> QED
    BY <1>3, <1>5, <2>1, <2>2, <2>3 DEF InStep
<1>7. \A c \in stored : c \in heard' => c \in heard \/ c = CopyOf(d)
  BY <1>0
<1>8. /\ r.at # "idle" /\ r.hook = w /\ r.try = n /\ dlv' = [dlv EXCEPT ![d] = r]
      /\ UNCHANGED <<tries, ended>>
  BY <1>0, <1>3, <1>4
<1>9. \A v \in Webhook, m \in Try :
        ~ (v = w /\ m = n) => UNCHANGED <<StoredBy(v, m), HeardBy(v, m)>>
  BY <1>5
<1> QED
  BY <1>4, <1>5, <1>6, <1>7, <1>8, <1>9, OwnAttemptMoves

\* What an announcement adds.
LEMMA TouchTells ==
  ASSUME IInv, NEW d \in Delivery, dlv[d].at = "touch",
         stored' = stored, heard' = heard \cup {CopyOf(d)},
         NEW w \in Webhook, NEW n \in Try, w = dlv[d].hook, n = dlv[d].try
  PROVE  /\ Told(w, n)' = Told(w, n) + 1 /\ Told(w, n)' = dlv[d].next
         /\ Count(w, n) = dlv[d].next /\ Count(w, n)' = Count(w, n)
         /\ \A v \in Webhook, m \in Try :
              /\ UNCHANGED StoredBy(v, m)
              /\ ~ (v = w /\ m = n) => UNCHANGED HeardBy(v, m)
<1>1. /\ Handling(d) /\ APrefix(w, n) /\ InStep(d, w, n)
  BY OwnAttempt DEF Handling
<1>2. /\ CopyOf(d) \in stored /\ CopyOf(d).hook = w /\ CopyOf(d).try = n
  BY CopyIsTyped DEF IInv, TInv, DeliveryShape
<1>3. /\ HeardBy(w, n)' = HeardBy(w, n) \cup {CopyOf(d)}
      /\ CopyOf(d) \notin HeardBy(w, n)
  BY <1>1, <1>2 DEF HeardBy, StoredBy, InStep
<1>4. IsFiniteSet(HeardBy(w, n))
  BY <1>1, FS_Subset DEF HeardBy, APrefix
<1>5. Cardinality(HeardBy(w, n)') = Cardinality(HeardBy(w, n)) + 1
  BY <1>3, <1>4, FS_AddElement
<1>6. dlv[d].next \in Nat /\ Told(w, n) = dlv[d].next - 1 /\ Count(w, n) = dlv[d].next
  BY <1>1, CurrentIsTyped DEF IInv, InStep
<1>7. ASSUME NEW v \in Webhook, NEW m \in Try
      PROVE  /\ UNCHANGED StoredBy(v, m)
             /\ ~ (v = w /\ m = n) => UNCHANGED HeardBy(v, m)
  BY <1>2 DEF StoredBy, HeardBy
<1> QED
  BY <1>5, <1>6, <1>7 DEF Told, Count

\* A delivery that ends, however it does.
LEMMA FinishMoves ==
  ASSUME IInv, TInv', NEW d \in Delivery, Handling(d), NEW how, Finish(d, how),
         UNCHANGED <<tries, stored>>,
         \A v \in Webhook, m \in Try :
           ~ (v = dlv[d].hook /\ m = dlv[d].try) => UNCHANGED HeardBy(v, m),
         \A c \in stored : c \in heard' => c \in heard \/ c = CopyOf(d)
  PROVE  IInv'
<1> DEFINE e == [hook |-> dlv[d].hook, try |-> dlv[d].try, how |-> how]
<1>0. /\ dlv' = [dlv EXCEPT ![d] = Free] /\ ended' = ended \cup {e}
      /\ e.hook = dlv[d].hook /\ e.try = dlv[d].try
  BY DEF Finish
<1> HIDE DEF e
<1>1. PICK w \in Webhook, n \in Try : /\ w = dlv[d].hook /\ n = dlv[d].try
                                      /\ n <= tries[w] /\ Carries(d, w, n)
  BY OwnAttempt
<1>2. dlv'[d] = Free /\ \A x \in Delivery \ {d} : dlv'[x] = dlv[x]
  BY <1>0 DEF IInv, TInv, TypeOK, InboxTypeOK
<1>3. \A x \in Delivery : \A v, m : Carries(x, v, m)' <=> Carries(x, v, m) /\ x # d
  BY <1>2, FreeIsTyped DEF Carries, Handling
<1>4. \A x \in Delivery : Carries(x, w, n) => x = d
  BY <1>1 DEF IInv, ProgressInv, OneDeliveryEach, Carries
<1>5. OneDeliveryEach'
  <2>1. \A x \in Delivery : Handling(x)' => Handling(x) /\ x # d /\ dlv'[x] = dlv[x]
    BY <1>2, FreeIsTyped DEF Handling
  <2>2. ASSUME NEW x \in Delivery, NEW y \in Delivery, Handling(x)', Handling(y)',
               dlv'[y].hook = dlv'[x].hook, dlv'[y].try = dlv'[x].try
        PROVE  x = y
    <3>1. Handling(x) /\ dlv'[x] = dlv[x] /\ Handling(y) /\ dlv'[y] = dlv[y]
      BY <2>1, <2>2
    <3>2. Carries(y, dlv[x].hook, dlv[x].try)
      BY <2>2, <3>1 DEF Carries
    <3> QED
      BY <3>1, <3>2 DEF IInv, ProgressInv, OneDeliveryEach
  <2>3. ASSUME NEW f \in ended'
        PROVE  f.try <= tries'[f.hook] /\ \A x \in Delivery : ~ Carries(x, f.hook, f.try)'
    <3>1. CASE f \in ended
      BY <1>3, <3>1 DEF IInv, ProgressInv, OneDeliveryEach
    <3>2. CASE f = e
      BY <1>0, <1>1, <1>3, <1>4, <3>2
    <3> QED
      BY <1>0, <2>3, <3>1, <3>2
  <2> QED
    BY <2>2, <2>3 DEF OneDeliveryEach, Carries
<1>6. AllAccounted'
  <2> SUFFICES ASSUME NEW v \in Webhook, NEW m \in 1..tries[v]
               PROVE  \/ \E x \in Delivery : Carries(x, v, m)'
                      \/ \E f \in ended' : f.hook = v /\ f.try = m
    BY DEF AllAccounted
  <2>1. CASE Carries(d, v, m)
    BY <1>0, <2>1 DEF Carries
  <2>2. CASE ~ Carries(d, v, m)
    BY <1>0, <1>3, <2>2 DEF IInv, ProgressInv, AllAccounted
  <2> QED
    BY <2>1, <2>2
<1>7. Progress'
  <2> SUFFICES ASSUME NEW v \in Webhook, NEW m \in Try
               PROVE  /\ APrefix(v, m)'
                      /\ m > tries'[v] => StoredBy(v, m)' = {}
                      /\ \A x \in Delivery : Carries(x, v, m)' => InStep(x, v, m)'
    BY DEF Progress
  <2>1. StoredBy(v, m)' = StoredBy(v, m)
    BY DEF StoredBy
  <2>2. APrefix(v, m)' /\ (m > tries'[v] => StoredBy(v, m)' = {}) /\ Count(v, m)' = Count(v, m)
    BY <2>1 DEF APrefix, MsgsOf, Count, IInv, ProgressInv, Progress
  <2>3. ASSUME NEW x \in Delivery, Carries(x, v, m)' PROVE InStep(x, v, m)'
    <3>1. x # d /\ Carries(x, v, m) /\ dlv'[x] = dlv[x] /\ InStep(x, v, m)
      BY <1>2, <1>3, <2>3 DEF IInv, ProgressInv, Progress
    <3>2. ~ (v = w /\ m = n)
      BY <1>4, <3>1
    <3>3. Told(v, m)' = Told(v, m)
      BY <1>1, <3>2 DEF Told
    <3>4. CopyOf(x)' = CopyOf(x)
      BY <3>1 DEF CopyOf, CurrentMsg
    <3>5. dlv[x].at = "touch" => CopyOf(x) \in stored /\ CopyOf(x) # CopyOf(d)
      BY <1>1, <3>1, <3>2 DEF IInv, TInv, DeliveryShape, CopyOf, Carries
    <3> QED
      BY <2>2, <3>1, <3>3, <3>4, <3>5 DEF InStep
  <2> QED
    BY <2>2, <2>3
<1> QED
  BY <1>5, <1>6, <1>7 DEF IInv, ProgressInv

LEMMA TouchMoves ==
  ASSUME IInv, TInv', NEW d \in Delivery, TouchConversation(d)
  PROVE  IInv'
<1>0. /\ dlv[d].at = "touch" /\ heard' = heard \cup {CopyOf(d)} /\ NextMessage(d)
      /\ UNCHANGED <<tries, stored>>
  BY DEF TouchConversation
<1>1. Handling(d)
  BY <1>0 DEF Handling
<1>2. PICK w \in Webhook, n \in Try : /\ w = dlv[d].hook /\ n = dlv[d].try
                                      /\ Carries(d, w, n) /\ APrefix(w, n)
  BY <1>1, OwnAttempt
<1>3. /\ Told(w, n)' = dlv[d].next /\ Count(w, n)' = dlv[d].next
      /\ \A v \in Webhook, m \in Try :
           /\ UNCHANGED StoredBy(v, m)
           /\ ~ (v = w /\ m = n) => UNCHANGED HeardBy(v, m)
  BY <1>0, <1>2, TouchTells
<1>4. CASE Finish(d, "handled")
  BY <1>0, <1>1, <1>2, <1>3, <1>4, FinishMoves
<1>5. CASE ~ Finish(d, "handled")
  <2> DEFINE r == [dlv[d] EXCEPT !.at = "contact", !.next = @ + 1, !.conv = None,
                                 !.status = "WAITING"]
  <2>1. /\ UNCHANGED ended
        /\ dlv' = [dlv EXCEPT ![d].at = "contact", ![d].next = @ + 1,
                              ![d].conv = None, ![d].status = "WAITING"]
    BY <1>0, <1>5 DEF NextMessage
  <2>2. dlv[d] \in DlvRec /\ dlv \in [Delivery -> DlvRec] /\ dlv[d].next \in Nat
    BY <1>1, RunOn, CurrentIsTyped DEF IInv
  <2>3. /\ r.at = "contact" /\ r.hook = dlv[d].hook /\ r.try = dlv[d].try
        /\ r.next = dlv[d].next + 1 /\ dlv' = [dlv EXCEPT ![d] = r] /\ dlv'[d] = r
    BY <2>1, <2>2 DEF DlvRec
  <2> HIDE DEF r
  <2>4. APrefix(w, n)'
    BY <1>2, <1>3 DEF APrefix, MsgsOf, Count
  <2>5. InStep(d, w, n)'
    BY <1>3, <2>2, <2>3 DEF InStep
  <2>6. \A c \in stored : c \in heard' => c \in heard \/ c = CopyOf(d)
    BY <1>0
  <2>7. /\ r.at # "idle" /\ r.hook = w /\ r.try = n /\ dlv' = [dlv EXCEPT ![d] = r]
        /\ UNCHANGED <<tries, ended>>
    BY <1>0, <1>2, <2>1, <2>3
  <2>8. \A v \in Webhook, m \in Try :
          ~ (v = w /\ m = n) => UNCHANGED <<StoredBy(v, m), HeardBy(v, m)>>
    BY <1>3
  <2> QED
    BY <1>2, <2>4, <2>5, <2>6, <2>7, <2>8, OwnAttemptMoves
<1> QED
  BY <1>4, <1>5

LEMMA DeliverMoves ==
  ASSUME IInv, TInv', NEW d \in Delivery, NEW w \in Webhook, Deliver(d, w)
  PROVE  IInv'
<1> DEFINE n == tries[w] + 1
           new == [Free EXCEPT !.at = "contact", !.hook = w, !.try = tries[w] + 1, !.next = 1]
           e == [hook |-> w, try |-> tries[w] + 1, how |-> "unknown_number"]
<1>0. /\ tries[w] \in Nat /\ n \in Try /\ tries' = [tries EXCEPT ![w] = n]
      /\ dlv[d] = Free /\ UNCHANGED <<stored, heard>>
      /\ tries'[w] = n /\ \A v \in Webhook \ {w} : tries'[v] = tries[v]
  BY InboxAssumption DEF Deliver, IInv, TInv, TypeOK, InboxTypeOK, Try
<1>1. \/ dlv' = [dlv EXCEPT ![d] = new] /\ UNCHANGED ended
      \/ dlv' = dlv /\ ended' = ended \cup {e}
  BY DEF Deliver
<1>2. /\ new.at = "contact" /\ new.hook = w /\ new.try = n /\ new.next = 1
      /\ e.hook = w /\ e.try = n
  <2>1. tries[w] + 1 \in 0..MaxTries
    BY <1>0 DEF Try
  <2>2. /\ new.at = "contact" /\ new.hook = w /\ new.try = tries[w] + 1 /\ new.next = 1
        /\ new \in DlvRec
    BY <2>1, FirstIsTyped, Zenon
  <2>3. e.hook = w /\ e.try = tries[w] + 1
    OBVIOUS
  <2> QED
    BY <2>2, <2>3
<1> HIDE DEF new, e, n
<1>3. /\ \A x \in Delivery \ {d} : dlv'[x] = dlv[x]
      /\ dlv'[d] \in {Free, new} /\ ~ Handling(d)
  BY <1>0, <1>1, FreeIsTyped DEF Handling, IInv, TInv, TypeOK, InboxTypeOK
<1>4. \A x \in Delivery : ~ Carries(x, w, n)
  <2> SUFFICES ASSUME NEW x \in Delivery, Handling(x), dlv[x].hook = w PROVE dlv[x].try # n
    BY DEF Carries
  <2>1. dlv[x].try \in 1..tries[w]
    BY DEF IInv, TInv, DeliveryShape
  <2> QED
    BY <1>0, <2>1 DEF n
<1>5. \A x \in Delivery : \A v, m :
        Carries(x, v, m)' <=> \/ Carries(x, v, m)
                              \/ x = d /\ dlv'[d] = new /\ v = w /\ m = n
  BY <1>2, <1>3, FreeIsTyped DEF Carries, Handling
<1>6. \A f \in ended : f.try \in Nat /\ f.hook \in Webhook /\ tries[f.hook] \in Nat
                       /\ f.try <= tries[f.hook]
  BY InboxAssumption
     DEF IInv, TInv, TypeOK, InboxTypeOK, End, Try, ProgressInv, OneDeliveryEach
<1>7. \A x \in Delivery : Handling(x) => /\ dlv'[x] = dlv[x] /\ dlv[x].hook \in Webhook
                                         /\ Carries(x, dlv[x].hook, dlv[x].try)
  BY <1>3, OwnAttempt
<1>8. \A x \in Delivery : Handling(x)' => \/ Handling(x)
                                          \/ x = d /\ dlv'[d] = new
  BY <1>3, FreeIsTyped DEF Handling
<1>9. OneDeliveryEach'
  <2>1. ASSUME NEW x \in Delivery, NEW y \in Delivery, Handling(x)', Handling(y)',
               dlv'[y].hook = dlv'[x].hook, dlv'[y].try = dlv'[x].try
        PROVE  x = y
    <3>1. CASE Handling(x) /\ Handling(y)
      <4>1. Carries(y, dlv[x].hook, dlv[x].try)
        BY <1>7, <2>1, <3>1 DEF Carries
      <4> QED
        BY <3>1, <4>1 DEF IInv, ProgressInv, OneDeliveryEach
    <3>2. CASE Handling(x) /\ y = d /\ dlv'[d] = new
      <4>1. Carries(x, w, n)
        BY <1>2, <1>7, <2>1, <3>2 DEF Carries
      <4> QED
        BY <1>4, <4>1
    <3>3. CASE Handling(y) /\ x = d /\ dlv'[d] = new
      <4>1. Carries(y, w, n)
        BY <1>2, <1>7, <2>1, <3>3 DEF Carries
      <4> QED
        BY <1>4, <4>1
    <3> QED
      BY <1>8, <2>1, <3>1, <3>2, <3>3
  <2>2. ASSUME NEW f \in ended'
        PROVE  f.try <= tries'[f.hook] /\ \A x \in Delivery : ~ Carries(x, f.hook, f.try)'
    <3>1. CASE f \in ended
      <4>1. f.try <= tries'[f.hook]
        BY <1>0, <1>6, <3>1 DEF n
      <4>2. ~ (f.hook = w /\ f.try = n)
        BY <1>0, <1>6, <3>1 DEF n
      <4>3. \A x \in Delivery : ~ Carries(x, f.hook, f.try)
        BY <3>1 DEF IInv, ProgressInv, OneDeliveryEach
      <4> QED
        BY <1>5, <4>1, <4>2, <4>3
    <3>2. CASE f = e /\ dlv' = dlv
      <4>1. f.hook = w /\ f.try = n /\ f.try <= tries'[f.hook]
        BY <1>0, <1>2, <3>2 DEF Try
      <4>2. \A x \in Delivery : \A v, m : Carries(x, v, m)' <=> Carries(x, v, m)
        BY <3>2 DEF Carries, Handling
      <4> QED
        BY <1>4, <4>1, <4>2
    <3> QED
      BY <1>1, <2>2, <3>1, <3>2
  <2> QED
    BY <2>1, <2>2 DEF OneDeliveryEach, Carries
<1>10. AllAccounted'
  <2> SUFFICES ASSUME NEW v \in Webhook, NEW m \in 1..tries'[v]
               PROVE  \/ \E x \in Delivery : Carries(x, v, m)'
                      \/ \E f \in ended' : f.hook = v /\ f.try = m
    BY DEF AllAccounted
  <2>1. CASE m \in 1..tries[v]
    <3>1. \/ \E x \in Delivery : Carries(x, v, m)
          \/ \E f \in ended : f.hook = v /\ f.try = m
      BY <2>1 DEF IInv, ProgressInv, AllAccounted
    <3> QED
      BY <1>1, <1>5, <3>1
  <2>2. CASE m \notin 1..tries[v]
    <3>1. v = w /\ m = n
      BY <1>0, <2>2 DEF n
    <3> QED
      BY <1>1, <1>2, <1>5, <3>1, <1>3 DEF IInv, TInv, TypeOK, InboxTypeOK
  <2> QED
    BY <2>1, <2>2
<1>11. Progress'
  <2> SUFFICES ASSUME NEW v \in Webhook, NEW m \in Try
               PROVE  /\ APrefix(v, m)'
                      /\ m > tries'[v] => StoredBy(v, m)' = {}
                      /\ \A x \in Delivery : Carries(x, v, m)' => InStep(x, v, m)'
    BY DEF Progress
  <2>1. UNCHANGED <<StoredBy(v, m), HeardBy(v, m)>>
    BY <1>0 DEF StoredBy, HeardBy
  <2>2. /\ APrefix(v, m)' /\ Count(v, m)' = Count(v, m) /\ Told(v, m)' = Told(v, m)
    BY <2>1, SameRows DEF IInv, ProgressInv, Progress
  <2>3. m > tries'[v] => StoredBy(v, m)' = {}
    <3>1. m \in Nat /\ tries[v] \in Nat /\ (m > tries'[v] => m > tries[v])
      BY <1>0, InboxAssumption DEF n, Try, IInv, TInv, TypeOK, InboxTypeOK
    <3> QED
      BY <2>1, <3>1 DEF IInv, ProgressInv, Progress
  <2>4. ASSUME NEW x \in Delivery, Carries(x, v, m) PROVE InStep(x, v, m)'
    <3>1. InStep(x, v, m) /\ dlv'[x] = dlv[x]
      BY <1>7, <2>4 DEF IInv, ProgressInv, Progress, Carries
    <3>2. CopyOf(x)' = CopyOf(x)
      BY <3>1 DEF CopyOf, CurrentMsg
    <3> QED
      BY <1>0, <2>2, <3>1, <3>2 DEF InStep
  <2>5. ASSUME v = w, m = n, dlv'[d] = new PROVE InStep(d, v, m)'
    <3>1. StoredBy(v, m) = {}
      BY <1>0, <2>5 DEF IInv, ProgressInv, Progress, n
    <3>2. HeardBy(v, m) = {}
      BY <3>1 DEF HeardBy
    <3>3. Count(v, m) = 0 /\ Told(v, m) = 0
      BY <3>1, <3>2, FS_EmptySet DEF Count, Told
    <3> QED
      BY <1>2, <2>2, <2>5, <3>3 DEF InStep
  <2> QED
    BY <1>5, <2>2, <2>3, <2>4, <2>5
<1> QED
  BY <1>9, <1>10, <1>11 DEF IInv, ProgressInv

LEMMA CrashMoves ==
  ASSUME IInv, TInv', Crash
  PROVE  IInv'
<1>0. /\ dlv' = [d \in Delivery |-> Free] /\ UNCHANGED <<tries, stored, heard>>
      /\ ended' = ended \cup {[hook |-> dlv[d].hook, try |-> dlv[d].try, how |-> "lost"] :
                                d \in {x \in Delivery : dlv[x].at # "idle"}}
  BY DEF Crash, InboxLost
<1>1. \A x \in Delivery : ~ Handling(x)' /\ \A v, m : ~ Carries(x, v, m)'
  BY <1>0, FreeIsTyped DEF Handling, Carries
<1>2. ASSUME NEW f \in ended' PROVE f.try <= tries'[f.hook]
  <2>1. CASE f \in ended
    BY <1>0, <2>1 DEF IInv, ProgressInv, OneDeliveryEach
  <2>2. ASSUME NEW d \in Delivery, Handling(d),
               f = [hook |-> dlv[d].hook, try |-> dlv[d].try, how |-> "lost"]
        PROVE  f.try <= tries'[f.hook]
    BY <1>0, <2>2, OwnAttempt
  <2> QED
    BY <1>0, <1>2, <2>1, <2>2 DEF Handling
<1>3. OneDeliveryEach'
  BY <1>1, <1>2 DEF OneDeliveryEach
<1>4. AllAccounted'
  <2> SUFFICES ASSUME NEW v \in Webhook, NEW m \in 1..tries[v]
               PROVE  \E f \in ended' : f.hook = v /\ f.try = m
    BY <1>0 DEF AllAccounted
  <2>1. CASE \E d \in Delivery : Carries(d, v, m)
    <3>1. PICK d \in Delivery : Carries(d, v, m)
      BY <2>1
    <3>2. [hook |-> dlv[d].hook, try |-> dlv[d].try, how |-> "lost"] \in ended'
      BY <1>0, <3>1 DEF Carries, Handling
    <3> QED
      BY <3>1, <3>2 DEF Carries
  <2>2. CASE \E f \in ended : f.hook = v /\ f.try = m
    BY <1>0, <2>2
  <2> QED
    BY <2>1, <2>2 DEF IInv, ProgressInv, AllAccounted
<1>5. Progress'
  <2>1. \A v \in Webhook, m \in Try : UNCHANGED <<StoredBy(v, m), HeardBy(v, m)>>
    BY <1>0 DEF StoredBy, HeardBy
  <2>2. \A v \in Webhook, m \in Try : APrefix(v, m)'
    BY <2>1, SameRows DEF IInv, ProgressInv, Progress
  <2> QED
    BY <1>0, <1>1, <2>1, <2>2 DEF IInv, ProgressInv, Progress
<1> QED
  BY <1>3, <1>4, <1>5 DEF IInv, ProgressInv

LEMMA IInvStep == IInv /\ [Next]_vars => IInv'
<1> SUFFICES ASSUME IInv, [Next]_vars PROVE IInv'
  OBVIOUS
<1>1. TInv'
  BY TypeStep DEF IInv
<1>2. ASSUME NEW d \in Delivery, UpsertContact(d) PROVE IInv'
  <2> DEFINE r == [dlv[d] EXCEPT !.at = "find"]
  <2>1. /\ dlv[d].at = "contact" /\ dlv' = [dlv EXCEPT ![d].at = "find"]
        /\ UNCHANGED <<tries, ended, stored, heard>>
    BY <1>2 DEF UpsertContact
  <2>2. dlv[d] \in DlvRec /\ dlv \in [Delivery -> DlvRec]
    BY DEF IInv, TInv, TypeOK, InboxTypeOK
  <2>3. /\ r.at = "find" /\ r.hook = dlv[d].hook /\ r.try = dlv[d].try
        /\ r.next = dlv[d].next /\ dlv' = [dlv EXCEPT ![d] = r]
    BY <2>1, <2>2 DEF DlvRec
  <2> HIDE DEF r
  <2> QED
    BY <1>1, <2>1, <2>3, QueryMoves DEF Handling
<1>3. ASSUME NEW d \in Delivery, FindConversation(d) PROVE IInv'
  <2>1. /\ dlv[d].at = "find" /\ UNCHANGED <<tries, ended, stored, heard>>
        /\ \/ dlv' = [dlv EXCEPT ![d].at = "insert"]
           \/ \E c : dlv' = [dlv EXCEPT ![d].at = "store", ![d].conv = c,
                                        ![d].status = conv[c].status]
    BY <1>3 DEF FindConversation
  <2>2. dlv[d] \in DlvRec /\ dlv \in [Delivery -> DlvRec]
    BY DEF IInv, TInv, TypeOK, InboxTypeOK
  <2>3. CASE dlv' = [dlv EXCEPT ![d].at = "insert"]
    <3> DEFINE r == [dlv[d] EXCEPT !.at = "insert"]
    <3>1. /\ r.at = "insert" /\ r.hook = dlv[d].hook /\ r.try = dlv[d].try
          /\ r.next = dlv[d].next /\ dlv' = [dlv EXCEPT ![d] = r]
      BY <2>2, <2>3 DEF DlvRec
    <3> HIDE DEF r
    <3> QED
      BY <1>1, <2>1, <3>1, QueryMoves DEF Handling
  <2>4. ASSUME NEW c, dlv' = [dlv EXCEPT ![d].at = "store", ![d].conv = c,
                                         ![d].status = conv[c].status]
        PROVE  IInv'
    <3> DEFINE r == [dlv[d] EXCEPT !.at = "store", !.conv = c, !.status = conv[c].status]
    <3>1. /\ r.at = "store" /\ r.hook = dlv[d].hook /\ r.try = dlv[d].try
          /\ r.next = dlv[d].next /\ dlv' = [dlv EXCEPT ![d] = r]
      BY <2>2, <2>4 DEF DlvRec
    <3> HIDE DEF r
    <3> QED
      BY <1>1, <2>1, <3>1, QueryMoves DEF Handling
  <2> QED
    BY <2>1, <2>3, <2>4
<1>4. ASSUME NEW d \in Delivery, NEW c \in Conversation, InsertConversation(d, c)
      PROVE  IInv'
  <2> DEFINE r == [dlv[d] EXCEPT !.at = "store", !.conv = c, !.status = "WAITING"]
  <2>1. /\ dlv[d].at = "insert" /\ UNCHANGED <<tries, ended, stored, heard>>
        /\ dlv' = [dlv EXCEPT ![d].at = "store", ![d].conv = c, ![d].status = "WAITING"]
    BY <1>4 DEF InsertConversation, CommitConversation
  <2>2. dlv[d] \in DlvRec /\ dlv \in [Delivery -> DlvRec]
    BY DEF IInv, TInv, TypeOK, InboxTypeOK
  <2>3. /\ r.at = "store" /\ r.hook = dlv[d].hook /\ r.try = dlv[d].try
        /\ r.next = dlv[d].next /\ dlv' = [dlv EXCEPT ![d] = r]
    BY <2>1, <2>2 DEF DlvRec
  <2> HIDE DEF r
  <2> QED
    BY <1>1, <2>1, <2>3, QueryMoves DEF Handling
<1>5. ASSUME NEW d \in Delivery, Swallow(d) PROVE IInv'
  <2>1. /\ Handling(d) /\ Finish(d, "swallowed") /\ UNCHANGED <<tries, stored, heard>>
    BY <1>5 DEF Swallow, Handling
  <2>2. \A v \in Webhook, m \in Try : UNCHANGED HeardBy(v, m)
    BY <2>1 DEF HeardBy, StoredBy
  <2> QED
    BY <1>1, <2>1, <2>2, FinishMoves
<1>6. CASE UNCHANGED vars
  <2>1. UNCHANGED <<dlv, tries, ended, stored, heard>>
    BY <1>6 DEF vars, inboxVars
  <2>2. \A v \in Webhook, m \in Try : UNCHANGED <<StoredBy(v, m), HeardBy(v, m)>>
    BY <2>1 DEF StoredBy, HeardBy
  <2>3. \A v \in Webhook, m \in Try :
          /\ APrefix(v, m)' <=> APrefix(v, m)
          /\ \A d \in Delivery : InStep(d, v, m)' <=> InStep(d, v, m)
    BY <2>1, <2>2, SameRows DEF InStep, CopyOf, CurrentMsg
  <2>4. OneDeliveryEach' /\ AllAccounted'
    BY <2>1 DEF IInv, ProgressInv, OneDeliveryEach, AllAccounted, Carries, Handling
  <2>5. Progress'
    BY <2>1, <2>2, <2>3 DEF IInv, ProgressInv, Progress, Carries, Handling
  <2> QED
    BY <1>1, <2>4, <2>5 DEF IInv, ProgressInv
<1>7. CASE InboxStep
  <2>1. PICK d \in Delivery : \/ \E w \in Webhook : Deliver(d, w)
                              \/ Handle(d)
                              \/ Swallow(d)
    BY <1>7 DEF InboxStep
  <2> QED
    BY <1>1, <1>2, <1>3, <1>4, <1>5, <2>1, DeliverMoves, StoreMoves, TouchMoves DEF Handle
<1> QED
  BY <1>1, <1>6, <1>7, CrashMoves DEF Next

LEMMA IInvInit == Init => IInv
<1> SUFFICES ASSUME Init PROVE IInv
  OBVIOUS
<1>1. /\ dlv = [d \in Delivery |-> Free] /\ tries = [w \in Webhook |-> 0]
      /\ ended = {} /\ stored = {} /\ heard = {}
  BY DEF Init, InboxInit
<1>2. \A d \in Delivery : ~ Handling(d)
  BY <1>1, FreeIsTyped DEF Handling
<1>3. OneDeliveryEach /\ AllAccounted
  BY <1>1, <1>2 DEF OneDeliveryEach, AllAccounted, Carries
<1>4. ASSUME NEW w \in Webhook, NEW n \in Try PROVE APrefix(w, n) /\ StoredBy(w, n) = {}
  <2>1. StoredBy(w, n) = {}
    BY <1>1 DEF StoredBy
  <2>2. IsFiniteSet(StoredBy(w, n)) /\ Count(w, n) = 0
    BY <2>1, FS_EmptySet DEF Count
  <2>3. Len(Batch[w]) \in Nat
    <3>1. Batch[w] \in Seq(Message)
      BY InboxAssumption
    <3> QED
      BY <3>1
  <2>4. MsgsOf(StoredBy(w, n)) = {Batch[w][i] : i \in 1..Count(w, n)}
    BY <2>1, <2>2 DEF MsgsOf
  <2> QED
    BY <2>1, <2>2, <2>3, <2>4 DEF APrefix
<1>5. Progress
  BY <1>2, <1>4 DEF Progress, Carries
<1> QED
  BY <1>3, <1>5, TypeInit DEF IInv, ProgressInv

LEMMA IInvHolds == Spec => []IInv
BY IInvInit, IInvStep, PTL DEF Spec

\* However a delivery ends, and whatever other deliveries do meanwhile, it has
\* stored a prefix of its batch, each message once, where its sender belongs.
THEOREM PrefixStoredWhereItBelongs == Spec => []StoredWhereItBelongs
<1>1. IInv => StoredWhereItBelongs
  <2> SUFFICES ASSUME IInv PROVE StoresAPrefix /\ InSendersConversation
    BY DEF StoredWhereItBelongs
  <2>1. ASSUME NEW w \in Webhook, NEW n \in Try
        PROVE  \E k \in 0..Len(Batch[w]) :
                 /\ MsgsOf(StoredBy(w, n)) = {Batch[w][i] : i \in 1..k}
                 /\ Cardinality(StoredBy(w, n)) = k
    BY DEF IInv, ProgressInv, Progress, APrefix, Count
  <2> QED
    BY <2>1 DEF StoresAPrefix, InSendersConversation, IInv, TInv, Placed
<1> QED
  BY <1>1, IInvHolds, PTL

-----------------------------------------------------------------------------
(* The contract: what an attempt looks like from outside, and which of the *)
(* contract's actions each step of the handler is.                         *)

Attempt(w, n) == [stage |-> Stage(w, n), stored |-> Count(w, n), heard |-> Told(w, n)]

attempts == [w \in Webhook |-> [n \in Try |-> Attempt(w, n)]]

LEMMA IsBegin ==
  ASSUME NEW w \in Webhook, NEW n \in Try, attempts[w][n].stage = "new",
         \A k \in 1..(n - 1) : attempts[w][k].stage # "new",
         NEW stage \in {"open", "ignored"},
         attempts' = [attempts EXCEPT ![w][n] = [stage |-> stage, stored |-> 0, heard |-> 0]]
  PROVE  Contract!Next
<1>1. Contract!Begin(w, n)
  BY DEF Contract!Begin, Contract!Begun, Contract!Set, Contract!Fresh, attempts, Attempt,
         Count, Told, HeardBy
<1> QED
  BY <1>1 DEF Contract!Next, Try

LEMMA IsStore ==
  ASSUME NEW w \in Webhook, NEW n \in Try, NEW k \in Nat, k < Len(Batch[w]),
         attempts[w][n] = [stage |-> "open", stored |-> k, heard |-> k],
         attempts' = [attempts EXCEPT ![w][n] =
                        [stage |-> "open", stored |-> k + 1, heard |-> k]]
  PROVE  Contract!Next
<1>1. Contract!Store(w, n)
  BY DEF Contract!Store, Contract!Set, attempts, Attempt, Count, Told, HeardBy
<1> QED
  BY <1>1 DEF Contract!Next, Try

LEMMA IsAnnounce ==
  ASSUME NEW w \in Webhook, NEW n \in Try, NEW k \in Nat,
         attempts[w][n] = [stage |-> "open", stored |-> k + 1, heard |-> k],
         attempts' = [attempts EXCEPT ![w][n] =
                        [stage  |-> IF k + 1 = Len(Batch[w]) THEN "handled" ELSE "open",
                         stored |-> k + 1, heard |-> k + 1]]
  PROVE  Contract!Next
<1> DEFINE a == attempts[w][n]
           size == [v \in Webhook |-> Len(Batch[v])]
<1>0. attempts' = [attempts EXCEPT ![w][n] =
                    [a EXCEPT !.heard = a.heard + 1,
                              !.stage = IF a.stored = size[w] THEN "handled" ELSE "open"]]
  <2>1. /\ a.stage = "open" /\ a.stored = k + 1 /\ a.heard = k
        /\ size[w] = Len(Batch[w])
        /\ a = [stage |-> "open", stored |-> k + 1, heard |-> k]
    OBVIOUS
  <2> DEFINE now == IF k + 1 = Len(Batch[w]) THEN "handled" ELSE "open"
  <2> HIDE DEF a, now
  <2> DEFINE r == [a EXCEPT !.heard = a.heard + 1]
  <2>3. r = [stage |-> "open", stored |-> k + 1, heard |-> k + 1]
    BY <2>1
  <2> HIDE DEF r
  <2>4. [r EXCEPT !.stage = now] = [stage |-> now, stored |-> k + 1, heard |-> k + 1]
    BY <2>3
  <2>5. [a EXCEPT !.heard = a.heard + 1, !.stage = now]
          = [stage |-> now, stored |-> k + 1, heard |-> k + 1]
    BY <2>4 DEF r
  <2>6. now = IF a.stored = size[w] THEN "handled" ELSE "open"
    BY <2>1 DEF now
  <2>2. [a EXCEPT !.heard = a.heard + 1,
                  !.stage = IF a.stored = size[w] THEN "handled" ELSE "open"]
          = [stage |-> IF k + 1 = Len(Batch[w]) THEN "handled" ELSE "open",
             stored |-> k + 1, heard |-> k + 1]
    BY <2>5, <2>6 DEF now
  <2> QED
    BY <2>2
<1>1. Contract!Announce(w, n)
  BY <1>0 DEF Contract!Announce, Contract!Set, attempts, Attempt, Count, Told, HeardBy
<1> QED
  BY <1>1 DEF Contract!Next, Try

LEMMA IsBreak ==
  ASSUME NEW w \in Webhook, NEW n \in Try, attempts[w][n].stage = "open",
         attempts' = [attempts EXCEPT ![w][n] = [attempts[w][n] EXCEPT !.stage = "broken"]]
  PROVE  Contract!Next
<1>1. Contract!Break(w, n)
  BY DEF Contract!Break, Contract!Set, attempts, Attempt, Count, Told, HeardBy
<1> QED
  BY <1>1 DEF Contract!Next, Try

LEMMA IsBreakAll ==
  ASSUME attempts' = [w \in Webhook |-> [n \in Try |->
                        IF attempts[w][n].stage = "open"
                          THEN [attempts[w][n] EXCEPT !.stage = "broken"]
                          ELSE attempts[w][n]]]
  PROVE  Contract!Next
<1>1. Contract!BreakAll
  BY DEF Contract!BreakAll, Try, attempts, Attempt, Count, Told, HeardBy
<1> QED
  BY <1>1 DEF Contract!Next

\* A step that one attempt shows, and no other.
LEMMA OneChanges ==
  ASSUME NEW w \in Webhook, NEW n \in Try, NEW a, Attempt(w, n)' = a,
         \A v \in Webhook, m \in Try :
           ~ (v = w /\ m = n) => Attempt(v, m)' = Attempt(v, m)
  PROVE  attempts' = [attempts EXCEPT ![w][n] = a]
BY DEF attempts

\* The stage of an attempt that no delivery carries is how it ended.
EndedStage(w, n) ==
  IF [hook |-> w, try |-> n, how |-> "handled"] \in ended THEN "handled"
  ELSE IF [hook |-> w, try |-> n, how |-> "unknown_number"] \in ended THEN "ignored"
  ELSE IF \E e \in ended : e.hook = w /\ e.try = n THEN "broken"
  ELSE "new"

StageIs(w, n) ==
  Stage(w, n) = IF \E d \in Delivery : Carries(d, w, n) THEN "open" ELSE EndedStage(w, n)

LEMMA StageSays == IInv => \A w \in Webhook, n \in Try : StageIs(w, n)
<1> SUFFICES ASSUME IInv, NEW w \in Webhook, NEW n \in Try PROVE StageIs(w, n)
  OBVIOUS
<1>1. \A d \in Delivery : dlv[d].hook = w /\ dlv[d].try = n <=> Carries(d, w, n)
  <2> SUFFICES ASSUME NEW d \in Delivery, dlv[d].hook = w, dlv[d].try = n
               PROVE  Handling(d)
    BY DEF Carries
  <2>1. Free.try = 0 /\ n # 0
    BY DEF Free, Try
  <2> QED
    BY <2>1 DEF IInv, TInv, DeliveryShape
<1> QED
  BY <1>1 DEF StageIs, Stage, EndedStage

LEMMA StageSaysNext == IInv' => (\A w \in Webhook, n \in Try : StageIs(w, n))'
BY StageSays, PTL

LEMMA SameEnds ==
  ASSUME NEW w, NEW n,
         \A e : e.hook = w /\ e.try = n => (e \in ended' <=> e \in ended)
  PROVE  EndedStage(w, n)' = EndedStage(w, n)
<1>1. \A how : [hook |-> w, try |-> n, how |-> how] \in ended'
                 <=> [hook |-> w, try |-> n, how |-> how] \in ended
  OBVIOUS
<1>2. (\E e \in ended' : e.hook = w /\ e.try = n) <=> (\E e \in ended : e.hook = w /\ e.try = n)
  OBVIOUS
<1> QED
  BY <1>1, <1>2 DEF EndedStage

\* An attempt whose delivery, end and rows a step leaves alone looks the same.
LEMMA SameAttempt ==
  ASSUME IInv, IInv', NEW w \in Webhook, NEW n \in Try,
         (\E d \in Delivery : Carries(d, w, n)') <=> (\E d \in Delivery : Carries(d, w, n)),
         \A e : e.hook = w /\ e.try = n => (e \in ended' <=> e \in ended),
         Count(w, n)' = Count(w, n), Told(w, n)' = Told(w, n)
  PROVE  Attempt(w, n)' = Attempt(w, n)
<1>1. EndedStage(w, n)' = EndedStage(w, n)
  BY SameEnds
<1>2. Stage(w, n) = IF \E d \in Delivery : Carries(d, w, n) THEN "open" ELSE EndedStage(w, n)
  BY StageSays DEF StageIs
<1>3. Stage(w, n)' = IF \E d \in Delivery : Carries(d, w, n)' THEN "open"
                     ELSE EndedStage(w, n)'
  BY StageSaysNext DEF StageIs
<1> QED
  BY <1>1, <1>2, <1>3 DEF Attempt

\* A query that neither stores nor announces shows nothing.
LEMMA QuietStep ==
  ASSUME IInv, IInv', UNCHANGED <<ended, stored, heard>>,
         \A d \in Delivery : \A w, n : Carries(d, w, n)' <=> Carries(d, w, n)
  PROVE  attempts' = attempts
<1>1. ASSUME NEW w \in Webhook, NEW n \in Try PROVE Attempt(w, n)' = Attempt(w, n)
  <2>1. UNCHANGED <<StoredBy(w, n), HeardBy(w, n)>>
    BY DEF StoredBy, HeardBy
  <2>2. Count(w, n)' = Count(w, n) /\ Told(w, n)' = Told(w, n)
    BY <2>1, SameRows
  <2> QED
    BY <2>2, SameAttempt
<1> QED
  BY <1>1 DEF attempts

LEMMA QueryShows ==
  ASSUME IInv, IInv', NEW d \in Delivery,
         \/ UpsertContact(d)
         \/ FindConversation(d)
         \/ \E c \in Conversation : InsertConversation(d, c)
  PROVE  attempts' = attempts
<1>1. dlv \in [Delivery -> DlvRec] /\ dlv[d] \in DlvRec
  BY DEF IInv, TInv, TypeOK, InboxTypeOK
<1>2. /\ UNCHANGED <<ended, stored, heard>> /\ Handling(d)
      /\ \A x \in Delivery \ {d} : dlv'[x] = dlv[x]
      /\ dlv'[d].at # "idle" /\ dlv'[d].hook = dlv[d].hook /\ dlv'[d].try = dlv[d].try
  <2>1. CASE UpsertContact(d)
    BY <1>1, <2>1 DEF UpsertContact, Handling, DlvRec
  <2>2. CASE FindConversation(d)
    <3>1. /\ dlv[d].at = "find" /\ UNCHANGED <<ended, stored, heard>>
          /\ \/ dlv' = [dlv EXCEPT ![d].at = "insert"]
             \/ \E c : dlv' = [dlv EXCEPT ![d].at = "store", ![d].conv = c,
                                          ![d].status = conv[c].status]
      BY <2>2 DEF FindConversation
    <3>2. CASE dlv' = [dlv EXCEPT ![d].at = "insert"]
      <4> DEFINE r == [dlv[d] EXCEPT !.at = "insert"]
      <4>1. /\ r.at = "insert" /\ r.hook = dlv[d].hook /\ r.try = dlv[d].try
            /\ dlv' = [dlv EXCEPT ![d] = r]
        BY <1>1, <3>2 DEF DlvRec
      <4> HIDE DEF r
      <4> QED
        BY <1>1, <3>1, <4>1 DEF Handling
    <3>3. ASSUME NEW c, dlv' = [dlv EXCEPT ![d].at = "store", ![d].conv = c,
                                           ![d].status = conv[c].status]
          PROVE  /\ Handling(d) /\ \A x \in Delivery \ {d} : dlv'[x] = dlv[x]
                 /\ dlv'[d].at # "idle" /\ dlv'[d].hook = dlv[d].hook
                 /\ dlv'[d].try = dlv[d].try
      <4> DEFINE r == [dlv[d] EXCEPT !.at = "store", !.conv = c, !.status = conv[c].status]
      <4>1. /\ r.at = "store" /\ r.hook = dlv[d].hook /\ r.try = dlv[d].try
            /\ dlv' = [dlv EXCEPT ![d] = r]
        BY <1>1, <3>3 DEF DlvRec
      <4> HIDE DEF r
      <4> QED
        BY <1>1, <3>1, <4>1 DEF Handling
    <3> QED
      BY <3>1, <3>2, <3>3
  <2>3. ASSUME NEW c \in Conversation, InsertConversation(d, c)
        PROVE  /\ UNCHANGED <<ended, stored, heard>> /\ Handling(d)
               /\ \A x \in Delivery \ {d} : dlv'[x] = dlv[x]
               /\ dlv'[d].at # "idle" /\ dlv'[d].hook = dlv[d].hook
               /\ dlv'[d].try = dlv[d].try
    BY <1>1, <2>3 DEF InsertConversation, CommitConversation, Handling, DlvRec
  <2> QED
    BY <2>1, <2>2, <2>3
<1>3. \A x \in Delivery : \A w, n : Carries(x, w, n)' <=> Carries(x, w, n)
  BY <1>2 DEF Carries, Handling
<1> QED
  BY <1>2, <1>3, QuietStep

\* An attempt that a delivery is handling.
LEMMA OpenAttempt ==
  ASSUME IInv, NEW d \in Delivery, Handling(d)
  PROVE  attempts[dlv[d].hook][dlv[d].try] =
           [stage  |-> "open",
            stored |-> IF dlv[d].at = "touch" THEN dlv[d].next ELSE dlv[d].next - 1,
            heard  |-> dlv[d].next - 1]
<1>1. PICK w \in Webhook, n \in Try : /\ w = dlv[d].hook /\ n = dlv[d].try
                                      /\ Carries(d, w, n) /\ InStep(d, w, n)
  BY OwnAttempt
<1>2. Stage(w, n) = "open"
  BY <1>1, StageSays DEF StageIs
<1> QED
  BY <1>1, <1>2 DEF attempts, Attempt, InStep

LEMMA StoreShows ==
  ASSUME IInv, IInv', NEW d \in Delivery, StoreMessage(d)
  PROVE  Contract!Next
<1>0. /\ dlv[d].at = "store" /\ stored' = stored \cup {CopyOf(d)}
      /\ dlv' = [dlv EXCEPT ![d].at = "touch"]
      /\ UNCHANGED <<ended, heard>>
  BY DEF StoreMessage
<1>1. Handling(d)
  BY <1>0 DEF Handling
<1>2. dlv[d] \in DlvRec /\ dlv \in [Delivery -> DlvRec]
  BY DEF IInv, TInv, TypeOK, InboxTypeOK
<1>3. /\ dlv'[d].at = "touch" /\ dlv'[d].hook = dlv[d].hook /\ dlv'[d].try = dlv[d].try
      /\ dlv'[d].next = dlv[d].next /\ \A x \in Delivery \ {d} : dlv'[x] = dlv[x]
  BY <1>0, <1>2 DEF DlvRec
<1>4. PICK w \in Webhook, n \in Try : /\ w = dlv[d].hook /\ n = dlv[d].try
                                      /\ Carries(d, w, n) /\ InStep(d, w, n)
  BY <1>1, OwnAttempt
<1>5. PICK k \in Nat : k = dlv[d].next - 1 /\ k < Len(Batch[w])
  <2>1. /\ dlv[d].next \in 1..Len(Batch[w]) /\ Len(Batch[w]) \in Nat
    BY <1>1, <1>4, CurrentIsTyped DEF IInv, TInv, DeliveryShape
  <2> QED
    BY <2>1
<1>6. attempts[w][n] = [stage |-> "open", stored |-> k, heard |-> k]
  BY <1>0, <1>1, <1>4, <1>5, OpenAttempt
<1>7. \A x \in Delivery : \A v, m : Carries(x, v, m)' <=> Carries(x, v, m)
  BY <1>1, <1>3 DEF Carries, Handling
<1>8. /\ Count(w, n)' = dlv[d].next
      /\ \A v \in Webhook, m \in Try :
           /\ UNCHANGED HeardBy(v, m)
           /\ ~ (v = w /\ m = n) => UNCHANGED StoredBy(v, m)
  BY <1>0, <1>4, StoreGrows
<1>9. Attempt(w, n)' = [stage |-> "open", stored |-> k + 1, heard |-> k]
  <2>1. Stage(w, n)' = "open"
    BY <1>4, <1>7, StageSaysNext DEF StageIs
  <2>2. Told(w, n)' = dlv[d].next - 1
    BY <1>0, <1>4, <1>8 DEF Told, InStep
  <2>3. Count(w, n)' = k + 1
    BY <1>2, <1>5, <1>8 DEF DlvRec
  <2> QED
    BY <1>5, <2>1, <2>2, <2>3 DEF Attempt
<1>10. ASSUME NEW v \in Webhook, NEW m \in Try, ~ (v = w /\ m = n)
       PROVE  Attempt(v, m)' = Attempt(v, m)
  <2>1. Count(v, m)' = Count(v, m) /\ Told(v, m)' = Told(v, m)
    BY <1>8, <1>10, SameRows
  <2> QED
    BY <1>0, <1>7, <2>1, SameAttempt
<1>11. attempts' = [attempts EXCEPT ![w][n] =
                      [stage |-> "open", stored |-> k + 1, heard |-> k]]
  BY <1>9, <1>10, OneChanges
<1> QED
  BY <1>5, <1>6, <1>11, IsStore

LEMMA TouchShows ==
  ASSUME IInv, IInv', NEW d \in Delivery, TouchConversation(d)
  PROVE  Contract!Next
<1>0. /\ dlv[d].at = "touch" /\ heard' = heard \cup {CopyOf(d)} /\ NextMessage(d)
      /\ UNCHANGED <<tries, stored>>
  BY DEF TouchConversation
<1>1. Handling(d)
  BY <1>0 DEF Handling
<1>2. dlv[d] \in DlvRec /\ dlv \in [Delivery -> DlvRec]
  BY DEF IInv, TInv, TypeOK, InboxTypeOK
<1>4. PICK w \in Webhook, n \in Try : /\ w = dlv[d].hook /\ n = dlv[d].try
                                      /\ Carries(d, w, n) /\ InStep(d, w, n)
  BY <1>1, OwnAttempt
<1>5. PICK k \in Nat : /\ k = dlv[d].next - 1 /\ dlv[d].next = k + 1
                       /\ dlv[d].next <= Len(Batch[w]) /\ Len(Batch[w]) \in Nat
  <2>1. /\ dlv[d].next \in 1..Len(Batch[w]) /\ Len(Batch[w]) \in Nat
    BY <1>1, <1>4, CurrentIsTyped DEF IInv, TInv, DeliveryShape
  <2> QED
    BY <2>1
<1>6. attempts[w][n] = [stage |-> "open", stored |-> k + 1, heard |-> k]
  BY <1>0, <1>1, <1>4, <1>5, OpenAttempt
<1>7. /\ Told(w, n)' = k + 1 /\ Count(w, n)' = k + 1
      /\ \A v \in Webhook, m \in Try :
           /\ UNCHANGED StoredBy(v, m)
           /\ ~ (v = w /\ m = n) => UNCHANGED HeardBy(v, m)
  BY <1>0, <1>4, <1>5, TouchTells
<1>8. \A x \in Delivery : Carries(x, w, n) => x = d
  BY <1>4 DEF IInv, ProgressInv, OneDeliveryEach, Carries
<1> DEFINE done == [hook |-> w, try |-> n, how |-> "handled"]
<1>9. CASE k + 1 = Len(Batch[w])
  <2>1. dlv' = [dlv EXCEPT ![d] = Free] /\ ended' = ended \cup {done}
    BY <1>0, <1>4, <1>5, <1>9 DEF NextMessage, Finish
  <2>2. \A x \in Delivery : \A v, m : Carries(x, v, m)' <=> Carries(x, v, m) /\ x # d
    BY <1>2, <2>1, FreeIsTyped DEF Carries, Handling
  <2>3. Stage(w, n)' = "handled"
    <3>1. ~ \E x \in Delivery : Carries(x, w, n)'
      BY <1>8, <2>2
    <3> QED
      BY <2>1, <3>1, StageSaysNext DEF StageIs, EndedStage
  <2>4. Attempt(w, n)' = [stage |-> "handled", stored |-> k + 1, heard |-> k + 1]
    BY <1>7, <2>3 DEF Attempt
  <2>5. ASSUME NEW v \in Webhook, NEW m \in Try, ~ (v = w /\ m = n)
        PROVE  Attempt(v, m)' = Attempt(v, m)
    <3>1. Count(v, m)' = Count(v, m) /\ Told(v, m)' = Told(v, m)
      BY <1>7, <2>5, SameRows
    <3>2. \A x \in Delivery : Carries(x, v, m)' <=> Carries(x, v, m)
      BY <1>4, <2>2, <2>5 DEF Carries
    <3>3. \A e : e.hook = v /\ e.try = m => (e \in ended' <=> e \in ended)
      BY <2>1, <2>5
    <3> QED
      BY <3>1, <3>2, <3>3, SameAttempt
  <2>6. attempts' = [attempts EXCEPT ![w][n] =
                       [stage |-> "handled", stored |-> k + 1, heard |-> k + 1]]
    BY <2>4, <2>5, OneChanges
  <2> QED
    BY <1>6, <1>9, <2>6, IsAnnounce
<1>10. CASE k + 1 # Len(Batch[w])
  <2> DEFINE r == [dlv[d] EXCEPT !.at = "contact", !.next = @ + 1, !.conv = None,
                                 !.status = "WAITING"]
  <2>1. /\ UNCHANGED ended
        /\ dlv' = [dlv EXCEPT ![d].at = "contact", ![d].next = @ + 1,
                              ![d].conv = None, ![d].status = "WAITING"]
    BY <1>0, <1>4, <1>5, <1>10 DEF NextMessage
  <2>2. /\ r.at = "contact" /\ r.hook = dlv[d].hook /\ r.try = dlv[d].try
        /\ dlv' = [dlv EXCEPT ![d] = r]
    BY <1>2, <2>1 DEF DlvRec
  <2> HIDE DEF r
  <2>3. \A x \in Delivery : \A v, m : Carries(x, v, m)' <=> Carries(x, v, m)
    BY <1>1, <1>2, <2>2 DEF Carries, Handling
  <2>4. Attempt(w, n)' = [stage |-> "open", stored |-> k + 1, heard |-> k + 1]
    <3>1. Stage(w, n)' = "open"
      BY <1>4, <2>3, StageSaysNext DEF StageIs
    <3> QED
      BY <1>7, <3>1 DEF Attempt
  <2>5. ASSUME NEW v \in Webhook, NEW m \in Try, ~ (v = w /\ m = n)
        PROVE  Attempt(v, m)' = Attempt(v, m)
    <3>1. Count(v, m)' = Count(v, m) /\ Told(v, m)' = Told(v, m)
      BY <1>7, <2>5, SameRows
    <3> QED
      BY <2>1, <2>3, <3>1, SameAttempt
  <2>6. attempts' = [attempts EXCEPT ![w][n] =
                       [stage |-> "open", stored |-> k + 1, heard |-> k + 1]]
    BY <2>4, <2>5, OneChanges
  <2> QED
    BY <1>6, <1>10, <2>6, IsAnnounce
<1> QED
  BY <1>9, <1>10

LEMMA SwallowShows ==
  ASSUME IInv, IInv', NEW d \in Delivery, Swallow(d)
  PROVE  Contract!Next
<1>1. Handling(d) /\ Finish(d, "swallowed") /\ UNCHANGED <<stored, heard>>
  BY DEF Swallow, Handling
<1>2. dlv \in [Delivery -> DlvRec]
  BY DEF IInv, TInv, TypeOK, InboxTypeOK
<1>3. PICK w \in Webhook, n \in Try : /\ w = dlv[d].hook /\ n = dlv[d].try
                                      /\ Carries(d, w, n)
  BY <1>1, OwnAttempt
<1> DEFINE e == [hook |-> w, try |-> n, how |-> "swallowed"]
<1>4. dlv' = [dlv EXCEPT ![d] = Free] /\ ended' = ended \cup {e}
  BY <1>1, <1>3 DEF Finish
<1>5. \A x \in Delivery : \A v, m : Carries(x, v, m)' <=> Carries(x, v, m) /\ x # d
  BY <1>2, <1>4, FreeIsTyped DEF Carries, Handling
<1>6. \A x \in Delivery : Carries(x, w, n) => x = d
  BY <1>3 DEF IInv, ProgressInv, OneDeliveryEach, Carries
<1>7. \A f \in ended : ~ (f.hook = w /\ f.try = n)
  BY <1>3 DEF IInv, ProgressInv, OneDeliveryEach
<1>8. \A v \in Webhook, m \in Try : Count(v, m)' = Count(v, m) /\ Told(v, m)' = Told(v, m)
  BY <1>1, SameRows DEF StoredBy, HeardBy
<1>9. Stage(w, n) = "open" /\ attempts[w][n] = Attempt(w, n)
  BY <1>3, StageSays DEF StageIs, attempts
<1>10. Stage(w, n)' = "broken"
  <2>1. ~ \E x \in Delivery : Carries(x, w, n)'
    BY <1>5, <1>6
  <2>2. EndedStage(w, n)' = "broken"
    <3>1. \A how : [hook |-> w, try |-> n, how |-> how] \in ended' => how = "swallowed"
      BY <1>4, <1>7
    <3> QED
      BY <1>4, <3>1 DEF EndedStage
  <2> QED
    BY <2>1, <2>2, StageSaysNext DEF StageIs
<1>11. Attempt(w, n)' = [attempts[w][n] EXCEPT !.stage = "broken"]
  BY <1>8, <1>9, <1>10 DEF Attempt
<1>12. ASSUME NEW v \in Webhook, NEW m \in Try, ~ (v = w /\ m = n)
       PROVE  Attempt(v, m)' = Attempt(v, m)
  <2>1. \A x \in Delivery : Carries(x, v, m)' <=> Carries(x, v, m)
    BY <1>3, <1>5, <1>12 DEF Carries
  <2>2. \A f : f.hook = v /\ f.try = m => (f \in ended' <=> f \in ended)
    BY <1>4, <1>12
  <2> QED
    BY <1>8, <2>1, <2>2, SameAttempt
<1>13. attempts' = [attempts EXCEPT ![w][n] = [attempts[w][n] EXCEPT !.stage = "broken"]]
  BY <1>11, <1>12, OneChanges
<1>14. attempts[w][n].stage = "open"
  BY <1>9 DEF Attempt
<1> QED
  BY <1>13, <1>14, IsBreak

LEMMA DeliverShows ==
  ASSUME IInv, IInv', NEW d \in Delivery, NEW w \in Webhook, Deliver(d, w)
  PROVE  Contract!Next
<1>0. PICK n \in Try : /\ n = tries[w] + 1 /\ n \in Nat /\ n - 1 = tries[w]
                        /\ tries[w] \in Nat /\ n > tries[w] /\ dlv[d] = Free
                        /\ UNCHANGED <<stored, heard>>
  BY InboxAssumption DEF Deliver, IInv, TInv, TypeOK, InboxTypeOK, Try
<1> DEFINE new == [Free EXCEPT !.at = "contact", !.hook = w, !.try = n, !.next = 1]
           e == [hook |-> w, try |-> n, how |-> "unknown_number"]
<1>1. \/ dlv' = [dlv EXCEPT ![d] = new] /\ UNCHANGED ended
      \/ dlv' = dlv /\ ended' = ended \cup {e}
  BY <1>0 DEF Deliver
<1>2. /\ new.at = "contact" /\ new.hook = w /\ new.try = n
      /\ e.hook = w /\ e.try = n /\ e = [hook |-> w, try |-> n, how |-> "unknown_number"]
  <2>1. n \in 0..MaxTries
    BY <1>0 DEF Try
  <2>2. /\ new.at = "contact" /\ new.hook = w /\ new.try = n /\ new.next = 1
        /\ new \in DlvRec
    BY <2>1, FirstIsTyped, Zenon
  <2> QED
    BY <2>2
<1> HIDE DEF new, e
<1>3. \A x \in Delivery : ~ Carries(x, w, n)
  <2> SUFFICES ASSUME NEW x \in Delivery, Handling(x), dlv[x].hook = w PROVE dlv[x].try # n
    BY DEF Carries
  <2>1. dlv[x].try \in 1..tries[w]
    BY DEF IInv, TInv, DeliveryShape
  <2> QED
    BY <1>0, <2>1
<1>4. \A f \in ended : ~ (f.hook = w /\ f.try = n)
  BY <1>0 DEF IInv, TInv, TypeOK, InboxTypeOK, End, Try, ProgressInv, OneDeliveryEach
<1>5. /\ \A v \in Webhook, m \in Try :
           Count(v, m)' = Count(v, m) /\ Told(v, m)' = Told(v, m)
      /\ Count(w, n) = 0 /\ Told(w, n) = 0
  <2>1. \A v, m : UNCHANGED <<StoredBy(v, m), HeardBy(v, m)>>
    BY <1>0 DEF StoredBy, HeardBy
  <2>2. StoredBy(w, n) = {}
    BY <1>0 DEF IInv, ProgressInv, Progress
  <2>3. HeardBy(w, n) = {}
    BY <2>2 DEF HeardBy
  <2> QED
    BY <2>1, <2>2, <2>3, SameRows, FS_EmptySet DEF Count, Told
<1>6. attempts[w][n].stage = "new"
  <2>1. EndedStage(w, n) = "new"
    BY <1>4 DEF EndedStage
  <2>2. Stage(w, n) = "new"
    BY <1>0, <1>3, <2>1, StageSays DEF StageIs
  <2> QED
    BY <1>0, <2>2 DEF attempts, Attempt
<1>7. \A k \in 1..(n - 1) : attempts[w][k].stage # "new"
  <2> SUFFICES ASSUME NEW k \in 1..tries[w] PROVE attempts[w][k].stage # "new"
    BY <1>0
  <2>1. k \in Try
    BY <1>0, InboxAssumption DEF Try
  <2>2. \/ \E x \in Delivery : Carries(x, w, k)
        \/ \E f \in ended : f.hook = w /\ f.try = k
    BY DEF IInv, ProgressInv, AllAccounted
  <2>3. Stage(w, k) # "new"
    BY <2>1, <2>2, StageSays DEF StageIs, EndedStage
  <2> QED
    BY <2>1, <2>3 DEF attempts, Attempt
<1>8. ASSUME NEW v \in Webhook, NEW m \in Try, ~ (v = w /\ m = n)
      PROVE  Attempt(v, m)' = Attempt(v, m)
  <2>1. \A x \in Delivery : Carries(x, v, m)' <=> Carries(x, v, m)
    <3>1. CASE dlv' = dlv
      BY <3>1 DEF Carries, Handling
    <3>2. CASE dlv' = [dlv EXCEPT ![d] = new]
      <4>1. dlv'[d] = new /\ \A x \in Delivery \ {d} : dlv'[x] = dlv[x]
        BY <3>2 DEF IInv, TInv, TypeOK, InboxTypeOK
      <4>2. ~ Carries(d, v, m) /\ ~ Carries(d, v, m)'
        BY <1>0, <1>2, <1>8, <4>1, FreeIsTyped DEF Carries, Handling
      <4>3. \A x \in Delivery \ {d} : Carries(x, v, m)' <=> Carries(x, v, m)
        BY <4>1 DEF Carries, Handling
      <4> QED
        BY <4>2, <4>3
    <3> QED
      BY <1>1, <3>1, <3>2
  <2>2. \A f : f.hook = v /\ f.try = m => (f \in ended' <=> f \in ended)
    BY <1>1, <1>2, <1>8
  <2> QED
    BY <1>5, <2>1, <2>2, SameAttempt
<1>9. CASE dlv' = [dlv EXCEPT ![d] = new] /\ UNCHANGED ended
  <2>1. Carries(d, w, n)'
    <3>1. dlv'[d] = new
      BY <1>9 DEF IInv, TInv, TypeOK, InboxTypeOK
    <3> QED
      BY <1>2, <3>1 DEF Carries, Handling
  <2>2. Stage(w, n)' = "open"
    BY <1>0, <2>1, StageSaysNext DEF StageIs
  <2>3. Attempt(w, n)' = [stage |-> "open", stored |-> 0, heard |-> 0]
    BY <1>0, <1>5, <2>2 DEF Attempt
  <2>4. attempts' = [attempts EXCEPT ![w][n] = [stage |-> "open", stored |-> 0, heard |-> 0]]
    BY <1>0, <1>8, <2>3, OneChanges
  <2> QED
    BY <1>0, <1>6, <1>7, <2>4, IsBegin
<1>10. CASE dlv' = dlv /\ ended' = ended \cup {e}
  <2>1. \A x \in Delivery : ~ Carries(x, w, n)'
    BY <1>3, <1>10 DEF Carries, Handling
  <2>2. EndedStage(w, n)' = "ignored"
    <3>1. \A how : [hook |-> w, try |-> n, how |-> how] \in ended'
                     <=> how = "unknown_number"
      BY <1>2, <1>4, <1>10
    <3> QED
      BY <3>1 DEF EndedStage
  <2>3. Stage(w, n)' = "ignored"
    BY <1>0, <2>1, <2>2, StageSaysNext DEF StageIs
  <2>4. Attempt(w, n)' = [stage |-> "ignored", stored |-> 0, heard |-> 0]
    BY <1>0, <1>5, <2>3 DEF Attempt
  <2>5. attempts' = [attempts EXCEPT ![w][n] =
                       [stage |-> "ignored", stored |-> 0, heard |-> 0]]
    BY <1>0, <1>8, <2>4, OneChanges
  <2> QED
    BY <1>0, <1>6, <1>7, <2>5, IsBegin
<1> QED
  BY <1>1, <1>9, <1>10

LEMMA CrashShows ==
  ASSUME IInv, IInv', Crash
  PROVE  Contract!Next
<1> DEFINE lost(x) == [hook |-> dlv[x].hook, try |-> dlv[x].try, how |-> "lost"]
<1>0. /\ dlv' = [d \in Delivery |-> Free] /\ UNCHANGED <<stored, heard>>
      /\ ended' = ended \cup {lost(d) : d \in {x \in Delivery : Handling(x)}}
  BY DEF Crash, InboxLost, Handling
<1>1. \A x \in Delivery : \A v, m : ~ Carries(x, v, m)'
  BY <1>0, FreeIsTyped DEF Carries, Handling
<1>2. \A v \in Webhook, m \in Try : Count(v, m)' = Count(v, m) /\ Told(v, m)' = Told(v, m)
  BY <1>0, SameRows DEF StoredBy, HeardBy
<1>3. ASSUME NEW w \in Webhook, NEW n \in Try
      PROVE  Attempt(w, n)' = IF attempts[w][n].stage = "open"
                                THEN [attempts[w][n] EXCEPT !.stage = "broken"]
                                ELSE attempts[w][n]
  <2>1. Stage(w, n)' = EndedStage(w, n)'
    BY <1>1, StageSaysNext DEF StageIs
  <2>2. attempts[w][n] = Attempt(w, n) /\ attempts[w][n].stage = Stage(w, n)
    BY DEF attempts, Attempt
  <2>3. CASE \E x \in Delivery : Carries(x, w, n)
    <3>1. PICK x \in Delivery : Carries(x, w, n)
      BY <2>3
    <3>2. lost(x) \in ended' /\ lost(x).hook = w /\ lost(x).try = n
      BY <1>0, <3>1 DEF Carries
    <3>3. \A f \in ended : ~ (f.hook = w /\ f.try = n)
      BY <3>1 DEF IInv, ProgressInv, OneDeliveryEach
    <3>4. \A how : [hook |-> w, try |-> n, how |-> how] \in ended' => how = "lost"
      <4> SUFFICES ASSUME NEW how, [hook |-> w, try |-> n, how |-> how] \in ended',
                          [hook |-> w, try |-> n, how |-> how] \notin ended
                   PROVE  how = "lost"
        BY <3>3
      <4>1. PICK y \in Delivery : [hook |-> w, try |-> n, how |-> how] = lost(y)
        BY <1>0
      <4> QED
        BY <4>1
    <3> HIDE DEF lost
    <3>5. EndedStage(w, n)' = "broken"
      BY <3>2, <3>4 DEF EndedStage
    <3>6. Stage(w, n) = "open"
      BY <2>3, StageSays DEF StageIs
    <3> QED
      BY <1>2, <2>1, <2>2, <3>5, <3>6 DEF Attempt
  <2>4. CASE ~ \E x \in Delivery : Carries(x, w, n)
    <3>1. ASSUME NEW f, f.hook = w, f.try = n PROVE f \in ended' <=> f \in ended
      <4> SUFFICES ASSUME NEW y \in Delivery, Handling(y), f = lost(y) PROVE FALSE
        BY <1>0
      <4>1. Carries(y, w, n)
        BY <3>1 DEF Carries
      <4> QED
        BY <2>4, <4>1
    <3>2. EndedStage(w, n)' = EndedStage(w, n)
      BY <3>1, SameEnds
    <3>3. Stage(w, n) = EndedStage(w, n) /\ EndedStage(w, n) # "open"
      BY <2>4, StageSays DEF StageIs, EndedStage
    <3> QED
      BY <1>2, <2>1, <2>2, <3>2, <3>3 DEF Attempt
  <2> QED
    BY <2>3, <2>4
<1>4. attempts' = [w \in Webhook |-> [n \in Try |-> Attempt(w, n)']]
  BY DEF attempts
<1>5. attempts' = [w \in Webhook |-> [n \in Try |->
                     IF attempts[w][n].stage = "open"
                       THEN [attempts[w][n] EXCEPT !.stage = "broken"]
                       ELSE attempts[w][n]]]
  BY <1>3, <1>4
<1> QED
  BY <1>5, IsBreakAll

LEMMA ContractStep == IInv /\ IInv' /\ [Next]_vars => Contract!Next \/ UNCHANGED attempts
<1> SUFFICES ASSUME IInv, IInv', [Next]_vars PROVE Contract!Next \/ UNCHANGED attempts
  OBVIOUS
<1>1. CASE UNCHANGED vars
  <2>1. UNCHANGED <<dlv, ended, stored, heard>>
    BY <1>1 DEF vars, inboxVars
  <2> QED
    BY <2>1, QuietStep DEF Carries, Handling
<1>2. CASE InboxStep
  <2>1. PICK d \in Delivery : \/ \E w \in Webhook : Deliver(d, w)
                              \/ Handle(d)
                              \/ Swallow(d)
    BY <1>2 DEF InboxStep
  <2> QED
    BY <2>1, DeliverShows, QueryShows, StoreShows, TouchShows, SwallowShows DEF Handle
<1> QED
  BY <1>1, <1>2, CrashShows DEF Next

LEMMA ContractInit == Init => Contract!Init
<1> SUFFICES ASSUME Init PROVE Contract!Init
  OBVIOUS
<1>1. IInv /\ ended = {} /\ stored = {} /\ \A d \in Delivery : dlv[d] = Free
  BY IInvInit DEF Init, InboxInit
<1>2. ASSUME NEW w \in Webhook, NEW n \in Try
      PROVE  Attempt(w, n) = [stage |-> "new", stored |-> 0, heard |-> 0]
  <2>1. StoredBy(w, n) = {} /\ HeardBy(w, n) = {}
    BY <1>1 DEF StoredBy, HeardBy
  <2>2. Count(w, n) = 0 /\ Told(w, n) = 0
    BY <2>1, FS_EmptySet DEF Count, Told
  <2>3. Stage(w, n) = "new"
    BY <1>1, FreeIsTyped, StageSays DEF StageIs, EndedStage, Carries, Handling
  <2> QED
    BY <2>2, <2>3 DEF Attempt
<1>3. attempts = [w \in Webhook |-> [n \in Try |->
                    [stage |-> "new", stored |-> 0, heard |-> 0]]]
  BY <1>2 DEF attempts
<1> QED
  BY <1>3 DEF Contract!Init, Contract!Fresh, Try, attempts, Attempt, Count, Told, HeardBy

\* Every delivery keeps the promise of the contract, step by step: whatever the
\* others do, whatever rejects and whenever the process dies, it stores and
\* announces one message of its body after the other, in order, and counts as
\* handled only when it has announced the last.
THEOREM InboxKeepsContract == Spec => KeepsContract
<1>1. Init => Contract!Init
  BY ContractInit
<1>2. IInv /\ IInv' /\ [Next]_vars => [Contract!Next]_attempts
  BY ContractStep
<1>3. Spec => Contract!Init /\ [][Contract!Next]_attempts
  BY <1>1, <1>2, IInvHolds, PTL DEF Spec
<1> QED
  BY <1>3, PTL DEF KeepsContract, Contract!Spec, attempts, Attempt, Count, Told, HeardBy
=============================================================================
