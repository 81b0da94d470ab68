------------------------- MODULE TelegramInbox_proofs -------------------------
(***************************************************************************)
(* Proofs about TelegramInbox for any number of updates, chats and         *)
(* webhook requests at a time.                                             *)
(***************************************************************************)
EXTENDS TelegramInbox, SequenceTheorems, TLAPS

(* Contacts and conversations only grow.                                   *)

Grows(P, Q) == DOMAIN P \subseteq DOMAIN Q /\ \A p \in DOMAIN P : Q[p] = P[p]

\* Conversations also turn, which changes neither their number nor their contact.
KeepsPeople(T, U) == DOMAIN T \subseteq DOMAIN U /\ \A t \in DOMAIN T : U[t].person = T[t].person

Talks(P) == Seq([person : DOMAIN P, open : BOOLEAN])

LEMMA AppendFacts ==
  ASSUME NEW S, NEW s \in Seq(S), NEW e \in S
  PROVE  /\ Append(s, e) \in Seq(S) /\ DOMAIN Append(s, e) = DOMAIN s \cup {Len(s) + 1}
         /\ Len(Append(s, e)) = Len(s) + 1 /\ Len(s) + 1 \notin DOMAIN s
         /\ Append(s, e)[Len(s) + 1] = e /\ Grows(s, Append(s, e))
BY DEF Grows

LEMMA InSeq ==
  ASSUME NEW S, NEW s \in Seq(S), NEW i \in DOMAIN s
  PROVE  s[i] \in S
BY ElementOfSeq, LenProperties

LEMMA SeqOfMore ==
  ASSUME NEW S, NEW s \in Seq(S), NEW R, \A i \in DOMAIN s : s[i] \in R
  PROVE  s \in Seq(R)
<1>1. Len(s) \in Nat /\ DOMAIN s = 1..Len(s) /\ s \in [1..Len(s) -> S]
  BY LenProperties
<1>2. s \in [1..Len(s) -> R]
  BY <1>1
<1> QED
  BY <1>1, <1>2, SeqDef

LEMMA TalksGrow ==
  ASSUME NEW P, NEW Q, Grows(P, Q), NEW T \in Talks(P)
  PROVE  T \in Talks(Q)
<1>1. \A t \in DOMAIN T : T[t] \in [person : DOMAIN P, open : BOOLEAN]
  BY InSeq DEF Talks
<1>2. \A t \in DOMAIN T : T[t] \in [person : DOMAIN Q, open : BOOLEAN]
  BY <1>1 DEF Grows
<1> QED
  BY <1>2, SeqOfMore DEF Talks

-----------------------------------------------------------------------------
(* What a handler holds is true, and remains so.                           *)

Handler == [at : {"rest", "route", "bot", "ignore", "find", "person", "talk", "open",
                  "store", "touch", "log"},
            update : Update \cup {NoUpdate}, person : Nat, talk : Nat]

\* Of a handler h while P are the contacts, T the conversations, M the messages,
\* C the crossed chats and re says "retyped".
Sound(h, P, T, M, C, re) ==
  /\ h.at = "rest" <=> h = Resting
  /\ h.at # "rest" => h.update \in Update
  /\ h.at \in {"find", "person", "talk", "open", "store", "touch", "log"} => h.update \in Understood
  /\ h.at = "ignore" => h.update \notin Understood \/ re
  /\ h.at \in {"talk", "open", "store", "touch", "log"} \/ (h.at = "person" /\ h.person # 0) =>
       h.person \in DOMAIN P /\ P[h.person] = ChatOf[h.update]
  /\ h.at = "person" /\ h.person = 0 =>
       ChatOf[h.update] \in C \/ \A p \in DOMAIN P : P[p] # ChatOf[h.update]
  /\ h.at \in {"store", "touch", "log"} => h.talk \in DOMAIN T /\ T[h.talk].person = h.person
  /\ h.at \in {"touch", "log"} => [update |-> h.update, talk |-> h.talk] \in M

HandledIn(u, A, T, P) == \E m \in A : m.update = u /\ P[T[m.talk].person] = ChatOf[u]

OnePerChat(P, C) == \A p, q \in DOMAIN P : P[p] = P[q] => p = q \/ P[p] \in C

Crossings ==
  \A r, o \in Receiver :
    receiver[r] # Resting /\ receiver[o] # Resting /\ ChatHere(r) = ChatHere(o) =>
      r = o \/ ChatHere(r) \in crossed

TelegramInv ==
  /\ TelegramTypeOK
  /\ ~ bot.telegram => retyped
  /\ \A r \in Receiver : Sound(receiver[r], people, talks, messages, crossed, retyped)
  /\ Crossings
  /\ \A u \in acked \cap Understood : HandledIn(u, announced, talks, people) \/ retyped
  /\ OnePerChat(people, crossed)

LEMMA RestingSound ==
  /\ Resting \in Handler
  /\ \A P, T, M, C, re : Sound(Resting, P, T, M, C, re)
BY DEF Resting, Handler, Sound

LEMMA SoundRemains ==
  ASSUME NEW h, NEW P, NEW T, NEW M, NEW C, NEW re, Sound(h, P, T, M, C, re),
         NEW Q, NEW U, NEW N, NEW D, NEW ret,
         Grows(P, Q), KeepsPeople(T, U), M \subseteq N, C \subseteq D, re => ret,
         \/ \A q \in DOMAIN Q \ DOMAIN P : Q[q] # ChatOf[h.update]
         \/ ChatOf[h.update] \in D
         \/ ~ (h.at = "person" /\ h.person = 0)
  PROVE  Sound(h, Q, U, N, D, ret)
BY DEF Sound, Grows, KeepsPeople

LEMMA HandledRemains ==
  ASSUME NEW u, NEW P, NEW T \in Talks(P), NEW A, HandledIn(u, A, T, P),
         \A m \in A : m.talk \in DOMAIN T,
         NEW Q, NEW U, NEW B, Grows(P, Q), KeepsPeople(T, U), A \subseteq B
  PROVE  HandledIn(u, B, U, Q)
<1>1. PICK m \in A : m.update = u /\ P[T[m.talk].person] = ChatOf[u]
  BY DEF HandledIn
<1>2. T[m.talk].person \in DOMAIN P
  <2>1. T[m.talk] \in [person : DOMAIN P, open : BOOLEAN]
    BY InSeq DEF Talks
  <2> QED
    BY <2>1
<1> QED
  BY <1>1, <1>2 DEF HandledIn, Grows, KeepsPeople

\* What a step of the handlers or of those who edit and turn has to respect.
LEMMA Moves ==
  ASSUME TelegramInv, TelegramTypeOK',
         UNCHANGED crossed, retyped => retyped', ~ bot'.telegram => retyped',
         Grows(people, people'), KeepsPeople(talks, talks'),
         messages \subseteq messages', announced \subseteq announced',
         \A r \in Receiver :
           \/ receiver'[r] = Resting
           \/ receiver[r] # Resting /\ receiver'[r].update = receiver[r].update,
         \A r \in Receiver :
           \/ receiver'[r] = receiver[r]
           \/ Sound(receiver'[r], people', talks', messages', crossed', retyped'),
         \A r \in Receiver :
           \/ receiver'[r] # receiver[r] \/ receiver[r] = Resting
           \/ \A q \in DOMAIN people' \ DOMAIN people : people'[q] # ChatOf[receiver[r].update]
           \/ ChatOf[receiver[r].update] \in crossed
           \/ ~ (receiver[r].at = "person" /\ receiver[r].person = 0),
         \A u \in acked' \cap Understood :
           u \in acked \/ HandledIn(u, announced', talks', people') \/ retyped',
         OnePerChat(people', crossed')
  PROVE  TelegramInv'
<1>1. ASSUME NEW r \in Receiver
      PROVE  Sound(receiver'[r], people', talks', messages', crossed', retyped')
  <2>1. CASE receiver'[r] = receiver[r]
    <3>1. Sound(receiver[r], people, talks, messages, crossed, retyped)
      BY DEF TelegramInv
    <3>2. CASE receiver[r] = Resting
      BY <2>1, <3>2, RestingSound
    <3>3. CASE receiver[r] # Resting
      BY <2>1, <3>1, <3>3, SoundRemains
    <3> QED
      BY <3>2, <3>3
  <2>2. CASE receiver'[r] # receiver[r]
    BY <2>2
  <2> QED
    BY <2>1, <2>2
<1>2. ASSUME NEW u \in acked' \cap Understood
      PROVE  HandledIn(u, announced', talks', people') \/ retyped'
  <2>1. CASE u \in acked
    <3>1. talks \in Talks(people) /\ \A m \in announced : m.talk \in DOMAIN talks
      BY DEF TelegramInv, TelegramTypeOK, Talks
    <3>2. HandledIn(u, announced, talks, people) \/ retyped
      BY <2>1 DEF TelegramInv
    <3> QED
      BY <3>1, <3>2, HandledRemains
  <2>2. CASE u \notin acked
    BY <2>2
  <2> QED
    BY <2>1, <2>2
<1>3. Crossings'
  <2>1. ASSUME NEW r \in Receiver, NEW o \in Receiver,
               receiver'[r] # Resting, receiver'[o] # Resting,
               ChatOf[receiver'[r].update] = ChatOf[receiver'[o].update]
        PROVE  r = o \/ ChatOf[receiver'[r].update] \in crossed'
    BY <2>1 DEF TelegramInv, Crossings, ChatHere, UpdateOf
  <2> QED
    BY <2>1 DEF Crossings, ChatHere, UpdateOf, Resting
<1>4. \A r \in Receiver : Sound(receiver[r], people, talks, messages, crossed, retyped)'
  BY <1>1 DEF Sound, Resting
<1>5. \A u \in acked' \cap Understood : HandledIn(u, announced, talks, people)' \/ retyped'
  BY <1>2 DEF HandledIn
<1>6. OnePerChat(people, crossed)'
  BY DEF OnePerChat
<1> QED
  BY <1>3, <1>4, <1>5, <1>6 DEF TelegramInv

LEMMA HandlerType ==
  ASSUME TelegramInv, NEW r \in Receiver
  PROVE  /\ receiver \in [Receiver -> Handler] /\ receiver[r] \in Handler
         /\ Sound(receiver[r], people, talks, messages, crossed, retyped)
BY DEF TelegramInv, TelegramTypeOK, Handler

LEMMA SameRemains ==
  /\ \A P : Grows(P, P)
  /\ \A T : KeepsPeople(T, T)
BY DEF Grows, KeepsPeople

\* A step that one handler takes on its own.
LEMMA OnlyHandler ==
  ASSUME TelegramInv, NEW r \in Receiver, NEW h \in Handler,
         receiver' = [receiver EXCEPT ![r] = h],
         h = Resting \/ (receiver[r] # Resting /\ h.update = receiver[r].update),
         Sound(h, people, talks, messages, crossed, retyped),
         UNCHANGED <<bot, people, talks, messages, announced, posts, acked, retyped, others, crossed>>
  PROVE  TelegramInv'
<1>1. receiver' \in [Receiver -> Handler] /\ receiver'[r] = h
  BY HandlerType
<1>2. \A o \in Receiver : o # r => receiver'[o] = receiver[o]
  BY HandlerType
<1>3. TelegramTypeOK'
  BY <1>1 DEF TelegramInv, TelegramTypeOK, Handler
<1>4. \A o \in Receiver : \/ receiver'[o] = Resting
                          \/ receiver[o] # Resting /\ receiver'[o].update = receiver[o].update
  BY <1>1, <1>2
<1>5. OnePerChat(people', crossed') /\ (~ bot'.telegram => retyped')
  BY DEF TelegramInv
<1> QED
  BY <1>1, <1>2, <1>3, <1>4, <1>5, SameRemains, Moves

LEMMA RefusedStep ==
  ASSUME TelegramInv, NEW r \in Receiver, Refused(r),
         UNCHANGED <<bot, people, talks, messages, announced, posts, acked, retyped, others, crossed>>
  PROVE  TelegramInv'
BY RestingSound, OnlyHandler DEF Refused, Moved

\* A handler goes on to "at" with what it has.
LEMMA GoesOnStep ==
  ASSUME TelegramInv, NEW r \in Receiver, receiver[r] # Resting,
         NEW at \in {"bot", "ignore", "find", "open", "log"}, GoesOn(r, at),
         Sound([receiver[r] EXCEPT !.at = at], people, talks, messages, crossed, retyped),
         UNCHANGED <<bot, people, talks, messages, announced, posts, acked, retyped, others, crossed>>
  PROVE  TelegramInv'
<1> DEFINE h == [receiver[r] EXCEPT !.at = at]
<1>1. h \in Handler /\ h.update = receiver[r].update
  BY HandlerType DEF Handler
<1>2. receiver' = [receiver EXCEPT ![r] = h]
  BY DEF GoesOn, Moved
<1> HIDE DEF h
<1>3. Sound(h, people, talks, messages, crossed, retyped)
  BY DEF h
<1> QED
  BY <1>1, <1>2, <1>3, OnlyHandler

LEMMA DispatchStep ==
  ASSUME TelegramInv, NEW r \in Receiver, Dispatch(r)
  PROVE  TelegramInv'
<1>1. /\ receiver[r].at = "route" /\ receiver[r] \in Handler /\ receiver[r] # Resting
      /\ Sound(receiver[r], people, talks, messages, crossed, retyped)
      /\ UNCHANGED <<bot, people, talks, messages, announced, posts, acked, retyped, others, crossed>>
  BY HandlerType DEF Dispatch, Resting
<1>2. CASE Refused(r)
  BY <1>1, <1>2, RefusedStep
<1>3. CASE bot.telegram /\ GoesOn(r, "bot")
  <2>1. Sound([receiver[r] EXCEPT !.at = "bot"], people, talks, messages, crossed, retyped)
    BY <1>1 DEF Sound, Handler, Resting
  <2> QED
    BY <1>1, <1>3, <2>1, GoesOnStep
<1>4. CASE ~ bot.telegram /\ GoesOn(r, "ignore")
  <2>1. Sound([receiver[r] EXCEPT !.at = "ignore"], people, talks, messages, crossed, retyped)
    BY <1>1, <1>4 DEF Sound, Handler, Resting, TelegramInv
  <2> QED
    BY <1>1, <1>4, <2>1, GoesOnStep
<1> QED
  BY <1>2, <1>3, <1>4 DEF Dispatch

LEMMA ReadBotStep ==
  ASSUME TelegramInv, NEW r \in Receiver, ReadBot(r)
  PROVE  TelegramInv'
<1>1. /\ receiver[r].at = "bot" /\ receiver[r] \in Handler /\ receiver[r] # Resting
      /\ Sound(receiver[r], people, talks, messages, crossed, retyped)
      /\ UNCHANGED <<bot, people, talks, messages, announced, posts, acked, retyped, others, crossed>>
  BY HandlerType DEF ReadBot, Resting
<1>2. CASE Refused(r)
  BY <1>1, <1>2, RefusedStep
<1>3. CASE (~ bot.telegram \/ receiver[r].update \notin Understood) /\ GoesOn(r, "ignore")
  <2>1. Sound([receiver[r] EXCEPT !.at = "ignore"], people, talks, messages, crossed, retyped)
    BY <1>1, <1>3 DEF Sound, Handler, Resting, TelegramInv
  <2> QED
    BY <1>1, <1>3, <2>1, GoesOnStep
<1>4. CASE receiver[r].update \in Understood /\ GoesOn(r, "find")
  <2>1. Sound([receiver[r] EXCEPT !.at = "find"], people, talks, messages, crossed, retyped)
    BY <1>1, <1>4 DEF Sound, Handler, Resting
  <2> QED
    BY <1>1, <1>4, <2>1, GoesOnStep
<1> QED
  BY <1>2, <1>3, <1>4 DEF ReadBot, UpdateOf

LEMMA FindPersonStep ==
  ASSUME TelegramInv, NEW r \in Receiver, FindPerson(r)
  PROVE  TelegramInv'
<1>1. /\ receiver[r].at = "find" /\ receiver[r] \in Handler /\ receiver[r] # Resting
      /\ Sound(receiver[r], people, talks, messages, crossed, retyped)
      /\ UNCHANGED <<bot, people, talks, messages, announced, posts, acked, retyped, others, crossed>>
  BY HandlerType DEF FindPerson, Resting
<1> DEFINE found == {p \in DOMAIN people : people[p] = ChatOf[receiver[r].update]}
<1>2. PICK p \in IF found = {} THEN {0} ELSE found :
        receiver' = [receiver EXCEPT ![r] = [receiver[r] EXCEPT !.at = "person", !.person = p]]
  BY DEF FindPerson, ChatHere, UpdateOf, Moved
<1> DEFINE h == [receiver[r] EXCEPT !.at = "person", !.person = p]
<1>3. DOMAIN people \subseteq Nat /\ 0 \notin DOMAIN people
  <2>1. people \in Seq(Chat)
    BY DEF TelegramInv, TelegramTypeOK
  <2>2. DOMAIN people = 1..Len(people) /\ Len(people) \in Nat
    BY <2>1, LenProperties
  <2> QED
    BY <2>2
<1>4. /\ p = 0 => \A q \in DOMAIN people : people[q] # ChatOf[receiver[r].update]
      /\ p # 0 => p \in DOMAIN people /\ people[p] = ChatOf[receiver[r].update]
      /\ p \in Nat
  <2>1. CASE found = {}
    BY <1>2, <1>3, <2>1
  <2>2. CASE found # {}
    BY <1>2, <1>3, <2>2
  <2> QED
    BY <2>1, <2>2
<1>5. h \in Handler /\ h.at = "person" /\ h.person = p /\ h.update = receiver[r].update /\ h # Resting
  BY <1>1, <1>4 DEF Handler, Resting
<1>6. receiver' = [receiver EXCEPT ![r] = h]
  BY <1>2
<1> HIDE DEF h
<1>7. Sound(h, people, talks, messages, crossed, retyped)
  BY <1>1, <1>4, <1>5 DEF Sound
<1> QED
  BY <1>1, <1>5, <1>6, <1>7, OnlyHandler

LEMMA FindTalkStep ==
  ASSUME TelegramInv, NEW r \in Receiver, FindTalk(r)
  PROVE  TelegramInv'
<1>1. /\ receiver[r].at = "talk" /\ receiver[r] \in Handler /\ receiver[r] # Resting
      /\ Sound(receiver[r], people, talks, messages, crossed, retyped)
      /\ UNCHANGED <<bot, people, talks, messages, announced, posts, acked, retyped, others, crossed>>
  <2>1. /\ receiver[r].at = "talk"
        /\ UNCHANGED <<bot, people, talks, messages, announced, posts, acked, retyped, others, crossed>>
    BY DEF FindTalk
  <2> QED
    BY <2>1, HandlerType DEF Resting
<1>2. CASE GoesOn(r, "open")
  <2>1. Sound([receiver[r] EXCEPT !.at = "open"], people, talks, messages, crossed, retyped)
    BY <1>1 DEF Sound, Handler, Resting
  <2> QED
    BY <1>1, <1>2, <2>1, GoesOnStep
<1>3. DOMAIN talks \subseteq Nat
  <2>1. talks \in Seq([person : DOMAIN people, open : BOOLEAN])
    BY DEF TelegramInv, TelegramTypeOK
  <2>2. DOMAIN talks = 1..Len(talks) /\ Len(talks) \in Nat
    BY <2>1, LenProperties
  <2> QED
    BY <2>2
<1>4. ASSUME NEW t \in DOMAIN talks, talks[t].person = receiver[r].person,
             Moved(r, [receiver[r] EXCEPT !.at = "store", !.talk = t])
      PROVE  TelegramInv'
  <2> DEFINE h == [receiver[r] EXCEPT !.at = "store", !.talk = t]
  <2>1. /\ h \in Handler /\ h.update = receiver[r].update /\ h # Resting
        /\ h.at = "store" /\ h.talk = t /\ h.person = receiver[r].person
    BY <1>1, <1>4, <1>3 DEF Handler, Resting
  <2>2. receiver' = [receiver EXCEPT ![r] = h]
    BY <1>4 DEF Moved
  <2> HIDE DEF h
  <2>3. Sound(h, people, talks, messages, crossed, retyped)
    BY <1>1, <1>4, <2>1 DEF Sound
  <2> QED
    BY <1>1, <2>1, <2>2, <2>3, OnlyHandler
<1>5. \/ GoesOn(r, "open")
      \/ \E t \in DOMAIN talks : /\ talks[t].person = receiver[r].person
                                 /\ Moved(r, [receiver[r] EXCEPT !.at = "store", !.talk = t])
  BY DEF FindTalk
<1> QED
  BY <1>2, <1>4, <1>5

LEMMA TouchTalkStep ==
  ASSUME TelegramInv, NEW r \in Receiver, TouchTalk(r)
  PROVE  TelegramInv'
<1>1. /\ receiver[r].at = "touch" /\ receiver[r] \in Handler /\ receiver[r] # Resting
      /\ Sound(receiver[r], people, talks, messages, crossed, retyped)
      /\ UNCHANGED <<bot, people, talks, messages, announced, posts, acked, retyped, others, crossed>>
      /\ GoesOn(r, "log")
  BY HandlerType DEF TouchTalk, Resting
<1>2. Sound([receiver[r] EXCEPT !.at = "log"], people, talks, messages, crossed, retyped)
  BY <1>1 DEF Sound, Handler, Resting
<1> QED
  BY <1>1, <1>2, GoesOnStep

LEMMA ReceiveFailsStep ==
  ASSUME TelegramInv, NEW r \in Receiver, ReceiveFails(r)
  PROVE  TelegramInv'
BY RefusedStep DEF ReceiveFails

LEMMA TalkingSound ==
  ASSUME NEW h, h.at \in {"talk", "open"}, h # Resting, h.update \in Understood,
         NEW P, h.person \in DOMAIN P, P[h.person] = ChatOf[h.update],
         NEW T, NEW M, NEW C, NEW re
  PROVE  Sound(h, P, T, M, C, re)
BY TelegramAssumption DEF Sound

LEMMA SavePersonStep ==
  ASSUME TelegramInv, NEW r \in Receiver, SavePerson(r)
  PROVE  TelegramInv'
<1> DEFINE c == ChatOf[receiver[r].update]
           h == [receiver[r] EXCEPT !.at = "talk",
                   !.person = IF receiver[r].person = 0 THEN Len(people') ELSE receiver[r].person]
<1>1. /\ receiver[r].at = "person"
      /\ UNCHANGED <<bot, talks, messages, announced, posts, acked, retyped, others, crossed>>
      /\ people' = IF receiver[r].person = 0 THEN Append(people, c) ELSE people
      /\ receiver' = [receiver EXCEPT ![r] = h]
  BY DEF SavePerson, Moved, ChatHere, UpdateOf
<1>2. /\ receiver \in [Receiver -> Handler] /\ receiver[r] \in Handler /\ receiver[r] # Resting
      /\ Sound(receiver[r], people, talks, messages, crossed, retyped)
  BY <1>1, HandlerType DEF Resting
<1>3. /\ receiver[r].update \in Understood /\ c \in Chat
      /\ people \in Seq(Chat) /\ Len(people) \in Nat /\ talks \in Talks(people)
  <2>1. receiver[r].update \in Understood
    BY <1>1, <1>2 DEF Sound
  <2>2. people \in Seq(Chat) /\ talks \in Talks(people)
    BY DEF TelegramInv, TelegramTypeOK, Talks
  <2> QED
    BY <2>1, <2>2, LenProperties, TelegramAssumption
<1>4. CASE receiver[r].person # 0
  <2>1. h \in Handler /\ h.update = receiver[r].update /\ h # Resting
        /\ h.at = "talk" /\ h.person = receiver[r].person
    BY <1>2, <1>4 DEF Handler, Resting
  <2>2. people' = people
    BY <1>1, <1>4
  <2> HIDE DEF h
  <2>3. Sound(h, people, talks, messages, crossed, retyped)
    BY <1>1, <1>2, <1>4, <2>1 DEF Sound
  <2> QED
    BY <1>1, <1>2, <2>1, <2>2, <2>3, OnlyHandler
<1>5. CASE receiver[r].person = 0
  <2>1. people' = Append(people, c)
    BY <1>1, <1>5
  <2> HIDE DEF c
  <2>2. /\ people' \in Seq(Chat) /\ DOMAIN people' = DOMAIN people \cup {Len(people) + 1}
        /\ Len(people') = Len(people) + 1 /\ Len(people) + 1 \notin DOMAIN people
        /\ people'[Len(people) + 1] = c /\ Grows(people, people')
    BY <1>3, <2>1, AppendFacts
  <2>3. h \in Handler /\ h.update = receiver[r].update /\ h # Resting
        /\ h.at = "talk" /\ h.person = Len(people) + 1
    <3>1. h = [receiver[r] EXCEPT !.at = "talk", !.person = Len(people) + 1]
      BY <1>5, <2>2
    <3> HIDE DEF h
    <3>2. receiver[r] \in Handler /\ Len(people) + 1 \in Nat
      BY <1>2, <1>3
    <3>3. h.at = "talk" /\ h.update = receiver[r].update /\ h.person = Len(people) + 1
      BY <3>1, <3>2 DEF Handler
    <3>4. h \in Handler
      BY <3>1, <3>2 DEF Handler
    <3> QED
      BY <3>3, <3>4 DEF Resting
  <2> HIDE DEF h
  <2>4. Sound(h, people', talks, messages, crossed, retyped)
    <3>1. h.person \in DOMAIN people' /\ people'[h.person] = ChatOf[h.update]
      BY <2>2, <2>3 DEF c
    <3> QED
      BY <1>3, <2>3, <3>1, TalkingSound
  <2>5. receiver' \in [Receiver -> Handler] /\ receiver'[r] = h
        /\ \A o \in Receiver : o # r => receiver'[o] = receiver[o]
    BY <1>1, <1>2, <2>3
  <2>6. talks \in Talks(people')
    BY <1>3, <2>2, TalksGrow
  <2>7. TelegramTypeOK'
    BY <1>1, <2>2, <2>5, <2>6 DEF TelegramInv, TelegramTypeOK, Handler, Talks
  <2>8. c \in crossed \/ \A p \in DOMAIN people : people[p] # c
    BY <1>1, <1>2, <1>5 DEF Sound, c
  <2>9. OnePerChat(people', crossed')
    <3>1. OnePerChat(people, crossed)
      BY DEF TelegramInv
    <3> QED
      BY <1>1, <2>2, <2>8, <3>1 DEF OnePerChat, Grows
  <2>10. ASSUME NEW o \in Receiver, receiver'[o] = receiver[o], receiver[o] # Resting,
                ChatOf[receiver[o].update] \notin crossed
         PROVE  \A q \in DOMAIN people' \ DOMAIN people : people'[q] # ChatOf[receiver[o].update]
    <3>1. o # r
      BY <1>1, <2>3, <2>5, <2>10
    <3>2. ChatOf[receiver[o].update] # c
      BY <1>2, <2>10, <3>1 DEF TelegramInv, Crossings, ChatHere, UpdateOf, c
    <3> QED
      BY <2>2, <3>2
  <2>11. \A o \in Receiver :
           \/ receiver'[o] = Resting
           \/ receiver[o] # Resting /\ receiver'[o].update = receiver[o].update
    BY <1>2, <2>3, <2>5
  <2>12. \A o \in Receiver :
           \/ receiver'[o] = receiver[o]
           \/ Sound(receiver'[o], people', talks', messages', crossed', retyped')
    BY <1>1, <2>4, <2>5
  <2>13. KeepsPeople(talks, talks') /\ (~ bot'.telegram => retyped')
    BY <1>1, SameRemains DEF TelegramInv
  <2> QED
    BY <1>1, <2>2, <2>7, <2>9, <2>10, <2>11, <2>12, <2>13, Moves
<1> QED
  BY <1>4, <1>5

LEMMA OpenTalkStep ==
  ASSUME TelegramInv, NEW r \in Receiver, OpenTalk(r)
  PROVE  TelegramInv'
<1> DEFINE e == [person |-> receiver[r].person, open |-> TRUE]
           h == [receiver[r] EXCEPT !.at = "store", !.talk = Len(talks')]
<1>1. /\ receiver[r].at = "open"
      /\ UNCHANGED <<bot, people, messages, announced, posts, acked, retyped, others, crossed>>
      /\ talks' = Append(talks, e)
      /\ receiver' = [receiver EXCEPT ![r] = h]
  BY DEF OpenTalk, Moved
<1>2. /\ receiver \in [Receiver -> Handler] /\ receiver[r] \in Handler /\ receiver[r] # Resting
      /\ Sound(receiver[r], people, talks, messages, crossed, retyped)
  BY <1>1, HandlerType DEF Resting
<1>3. talks \in Talks(people) /\ Len(talks) \in Nat /\ e \in [person : DOMAIN people, open : BOOLEAN]
  <2>1. talks \in Talks(people)
    BY DEF TelegramInv, TelegramTypeOK, Talks
  <2>2. Len(talks) \in Nat
    BY <2>1, LenProperties DEF Talks
  <2>3. receiver[r].person \in DOMAIN people
    BY <1>1, <1>2 DEF Sound
  <2> QED
    BY <2>1, <2>2, <2>3
<1>4. e.person = receiver[r].person
  OBVIOUS
<1> HIDE DEF e
<1>5. /\ talks' \in Talks(people) /\ DOMAIN talks' = DOMAIN talks \cup {Len(talks) + 1}
      /\ Len(talks') = Len(talks) + 1 /\ talks'[Len(talks) + 1].person = receiver[r].person
      /\ KeepsPeople(talks, talks')
  BY <1>1, <1>3, <1>4, AppendFacts DEF Talks, KeepsPeople, Grows
<1>6. h \in Handler /\ h.update = receiver[r].update /\ h # Resting
      /\ h.at = "store" /\ h.person = receiver[r].person /\ h.talk = Len(talks) + 1
  <2>1. receiver[r] \in Handler /\ Len(talks) + 1 \in Nat /\ Len(talks') = Len(talks) + 1
    BY <1>2, <1>3, <1>5
  <2>2. h.at = "store" /\ h.update = receiver[r].update
        /\ h.person = receiver[r].person /\ h.talk = Len(talks) + 1
    BY <2>1 DEF Handler
  <2>3. h \in Handler
    BY <2>1 DEF Handler
  <2> QED
    BY <2>2, <2>3 DEF Resting
<1> HIDE DEF h
<1>7. Sound(h, people, talks', messages, crossed, retyped)
  BY <1>1, <1>2, <1>5, <1>6 DEF Sound
<1>8. receiver' \in [Receiver -> Handler] /\ receiver'[r] = h
      /\ \A o \in Receiver : o # r => receiver'[o] = receiver[o]
  BY <1>1, <1>2, <1>6
<1>9. TelegramTypeOK'
  <2>1. messages \subseteq [update : Understood, talk : DOMAIN talks']
    BY <1>5 DEF TelegramInv, TelegramTypeOK
  <2> QED
    BY <1>1, <1>5, <1>8, <2>1 DEF TelegramInv, TelegramTypeOK, Handler, Talks
<1>10. OnePerChat(people', crossed') /\ (~ bot'.telegram => retyped')
  BY <1>1 DEF TelegramInv
<1>11. \A o \in Receiver :
         \/ receiver'[o] = Resting
         \/ receiver[o] # Resting /\ receiver'[o].update = receiver[o].update
  BY <1>2, <1>6, <1>8
<1> QED
  BY <1>1, <1>5, <1>7, <1>8, <1>9, <1>10, <1>11, SameRemains, Moves

LEMMA StoreMessageStep ==
  ASSUME TelegramInv, NEW r \in Receiver, StoreMessage(r)
  PROVE  TelegramInv'
<1> DEFINE h == [receiver[r] EXCEPT !.at = "touch"]
           m == [update |-> receiver[r].update, talk |-> receiver[r].talk]
<1>1. /\ receiver[r].at = "store"
      /\ UNCHANGED <<bot, people, talks, announced, posts, acked, retyped, others, crossed>>
      /\ messages' = messages \cup {m}
      /\ receiver' = [receiver EXCEPT ![r] = h]
  BY DEF StoreMessage, GoesOn, Moved, Arrived, UpdateOf
<1>2. /\ receiver \in [Receiver -> Handler] /\ receiver[r] \in Handler /\ receiver[r] # Resting
      /\ Sound(receiver[r], people, talks, messages, crossed, retyped)
  BY <1>1, HandlerType DEF Resting
<1>3. h \in Handler /\ h.update = receiver[r].update /\ h # Resting
      /\ h.at = "touch" /\ h.person = receiver[r].person /\ h.talk = receiver[r].talk
  BY <1>2 DEF Handler, Resting
<1> HIDE DEF h
<1>4. m \in [update : Understood, talk : DOMAIN talks] /\ m = [update |-> h.update, talk |-> h.talk]
  BY <1>1, <1>2, <1>3 DEF Sound
<1> HIDE DEF m
<1>5. Sound(h, people, talks, messages', crossed, retyped)
  BY <1>1, <1>2, <1>3, <1>4 DEF Sound
<1>6. receiver' \in [Receiver -> Handler] /\ receiver'[r] = h
      /\ \A o \in Receiver : o # r => receiver'[o] = receiver[o]
  BY <1>1, <1>2, <1>3
<1>7. TelegramTypeOK'
  BY <1>1, <1>4, <1>6 DEF TelegramInv, TelegramTypeOK, Handler
<1>8. OnePerChat(people', crossed') /\ (~ bot'.telegram => retyped')
  BY <1>1 DEF TelegramInv
<1>9. \A o \in Receiver :
        \/ receiver'[o] = Resting
        \/ receiver[o] # Resting /\ receiver'[o].update = receiver[o].update
  BY <1>2, <1>3, <1>6
<1> QED
  BY <1>1, <1>5, <1>6, <1>7, <1>8, <1>9, SameRemains, Moves

LEMMA RecordWebhookStep ==
  ASSUME TelegramInv, NEW r \in Receiver, RecordWebhook(r)
  PROVE  TelegramInv'
<1> DEFINE m == [update |-> receiver[r].update, talk |-> receiver[r].talk]
<1>1. /\ receiver[r].at \in {"log", "ignore"}
      /\ announced' = IF receiver[r].at = "log" THEN announced \cup {m} ELSE announced
      /\ acked' = acked \cup {receiver[r].update} \/ acked' = acked
      /\ receiver' = [receiver EXCEPT ![r] = Resting]
      /\ UNCHANGED <<bot, people, talks, messages, posts, retyped, others, crossed>>
  BY DEF RecordWebhook, Refused, Moved, Arrived, UpdateOf
<1>2. /\ receiver \in [Receiver -> Handler] /\ receiver[r] \in Handler /\ receiver[r] # Resting
      /\ Sound(receiver[r], people, talks, messages, crossed, retyped)
  BY <1>1, HandlerType DEF Resting
<1>3. receiver' \in [Receiver -> Handler] /\ receiver'[r] = Resting
      /\ \A o \in Receiver : o # r => receiver'[o] = receiver[o]
  BY <1>1, <1>2, RestingSound
<1>4. receiver[r].update \in Update
  BY <1>1, <1>2 DEF Sound
<1>5. receiver[r].at = "log" => m \in messages
  BY <1>2 DEF Sound
<1>6. TelegramTypeOK'
  BY <1>1, <1>3, <1>4, <1>5 DEF TelegramInv, TelegramTypeOK, Handler
<1>7. ASSUME NEW u \in acked' \cap Understood, u \notin acked
      PROVE  HandledIn(u, announced', talks', people') \/ retyped'
  <2>1. u = receiver[r].update
    BY <1>1, <1>7
  <2>2. CASE receiver[r].at = "ignore"
    BY <1>1, <1>2, <1>7, <2>1, <2>2 DEF Sound
  <2>3. CASE receiver[r].at = "log"
    <3>1. /\ talks[receiver[r].talk].person = receiver[r].person
          /\ people[receiver[r].person] = ChatOf[u]
      BY <1>2, <2>1, <2>3 DEF Sound
    <3>2. m.update = u /\ m.talk = receiver[r].talk /\ m \in announced'
      BY <1>1, <2>1, <2>3
    <3> HIDE DEF m
    <3> QED
      BY <1>1, <3>1, <3>2 DEF HandledIn
  <2> QED
    BY <1>1, <2>2, <2>3
<1> HIDE DEF m
<1>8. OnePerChat(people', crossed') /\ (~ bot'.telegram => retyped') /\ announced \subseteq announced'
  BY <1>1 DEF TelegramInv
<1>9. \A o \in Receiver :
        \/ receiver'[o] = Resting
        \/ receiver[o] # Resting /\ receiver'[o].update = receiver[o].update
  BY <1>3
<1>10. \A o \in Receiver :
         \/ receiver'[o] = receiver[o]
         \/ Sound(receiver'[o], people', talks', messages', crossed', retyped')
  BY <1>3, RestingSound
<1> QED
  BY <1>1, <1>6, <1>7, <1>8, <1>9, <1>10, SameRemains, Moves

LEMMA PostStep ==
  ASSUME TelegramInv, NEW r \in Receiver, NEW u \in Update, Post(r, u)
  PROVE  TelegramInv'
<1>1. /\ posts < MaxPosts /\ posts' = posts + 1 /\ receiver[r] = Resting
      /\ UNCHANGED <<bot, people, talks, messages, announced, acked, retyped, others>>
  BY DEF Post
<1>2. PICK at \in {"route", "bot"} :
        receiver' = [receiver EXCEPT ![r] = [Resting EXCEPT !.at = at, !.update = u]]
  BY DEF Post, Moved
<1> DEFINE h == [Resting EXCEPT !.at = at, !.update = u]
<1>3. h \in Handler /\ h.at = at /\ h.update = u /\ h # Resting
  BY <1>2 DEF Handler, Resting
<1>4. receiver' = [receiver EXCEPT ![r] = h]
  BY <1>2
<1> HIDE DEF h
<1>5. receiver \in [Receiver -> Handler] /\ receiver' \in [Receiver -> Handler] /\ receiver'[r] = h
      /\ \A o \in Receiver : o # r => receiver'[o] = receiver[o]
  BY <1>3, <1>4, HandlerType
<1>6. /\ crossed \subseteq crossed' /\ crossed' \subseteq Chat
      /\ \A o \in Receiver :
           receiver[o] # Resting /\ ChatOf[receiver[o].update] = ChatOf[u] => ChatOf[u] \in crossed'
  <2>1. ChatOf[u] \in Chat /\ crossed \subseteq Chat
    BY TelegramAssumption DEF TelegramInv, TelegramTypeOK
  <2> QED
    BY <2>1 DEF Post, ChatHere, UpdateOf
<1>7. TelegramTypeOK'
  <2>1. posts' \in 0..MaxPosts
    BY <1>1, TelegramAssumption DEF TelegramInv, TelegramTypeOK
  <2> QED
    BY <1>1, <1>5, <1>6, <2>1 DEF TelegramInv, TelegramTypeOK, Handler
<1>8. ASSUME NEW o \in Receiver
      PROVE  Sound(receiver'[o], people', talks', messages', crossed', retyped')
  <2>1. CASE o = r
    <3>1. Sound(h, people, talks, messages, crossed', retyped)
      BY <1>2, <1>3 DEF Sound
    <3> QED
      BY <1>1, <1>5, <2>1, <3>1
  <2>2. CASE o # r
    <3>1. Sound(receiver[o], people, talks, messages, crossed, retyped)
      BY DEF TelegramInv
    <3>2. Sound(receiver[o], people, talks, messages, crossed', retyped)
      BY <1>6, <3>1 DEF Sound
    <3> QED
      BY <1>1, <1>5, <2>2, <3>2
  <2> QED
    BY <2>1, <2>2
<1>9. Crossings'
  <2>1. ASSUME NEW p \in Receiver, NEW o \in Receiver, p # o,
               receiver'[p] # Resting, receiver'[o] # Resting,
               ChatOf[receiver'[p].update] = ChatOf[receiver'[o].update]
        PROVE  ChatOf[receiver'[p].update] \in crossed'
    <3>1. CASE p = r
      BY <1>3, <1>5, <1>6, <2>1, <3>1
    <3>2. CASE o = r
      BY <1>3, <1>5, <1>6, <2>1, <3>2
    <3>3. CASE p # r /\ o # r
      BY <1>5, <1>6, <2>1, <3>3 DEF TelegramInv, Crossings, ChatHere, UpdateOf
    <3> QED
      BY <3>1, <3>2, <3>3
  <2> QED
    BY <2>1 DEF Crossings, ChatHere, UpdateOf, Resting
<1>10. /\ ~ bot'.telegram => retyped'
       /\ \A v \in acked' \cap Understood : HandledIn(v, announced', talks', people') \/ retyped'
       /\ OnePerChat(people', crossed')
  BY <1>1, <1>6 DEF TelegramInv, OnePerChat
<1>11. \A o \in Receiver : Sound(receiver[o], people, talks, messages, crossed, retyped)'
  BY <1>8 DEF Sound, Resting
<1>12. (\A v \in acked \cap Understood : HandledIn(v, announced, talks, people) \/ retyped)'
  BY <1>10 DEF HandledIn
<1>13. OnePerChat(people, crossed)'
  BY <1>10 DEF OnePerChat
<1> QED
  BY <1>7, <1>9, <1>10, <1>11, <1>12, <1>13 DEF TelegramInv

\* A step that no handler's progress is part of.
LEMMA OthersStep ==
  ASSUME TelegramInv, TelegramTypeOK',
         receiver' = receiver \/ receiver' = [r \in Receiver |-> Resting],
         UNCHANGED <<people, messages, announced, posts, acked, crossed>>,
         KeepsPeople(talks, talks'), retyped => retyped', ~ bot'.telegram => retyped'
  PROVE  TelegramInv'
<1>1. \A o \in Receiver : receiver'[o] = Resting \/ receiver'[o] = receiver[o]
  BY HandlerType
<1>2. OnePerChat(people', crossed')
  BY DEF TelegramInv
<1>3. \A o \in Receiver :
        \/ receiver'[o] = receiver[o]
        \/ Sound(receiver'[o], people', talks', messages', crossed', retyped')
  BY <1>1, RestingSound
<1>4. \A o \in Receiver :
        \/ receiver'[o] = Resting
        \/ receiver[o] # Resting /\ receiver'[o].update = receiver[o].update
  BY <1>1
<1> QED
  BY <1>1, <1>2, <1>3, <1>4, SameRemains, Moves

LEMMA ReceiversDieStep ==
  ASSUME TelegramInv, ReceiversDie
  PROVE  TelegramInv'
<1>1. receiver' \in [Receiver -> Handler]
  BY RestingSound DEF ReceiversDie
<1>2. TelegramTypeOK'
  BY <1>1 DEF ReceiversDie, TelegramInv, TelegramTypeOK, Handler
<1>3. UNCHANGED <<bot, people, talks, messages, announced, posts, acked, retyped, crossed>>
  BY DEF ReceiversDie
<1> QED
  BY <1>2, <1>3, SameRemains, OthersStep DEF ReceiversDie, TelegramInv

LEMMA EditBotStep ==
  ASSUME TelegramInv, EditBot
  PROVE  TelegramInv'
<1>1. /\ others' = others + 1 /\ others < MaxOthers /\ bot' \in Bot
      /\ retyped' = (retyped \/ ~ bot'.telegram)
      /\ UNCHANGED <<people, talks, messages, announced, receiver, posts, acked, crossed>>
  BY DEF EditBot
<1>2. others' \in 0..MaxOthers /\ retyped' \in BOOLEAN
  BY <1>1, TelegramAssumption DEF TelegramInv, TelegramTypeOK, Bot
<1>3. TelegramTypeOK'
  BY <1>1, <1>2 DEF TelegramInv, TelegramTypeOK
<1> QED
  BY <1>1, <1>3, SameRemains, OthersStep

LEMMA TurnTalkStep ==
  ASSUME TelegramInv, NEW t \in DOMAIN talks, TurnTalk(t)
  PROVE  TelegramInv'
<1> DEFINE e == [talks[t] EXCEPT !.open = ~ talks[t].open]
<1>1. /\ others' = others + 1 /\ others < MaxOthers
      /\ talks' = [talks EXCEPT ![t] = e]
      /\ UNCHANGED <<bot, people, messages, announced, receiver, posts, acked, retyped, crossed>>
  BY DEF TurnTalk
<1>2. talks \in Talks(people) /\ talks[t] \in [person : DOMAIN people, open : BOOLEAN]
  BY InSeq DEF TelegramInv, TelegramTypeOK, Talks
<1>3. e \in [person : DOMAIN people, open : BOOLEAN] /\ e.person = talks[t].person
  BY <1>2
<1> HIDE DEF e
<1>4. talks' \in Talks(people) /\ DOMAIN talks' = DOMAIN talks /\ KeepsPeople(talks, talks')
  BY <1>1, <1>2, <1>3, ExceptSeq DEF Talks, KeepsPeople
<1>5. others' \in 0..MaxOthers
  BY <1>1, TelegramAssumption DEF TelegramInv, TelegramTypeOK
<1>6. TelegramTypeOK'
  BY <1>1, <1>4, <1>5 DEF TelegramInv, TelegramTypeOK, Talks
<1> QED
  BY <1>1, <1>4, <1>6, OthersStep DEF TelegramInv

LEMMA StutterStep ==
  ASSUME TelegramInv, UNCHANGED telegramVars
  PROVE  TelegramInv'
<1>1. TelegramTypeOK'
  BY DEF telegramVars, TelegramInv, TelegramTypeOK
<1> QED
  BY <1>1, SameRemains, OthersStep DEF telegramVars, TelegramInv

LEMMA TelegramInvStep ==
  ASSUME TelegramInv, [TelegramNext]_telegramVars
  PROVE  TelegramInv'
<1>1. ASSUME NEW r \in Receiver, Receiving(r)
      PROVE  TelegramInv'
  BY <1>1, PostStep, DispatchStep, ReadBotStep, FindPersonStep, SavePersonStep, FindTalkStep,
     OpenTalkStep, StoreMessageStep, TouchTalkStep, RecordWebhookStep, ReceiveFailsStep
     DEF Receiving
<1> QED
  BY <1>1, ReceiversDieStep, EditBotStep, TurnTalkStep, StutterStep DEF TelegramNext

LEMMA TelegramStart ==
  ASSUME TelegramInit
  PROVE  TelegramInv
<1>1. receiver \in [Receiver -> Handler] /\ \A r \in Receiver : receiver[r] = Resting
  BY RestingSound DEF TelegramInit
<1>2. people \in Seq(Chat) /\ talks \in Seq([person : DOMAIN people, open : BOOLEAN])
      /\ DOMAIN people = {}
  BY EmptySeq DEF TelegramInit
<1>3. TelegramTypeOK
  <2>1. bot \in Bot
    BY DEF TelegramInit, Bot
  <2>2. posts \in 0..MaxPosts /\ others \in 0..MaxOthers
    BY TelegramAssumption DEF TelegramInit
  <2>3. /\ messages = {} /\ announced = {} /\ acked = {} /\ retyped = FALSE /\ crossed = {}
    BY DEF TelegramInit
  <2> QED
    BY <1>1, <1>2, <2>1, <2>2, <2>3 DEF TelegramTypeOK, Handler
<1>4. Crossings /\ OnePerChat(people, crossed)
  BY <1>1, <1>2 DEF Crossings, OnePerChat
<1>5. \A r \in Receiver : Sound(receiver[r], people, talks, messages, crossed, retyped)
  BY <1>1, RestingSound
<1> QED
  BY <1>3, <1>4, <1>5 DEF TelegramInit, TelegramInv

-----------------------------------------------------------------------------
\* The variables of the webhooks keep their types, for any number of updates,
\* chats, requests at a time and posts.
THEOREM TelegramTypeCorrect == TelegramSpec => []TelegramTypeOK
<1>1. TelegramInv => TelegramTypeOK
  BY DEF TelegramInv
<1> QED
  BY <1>1, TelegramStart, TelegramInvStep, PTL DEF TelegramSpec

\* An update that got a 200 is stored and announced for its sender, unless
\* nothing can be made of it or the row was not a bot's for a while; contacts
\* are doubled only where two updates of a chat were handled at a time.
THEOREM AcknowledgedAreHandled == TelegramSpec => []AcknowledgedIsHandled
<1>1. TelegramInv => AcknowledgedIsHandled
  BY DEF TelegramInv, AcknowledgedIsHandled, Handled, HandledIn, OnePerChat
<1> QED
  BY <1>1, TelegramStart, TelegramInvStep, PTL DEF TelegramSpec
=============================================================================
