------------------------------ MODULE DeskPage ------------------------------
(***************************************************************************)
(* The service desk page of one agent: the list of conversations, the one  *)
(* that is selected, and one input whose text stays there when another     *)
(* conversation is selected.  Sending, resolving and closing are requests  *)
(* whose answers act on whatever is selected and typed when they come; a   *)
(* send that waits offline goes to what is selected when it goes on.  The  *)
(* room of the selected conversation is in Presence; of the server only    *)
(* the storing of a sent message is here, and of its messages, which are   *)
(* fetched and shown and decide nothing, none.                             *)
(*                                                                         *)
(* A text is what the agent has in mind to say; he types each once, and a  *)
(* text he deletes himself is no loss.                                     *)
(***************************************************************************)
EXTENDS Naturals

CONSTANTS
  Talk,           \* conversations
  Text,
  SendSlot,       \* slots of sends under way
  MaxSends,       \* how many are begun
  NoTalk, NoText

ASSUME DeskPageAssumption ==
  NoTalk \notin Talk /\ NoText \notin Text /\ MaxSends \in Nat

VARIABLES
  listed,         \* conversations of the list as it was last fetched
  selectedConv,   \* the selected one, be it listed or not
  message,        \* what is in the input
  sending,        \* the sends under way
  turning,        \* conversations whose resolve or close is under way
  said,           \* messages of the server: text and conversation
  sends,          \* sends begun so far
  typedThen,      \* texts that were typed while a send was under way
  entered,        \* texts sent so far, and the conversation shown above the input
  astray,         \* texts that went on after they had waited, and where to
  wiped           \* texts that the answer to a send took from the input

deskVars == <<listed, selectedConv, message, sending, turning, said, sends,
              typedThen, entered, astray, wiped>>

NoSend == [at |-> "none", text |-> NoText, talk |-> NoTalk]

SendsUnderWay == {p \in SendSlot : sending[p] # NoSend}

\* The chat area, with the input and the buttons, shows only a listed conversation.
Displayed == selectedConv \in listed

-----------------------------------------------------------------------------
(* The list and the selection.                                             *)

\* A poll, an invalidation, another filter or another search: any conversations may
\* be in the answer, for agents and customers change them meanwhile.
ConversationsArrive(S) ==
  /\ listed' = S
  /\ UNCHANGED <<selectedConv, message, sending, turning, said, sends,
                 typedThen, entered, astray, wiped>>

Select(t) ==
  /\ t \in listed
  /\ selectedConv' = t
  /\ UNCHANGED <<listed, message, sending, turning, said, sends,
                 typedThen, entered, astray, wiped>>

\* The buttons Resolver and Encerrar.
Turn ==
  /\ Displayed
  /\ turning' = turning \cup {selectedConv}
  /\ UNCHANGED <<listed, selectedConv, message, sending, said, sends,
                 typedThen, entered, astray, wiped>>

\* The success of either deselects, whatever is selected by then; an error does not.
Turned(t) ==
  /\ t \in turning
  /\ turning' = turning \ {t}
  /\ selectedConv' \in {selectedConv, NoTalk}
  /\ UNCHANGED <<listed, message, sending, said, sends, typedThen, entered, astray, wiped>>

-----------------------------------------------------------------------------
(* The input.                                                              *)

Type(x) ==
  /\ Displayed
  /\ x \notin typedThen /\ \A e \in entered : e[1] # x
  /\ message' = x
  /\ typedThen' = IF SendsUnderWay # {} THEN typedThen \cup {x} ELSE typedThen
  /\ UNCHANGED <<listed, selectedConv, sending, turning, said, sends,
                 entered, astray, wiped>>

\* The text is sent, or waits offline for the conversation that will be selected when
\* it goes on; another that waits keeps the selection it finds now.
Sends(p) ==
  {[q \in SendSlot |->
      IF q = p THEN new
      ELSE IF sending[q].at = "paused" /\ sending[q].talk = NoTalk
             THEN [sending[q] EXCEPT !.talk = selectedConv]
      ELSE sending[q]] :
     new \in {[at |-> "sent", text |-> message, talk |-> selectedConv],
             [at |-> "paused", text |-> message, talk |-> NoTalk]}}

Enter(p) ==
  /\ Displayed /\ message # NoText
  /\ sends < MaxSends /\ sending[p] = NoSend
  /\ sending' \in Sends(p)
  /\ sends' = sends + 1
  /\ entered' = entered \cup {<<message, selectedConv>>}
  /\ UNCHANGED <<listed, selectedConv, turning, said, typedThen, astray>>

\* Faulty variant: the input is cleared when the message is sent.
HandleSendClearing(p) ==
  Enter(p) /\ message' = NoText /\ wiped' = wiped \cup {message}

\* The button waits for the answer to the last send, the Enter key does not.
HandleSend(p) == Enter(p) /\ UNCHANGED <<message, wiped>>

\* Back online.  With nothing selected the address is wrong.
SendGoesOn(p) ==
  /\ sending[p].at = "paused"
  /\ LET to == IF sending[p].talk = NoTalk THEN selectedConv ELSE sending[p].talk
     IN /\ sending' = [sending EXCEPT ![p].at = IF to = NoTalk THEN "error" ELSE "sent",
                                      ![p].talk = to]
        /\ astray' = IF to = NoTalk THEN astray ELSE astray \cup {<<sending[p].text, to>>}
  /\ UNCHANGED <<listed, selectedConv, message, turning, said, sends,
                 typedThen, entered, wiped>>

\* The server stores the message or fails, and its answer may get lost.
SendServed(p) ==
  /\ sending[p].at = "sent"
  /\ \E at \in {"ok", "error"} : sending' = [sending EXCEPT ![p].at = at]
  /\ \/ said' = said \cup {<<sending[p].text, sending[p].talk>>}
     \/ said' = said /\ sending'[p].at = "error"
  /\ UNCHANGED <<listed, selectedConv, message, turning, sends,
                 typedThen, entered, astray, wiped>>

\* onSuccess; an error changes nothing on the page.
SendAnswered(p) ==
  /\ sending[p].at \in {"ok", "error"}
  /\ sending' = [sending EXCEPT ![p] = NoSend]
  /\ IF sending[p].at = "ok"
       THEN /\ message' = NoText
            /\ wiped' = wiped \cup ({message} \ {NoText})
       ELSE UNCHANGED <<message, wiped>>
  /\ UNCHANGED <<listed, selectedConv, turning, said, sends, typedThen, entered, astray>>

DeskInit ==
  /\ listed = {} /\ selectedConv = NoTalk /\ message = NoText
  /\ sending = [p \in SendSlot |-> NoSend]
  /\ turning = {} /\ said = {}
  /\ sends = 0 /\ typedThen = {} /\ entered = {} /\ astray = {} /\ wiped = {}

DeskNext ==
  \/ \E S \in SUBSET Talk : ConversationsArrive(S)
  \/ \E t \in Talk : Select(t) \/ Turned(t)
  \/ Turn
  \/ \E x \in Text : Type(x)
  \/ \E p \in SendSlot : HandleSend(p) \/ SendGoesOn(p) \/ SendServed(p) \/ SendAnswered(p)

DeskSpec == DeskInit /\ [][DeskNext]_deskVars

Said == Text \X Talk

DeskPageTypeOK ==
  /\ listed \subseteq Talk
  /\ selectedConv \in Talk \cup {NoTalk}
  /\ message \in Text \cup {NoText}
  /\ sending \in [SendSlot -> [at : {"none", "paused", "sent", "ok", "error"},
                              text : Text \cup {NoText}, talk : Talk \cup {NoTalk}]]
  /\ turning \subseteq Talk
  /\ said \subseteq Said
  /\ sends \in 0..MaxSends
  /\ typedThen \subseteq Text
  /\ entered \subseteq Said /\ astray \subseteq Said
  /\ wiped \subseteq Text
-----------------------------------------------------------------------------
(***************************************************************************)
(* A text leaves the input only when it has been stored in a conversation: *)
(* failed sends, lost answers and changes of the selection lose none, be   *)
(* it that the send waits offline meanwhile.  Only a text that was typed   *)
(* while a send was under way may be wiped by its answer.  And only a send *)
(* that waited is stored in another conversation than the one displayed    *)
(* when it was entered.                                                    *)
(***************************************************************************)
TypedIsSentOrKept ==
  /\ \A x \in wiped : x \in typedThen \/ \E t \in Talk : <<x, t>> \in said
  /\ said \subseteq entered \cup astray
=============================================================================
