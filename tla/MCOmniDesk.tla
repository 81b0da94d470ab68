------------------------------ MODULE MCOmniDesk ------------------------------
(* One contact that writes while agents work on its conversations, and an   *)
(* automation per trigger: one queues, one assigns, one closes, and the one *)
(* that runs on closing closes again and puts the conversation to a queue.  *)
EXTENDS OmniDesk, TLC

CONSTANTS k1, n1, w1, m1, opened, received, keyword, closed, q1, a1

MCBatch    == w1 :> <<m1>>
MCToNumber == w1 :> n1
MCSender   == m1 :> k1

Do(type, to) == [type |-> type, to |-> to]

MCCreated   == <<opened, received, keyword, closed>>
MCTrigger   == opened :> "CONVERSATION_OPENED" @@ received :> "MESSAGE_RECEIVED"
                 @@ keyword :> "KEYWORD_MATCH" @@ closed :> "CONVERSATION_CLOSED"
MCCondition == opened :> None @@ received :> "WAITING" @@ keyword :> None @@ closed :> None
MCActions   == opened   :> <<Do("ASSIGN_QUEUE", q1)>>
            @@ received :> <<Do("SIDE_EFFECT", None), Do("ASSIGN_AGENT", a1)>>
            @@ keyword  :> <<Do("CLOSE_CONVERSATION", None)>>
            @@ closed   :> <<Do("CLOSE_CONVERSATION", None), Do("ASSIGN_QUEUE", q1)>>

MCCreateDto   == {[NoDto EXCEPT !.contact = k1, !.channel = "WHATSAPP", !.number = n1]}
MCUpdateDto   == {[NoDto EXCEPT !.number = n1]}
MCTransferDto == {[NoDto EXCEPT !.queue = q1]}
=============================================================================
