--------------------------- MODULE MCConversations ---------------------------
(* Instances of Conversations for TLC: one contact on one channel, so that  *)
(* every create is about the same contact, and one queue and one agent.     *)
EXTENDS Conversations, TLC

MCCreateDto == {[NoDto EXCEPT !.contact = k, !.channel = "WHATSAPP", !.queue = q] :
                  k \in Contact, q \in Queue \cup {None}}

MCUpdateDto == {[NoDto EXCEPT !.queue = q] : q \in Queue}
                 \cup {[NoDto EXCEPT !.channel = "TELEGRAM"]}

\* To an agent, to a queue, and with neither (back to the queue it was read in).
MCTransferDto == {[NoDto EXCEPT !.agent = a] : a \in Agent \cup {None}}
                   \cup {[NoDto EXCEPT !.queue = q] : q \in Queue}

MCQueueOnly == {[NoDto EXCEPT !.queue = q] : q \in Queue}

Symmetry == Permutations(Conversation) \cup Permutations(Request)
              \cup Permutations(Queue) \cup Permutations(Agent)
=============================================================================
