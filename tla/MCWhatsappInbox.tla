--------------------------- MODULE MCWhatsappInbox ---------------------------
(* w1 carries two messages of two senders and is delivered twice, so that  *)
(* deliveries of one sender overlap; w2 was sent to a number nobody has;    *)
(* the sender of w3 has the phone of an imported contact.                   *)
EXTENDS WhatsappInbox, TLC

CONSTANTS w1, w2, w3, m1, m2, m3, m4, k1, k2, k3, n1, n2

MCBatch    == w1 :> <<m1, m2>> @@ w2 :> <<m3>> @@ w3 :> <<m4>>
MCToNumber == w1 :> n1 @@ w2 :> n2 @@ w3 :> n1
MCSender   == m1 :> k1 @@ m2 :> k2 @@ m3 :> k1 @@ m4 :> k3
=============================================================================
