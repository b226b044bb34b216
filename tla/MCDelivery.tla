----------------------------- MODULE MCDelivery -----------------------------
(***************************************************************************)
(* Delivery with two contacts and three windows: a message to one contact, *)
(* one to both, and a request for authorization.                           *)
(***************************************************************************)
EXTENDS Delivery

CONSTANTS c1, c2, alone, party, auth

MCWindows == {alone, party, auth}
MCRecipients == [w \in MCWindows |-> IF w = party THEN {c1, c2} ELSE {c1}]
=============================================================================
