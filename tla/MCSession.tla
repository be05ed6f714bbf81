----------------------------- MODULE MCSession -----------------------------
(* Instances of Session for TLC: what each user may send. *)
EXTENDS Session

Chats  == [e \in Ends |-> IF e = "dialler" THEN 2 ELSE 1]
Offers == [e \in Ends |-> IF e = "dialler" THEN 1 ELSE 0]
NoOffers == [e \in Ends |-> 0]

\* The last of two chats and an offer, if it is a chat.
Last == {3}
=============================================================================
