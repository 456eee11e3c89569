---------------------------- MODULE MCMailQueue ----------------------------
(* The first mail goes to one partner, the second to all.                   *)
EXTENDS MailQueue

MCTo == [m \in Mails |-> IF m = 1 THEN {1} ELSE Partners]
=============================================================================
