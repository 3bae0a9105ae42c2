---------------------------- MODULE MCMessaging -----------------------------
(* Instances of Messaging for TLC.                                         *)
EXTENDS Messaging

CONSTANTS alice, bob, m1, m2

(* alice writes to bob; one connection for her, the others for him.        *)
MCFrom == [m \in Messages |-> alice]
MCTo == [m \in Messages |-> bob]
MCOwner == [c \in Conns |-> IF c = 1 THEN alice ELSE bob]
=============================================================================
