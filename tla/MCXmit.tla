------------------------------- MODULE MCXmit -------------------------------
(* A small instance of Xmit: two access categories, vo served before be.     *)
EXTENDS Xmit

TwoAcs == {"vo", "be"}
VoFirst == [a \in TwoAcs |-> IF a = "be" THEN {"vo"} ELSE {}]
=============================================================================
