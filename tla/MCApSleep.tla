------------------------------ MODULE MCApSleep ------------------------------
(* A small instance of ApSleep: one station with a legacy and a delivery-     *)
(* enabled category, one with both delivery-enabled and an aid above 7.       *)
EXTENDS ApSleep

MixedAndAll == [s \in {"s1", "s2"} |-> IF s = "s1" THEN {"vo"} ELSE {"be", "vo"}]
LowAndHigh == [s \in {"s1", "s2"} |-> IF s = "s1" THEN 1 ELSE 9]
=============================================================================
