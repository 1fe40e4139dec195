---------------------------- MODULE MCRecvReorder ----------------------------
(* Small instances of RecvReorder for TLC.  A sequence space of 16 or 32     *)
(* numbers stands for the 4096 of the driver, and the frames First..Last lie *)
(* around the wrap of that space.                                            *)
EXTENDS RecvReorder
=============================================================================
