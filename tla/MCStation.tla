------------------------------ MODULE MCStation ------------------------------
(* Small instances of Station for TLC: one channel, no repetition of the     *)
(* handshake frames, and an environment that waits for the command queue.    *)
EXTENDS Station
=============================================================================
