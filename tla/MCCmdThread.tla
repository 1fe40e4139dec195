----------------------------- MODULE MCCmdThread -----------------------------
(* Small instances of CmdThread for TLC: one command object, which is used   *)
(* again and again, and a thread that is created twice.                      *)
EXTENDS CmdThread
=============================================================================
